------------------------- MODULE PropertyGraph_proofs -------------------------
(***************************************************************************)
(* Facts about sequences of statements that the proofs about writers share:*)
(* what is sent of a sequence, and a plan that deletes, writes nodes,      *)
(* writes edges, and last writes a file's node.                            *)
(***************************************************************************)
EXTENDS PropertyGraph, SequencesExt, FiniteSetTheorems, SequenceTheorems, WellFoundedInduction, TLAPS

\* The statements a writer sends: all but the batches without rows.
Kept(steps) == {i \in DOMAIN steps : steps[i].op = "delete" \/ steps[i].rows # {}}

\* The order of a finite set of numbers, counted from one.
LEMMA Places ==
  ASSUME NEW kept \in SUBSET Nat, IsFiniteSet(kept)
  PROVE  LET place(i) == Cardinality({k \in kept : k <= i}) IN
         /\ Cardinality(kept) \in Nat
         /\ \A i \in kept : place(i) \in 1..Cardinality(kept)
         /\ \A i, j \in kept : i < j => place(i) < place(j)
         /\ \A n \in 1..Cardinality(kept) : \E i \in kept : place(i) = n
<1> DEFINE upto(i) == {k \in kept : k <= i}
           place(i) == Cardinality(upto(i))
           P == [i \in kept |-> place(i)]
<1>1. Cardinality(kept) \in Nat
  BY FS_CardinalityType
<1>2. \A i \in kept : IsFiniteSet(upto(i)) /\ place(i) \in Nat /\ place(i) <= Cardinality(kept)
  <2> TAKE i \in kept
  <2>1. upto(i) \in SUBSET kept
    OBVIOUS
  <2> QED
    BY <2>1, FS_Subset, FS_CardinalityType
<1>3. ASSUME NEW i \in kept PROVE place(i) # 0
  <2>1. i \in upto(i)
    OBVIOUS
  <2> QED
    BY <2>1, <1>2, FS_EmptySet
<1>4. ASSUME NEW i \in kept, NEW j \in kept, i < j PROVE place(i) < place(j)
  <2>1. upto(i) \in SUBSET upto(j) /\ j \in upto(j) /\ j \notin upto(i)
    <3>1. \A k \in kept : k \in Nat
      OBVIOUS
    <3>2. ASSUME NEW k \in upto(i) PROVE k \in upto(j)
      BY <1>4, <3>1
    <3>3. j \in upto(j) /\ j \notin upto(i)
      BY <1>4, <3>1
    <3> QED
      BY <3>2, <3>3
  <2>2. place(i) <= place(j) /\ place(i) # place(j)
    <3> HIDE DEF upto
    <3> QED
      BY <2>1, <1>2, FS_Subset
  <2> QED
    BY <2>2, <1>2
<1>5. P \in Injection(kept, 1..Cardinality(kept))
  <2>1. \A i \in kept : place(i) \in 1..Cardinality(kept)
    BY <1>1, <1>2, <1>3
  <2>2. P \in [kept -> 1..Cardinality(kept)]
    BY <2>1
  <2>3. ASSUME NEW i \in kept, NEW j \in kept, P[i] = P[j] PROVE i = j
    <3> HIDE DEF place
    <3>1. place(i) \in Nat /\ place(j) \in Nat /\ place(i) = place(j)
      BY <1>2, <2>3
    <3>2. ~ (i < j) /\ ~ (j < i)
      BY <3>1, <1>4
    <3> QED
      BY <3>2
  <2> QED
    BY <2>2, <2>3 DEF Injection, IsInjective
<1>6. Cardinality(1..Cardinality(kept)) = Cardinality(kept) /\ IsFiniteSet(1..Cardinality(kept))
  BY <1>1, FS_Interval
<1>7. P \in Surjection(kept, 1..Cardinality(kept))
  BY <1>5, <1>6, FS_Injection
<1>8. \A n \in 1..Cardinality(kept) : \E i \in kept : place(i) = n
  <2> HIDE DEF place
  <2> QED
    BY <1>7 DEF Surjection
<1> QED
  BY <1>1, <1>2, <1>3, <1>4, <1>8

\* What is sent of a sequence of statements: they keep their order, and none that has
\* rows is lost.
LEMMA SentFacts ==
  ASSUME NEW S, NEW steps \in Seq(S)
  PROVE  /\ Sent(steps) \in Seq(S)
         /\ \E from \in [DOMAIN Sent(steps) -> Kept(steps)] :
              /\ \A n \in DOMAIN Sent(steps) : Sent(steps)[n] = steps[from[n]]
              /\ \A m, n \in DOMAIN Sent(steps) : m < n <=> from[m] < from[n]
              /\ \A i \in Kept(steps) : \E n \in DOMAIN Sent(steps) : from[n] = i
<1> DEFINE kept == Kept(steps)
           place(i) == Cardinality({k \in kept : k <= i})
           from == [n \in 1..Cardinality(kept) |-> CHOOSE i \in kept : place(i) = n]
<1>1. kept \in SUBSET Nat /\ kept \in SUBSET (1..Len(steps)) /\ Len(steps) \in Nat
  BY DEF Kept
<1>2. IsFiniteSet(kept)
  <2> HIDE DEF kept
  <2>1. IsFiniteSet(1..Len(steps))
    BY <1>1, FS_Interval
  <2> QED
    BY <1>1, <2>1, FS_Subset
<1>3. /\ Cardinality(kept) \in Nat
      /\ \A i \in kept : place(i) \in 1..Cardinality(kept)
      /\ \A i, j \in kept : i < j => place(i) < place(j)
      /\ \A n \in 1..Cardinality(kept) : \E i \in kept : place(i) = n
  BY <1>1, <1>2, Places
<1>4. Sent(steps) = [n \in 1..Cardinality(kept) |-> steps[from[n]]]
  BY DEF Sent, Kept
<1> HIDE DEF kept, place
<1>5. \A n \in 1..Cardinality(kept) : from[n] \in kept /\ place(from[n]) = n
  BY <1>3
<1>6. \A i \in kept : steps[i] \in S /\ i \in Nat
  BY <1>1
<1> HIDE DEF from
<1>7. Sent(steps) \in Seq(S) /\ DOMAIN Sent(steps) = 1..Cardinality(kept)
  BY <1>3, <1>4, <1>5, <1>6, IsASeq
<1>8. from \in [DOMAIN Sent(steps) -> kept]
  BY <1>5, <1>7 DEF from
<1>9. \A n \in DOMAIN Sent(steps) : Sent(steps)[n] = steps[from[n]]
  BY <1>4, <1>7
<1>10. \A m, n \in DOMAIN Sent(steps) : m < n <=> from[m] < from[n]
  <2> TAKE m, n \in DOMAIN Sent(steps)
  <2>a. m \in 1..Cardinality(kept) /\ n \in 1..Cardinality(kept)
    BY <1>7
  <2>b. from[m] \in kept /\ from[n] \in kept /\ place(from[m]) = m /\ place(from[n]) = n
    BY <1>5, <2>a
  <2>1. m \in Nat /\ n \in Nat /\ from[m] \in Nat /\ from[n] \in Nat
    BY <1>3, <1>6, <2>a, <2>b
  <2>2. from[m] < from[n] => m < n
    BY <1>3, <2>b
  <2>3. from[n] < from[m] => n < m
    BY <1>3, <2>b
  <2> QED
    BY <2>1, <2>2, <2>3, <2>b
<1>11. \A i \in kept : \E n \in DOMAIN Sent(steps) : from[n] = i
  <2> TAKE i \in kept
  <2>1. place(i) \in 1..Cardinality(kept)
    BY <1>3
  <2>2. from[place(i)] \in kept /\ place(from[place(i)]) = place(i)
    BY <1>5, <2>1
  <2>3. ~ (from[place(i)] < i) /\ ~ (i < from[place(i)])
    <3>1. ASSUME NEW j \in kept, NEW k \in kept, j < k PROVE place(j) # place(k)
      <4>1. place(j) < place(k) /\ place(j) \in Nat /\ place(k) \in Nat
        BY <1>3, <3>1
      <4> QED
        BY <4>1
    <3> QED
      BY <2>2, <3>1
  <2>4. from[place(i)] = i
    BY <1>6, <2>2, <2>3
  <2> QED
    BY <1>7, <2>1, <2>4
<1> QED
  BY <1>7, <1>8, <1>9, <1>10, <1>11 DEF kept

\* Leaving out the batches without rows keeps what a plan writes and its order.
LEMMA SentKeepsOrder ==
  ASSUME NEW S, NEW steps \in Seq(S)
  PROVE  /\ NodesOf(Sent(steps)) = NodesOf(steps)
         /\ EndsFirst(steps) => EndsFirst(Sent(steps))
         /\ DeletesLead(steps) => DeletesLead(Sent(steps))
         /\ DeletesNothing(steps) => DeletesNothing(Sent(steps))
<1> DEFINE sent == Sent(steps)
<1>1. PICK from \in [DOMAIN sent -> Kept(steps)] :
         /\ \A n \in DOMAIN sent : sent[n] = steps[from[n]]
         /\ \A m, n \in DOMAIN sent : m < n <=> from[m] < from[n]
         /\ \A i \in Kept(steps) : \E n \in DOMAIN sent : from[n] = i
  BY SentFacts
<1>2. sent \in Seq(S)
  BY SentFacts
<1> HIDE DEF sent
<1>3. \A n \in DOMAIN sent : from[n] \in DOMAIN steps
  BY <1>1 DEF Kept
<1>4. NodesOf(sent) = NodesOf(steps)
  <2>1. ASSUME NEW x \in NodesOf(sent) PROVE x \in NodesOf(steps)
    <3>1. PICK n \in DOMAIN sent : sent[n].op = "nodes" /\ x \in sent[n].rows
      BY <2>1 DEF NodesOf
    <3> QED
      BY <1>1, <1>3, <3>1 DEF NodesOf
  <2>2. ASSUME NEW x \in NodesOf(steps) PROVE x \in NodesOf(sent)
    <3>1. PICK i \in DOMAIN steps : steps[i].op = "nodes" /\ x \in steps[i].rows
      BY <2>2 DEF NodesOf
    <3>2. PICK n \in DOMAIN sent : from[n] = i
      BY <1>1, <3>1 DEF Kept
    <3>3. sent[n].op = "nodes" /\ x \in sent[n].rows
      BY <1>1, <3>1, <3>2
    <3> QED
      BY <3>3 DEF NodesOf
  <2> QED
    BY <2>1, <2>2
<1>5. ASSUME EndsFirst(steps) PROVE EndsFirst(sent)
  <2> SUFFICES ASSUME NEW n \in DOMAIN sent, sent[n].op = "edges", NEW e \in sent[n].rows,
                      NEW x \in {e.from, e.to} \cap NodesOf(sent)
               PROVE  \E m \in 1..(n - 1) : sent[m].op = "nodes" /\ x \in sent[m].rows
    BY DEF EndsFirst
  <2>1. PICK k \in 1..(from[n] - 1) : steps[k].op = "nodes" /\ x \in steps[k].rows
    BY <1>1, <1>3, <1>4, <1>5 DEF EndsFirst
  <2>2. k \in DOMAIN steps /\ k < from[n]
    BY <1>3, <2>1
  <2>3. PICK m \in DOMAIN sent : from[m] = k
    BY <1>1, <2>1, <2>2 DEF Kept
  <2>4. m < n /\ m \in 1..(n - 1)
    BY <1>1, <1>2, <2>2, <2>3
  <2> QED
    BY <1>1, <2>1, <2>3, <2>4
<1>6. DeletesLead(steps) => DeletesLead(sent)
  BY <1>1, <1>3 DEF DeletesLead
<1>7. DeletesNothing(steps) => DeletesNothing(sent)
  BY <1>1, <1>3 DEF DeletesNothing
<1> QED
  BY <1>4, <1>5, <1>6, <1>7 DEF sent

\* Of the statements m to n all are deletions, all write nodes, all write edges none of
\* which is at file.
Deletions(steps, m, n) == \A i \in m..n : steps[i].op = "delete"
OnlyNodes(steps, m, n) == \A i \in m..n : steps[i].op = "nodes"
OnlyEdges(steps, m, n, file) ==
  \A i \in m..n : steps[i].op = "edges" /\ \A x \in steps[i].rows : x.from # file /\ x.to # file
\* After the m-th comes nothing, or the node of the file and edges.
FileLast(steps, m, n, file) ==
  \/ n = m
  \/ /\ n = m + 2 /\ steps[m + 1].op = "nodes" /\ steps[m + 1].rows = {file}
     /\ steps[m + 2].op = "edges"

Parted(steps, a, b, c, l, file) ==
  /\ {a, b, c, l} \subseteq Nat /\ a <= b /\ b <= c
  /\ DOMAIN steps = 1..l
  /\ Deletions(steps, 1, a)
  /\ OnlyNodes(steps, a + 1, b)
  /\ OnlyEdges(steps, b + 1, c, file)
  /\ FileLast(steps, c, l, file)

\* A plan of these four parts deletes first, and writes the ends of every edge before
\* the edge.
LEMMA InOrder ==
  ASSUME NEW steps, NEW a, NEW b, NEW c, NEW l, NEW file, Parted(steps, a, b, c, l, file)
  PROVE  EndsFirst(steps) /\ DeletesLead(steps) /\ (a = 0 => DeletesNothing(steps))
<1>0. /\ a \in Nat /\ b \in Nat /\ c \in Nat /\ l \in Nat /\ a <= b /\ b <= c /\ DOMAIN steps = 1..l
      /\ l \in {c, c + 2}
      /\ \A i \in 1..a : steps[i].op = "delete"
      /\ \A i \in (a + 1)..b : steps[i].op = "nodes"
      /\ \A i \in (b + 1)..c :
           steps[i].op = "edges" /\ \A x \in steps[i].rows : x.from # file /\ x.to # file
      /\ l = c + 2 => /\ steps[c + 1].op = "nodes" /\ steps[c + 1].rows = {file}
                      /\ steps[c + 2].op = "edges"
  BY DEF Parted, Deletions, OnlyNodes, OnlyEdges, FileLast
<1>1. ASSUME NEW i \in 1..l
      PROVE  \/ i \in 1..a \/ i \in (a + 1)..b \/ i \in (b + 1)..c
             \/ (l = c + 2 /\ i = c + 1) \/ (l = c + 2 /\ i = c + 2)
  BY <1>0
<1>2. \A i \in 1..l : steps[i].op = "delete" => i <= a
  BY <1>0, <1>1
<1>3. \A i \in 1..l : i <= a => steps[i].op = "delete"
  BY <1>0, <1>1
<1>4. DeletesLead(steps)
  BY <1>0, <1>2, <1>3 DEF DeletesLead
<1>5. a = 0 => DeletesNothing(steps)
  BY <1>0, <1>2 DEF DeletesNothing
<1>6. ASSUME NEW i \in 1..l, steps[i].op = "edges", NEW x \in steps[i].rows,
             NEW y \in {x.from, x.to}, NEW k \in 1..l, steps[k].op = "nodes", y \in steps[k].rows
      PROVE  k < i
  <2>1. i \in (b + 1)..c \/ (l = c + 2 /\ i = c + 2)
    BY <1>0, <1>1, <1>6
  <2>2. k \in (a + 1)..b \/ (l = c + 2 /\ k = c + 1 /\ y = file)
    BY <1>0, <1>1, <1>6
  <2>3. i \in (b + 1)..c => y # file
    BY <1>0, <1>6
  <2> QED
    BY <1>0, <2>1, <2>2, <2>3
<1>7. EndsFirst(steps)
  <2> SUFFICES ASSUME NEW i \in DOMAIN steps, steps[i].op = "edges", NEW x \in steps[i].rows,
                      NEW y \in {x.from, x.to} \cap NodesOf(steps)
               PROVE  \E k \in 1..(i - 1) : steps[k].op = "nodes" /\ y \in steps[k].rows
    BY <1>0 DEF EndsFirst
  <2>1. PICK k \in 1..l : steps[k].op = "nodes" /\ y \in steps[k].rows
    BY <1>0 DEF NodesOf
  <2>2. k < i
    BY <1>0, <1>6, <2>1
  <2>3. k \in 1..(i - 1)
    BY <1>0, <2>2
  <2> QED
    BY <2>1, <2>3
<1> QED
  BY <1>4, <1>5, <1>7

\* The positions of a concatenation.
LEMMA TwoParts ==
  ASSUME NEW S, NEW s \in Seq(S), NEW t \in Seq(S)
  PROVE  /\ s \o t \in Seq(S)
         /\ Len(s) \in Nat /\ Len(t) \in Nat /\ Len(s \o t) = Len(s) + Len(t)
         /\ DOMAIN (s \o t) = 1..Len(s \o t)
         /\ \A i \in 1..Len(s) : i \in DOMAIN s /\ (s \o t)[i] = s[i]
         /\ \A i \in (Len(s) + 1)..Len(s \o t) :
              i - Len(s) \in 1..Len(t) /\ i - Len(s) \in DOMAIN t /\ (s \o t)[i] = t[i - Len(s)]
  OBVIOUS


\* What holds of a range of a sequence holds of it when another is put behind.
LEMMA Before ==
  ASSUME NEW S, NEW s \in Seq(S), NEW t \in Seq(S), NEW m \in Nat, m > 0, NEW n \in Nat, n <= Len(s)
  PROVE  /\ Deletions(s, m, n) => Deletions(s \o t, m, n)
         /\ OnlyNodes(s, m, n) => OnlyNodes(s \o t, m, n)
         /\ \A file : OnlyEdges(s, m, n, file) => OnlyEdges(s \o t, m, n, file)
<1>1. \A i \in m..n : i \in 1..Len(s)
  BY TwoParts
<1>2. \A i \in m..n : (s \o t)[i] = s[i]
  BY <1>1, TwoParts
<1> QED
  BY <1>2 DEF Deletions, OnlyNodes, OnlyEdges

\* What holds of all of a sequence holds of the range it takes behind another.
LEMMA Behind ==
  ASSUME NEW S, NEW s \in Seq(S), NEW t \in Seq(S)
  PROVE  /\ OnlyNodes(t, 1, Len(t)) => OnlyNodes(s \o t, Len(s) + 1, Len(s \o t))
         /\ \A file : OnlyEdges(t, 1, Len(t), file) => OnlyEdges(s \o t, Len(s) + 1, Len(s \o t), file)
         /\ \A file : FileLast(t, 0, Len(t), file) => FileLast(s \o t, Len(s), Len(s \o t), file)
<1>1. \A i \in (Len(s) + 1)..Len(s \o t) :
        i - Len(s) \in 1..Len(t) /\ (s \o t)[i] = t[i - Len(s)]
  BY TwoParts
<1>2. OnlyNodes(t, 1, Len(t)) => OnlyNodes(s \o t, Len(s) + 1, Len(s \o t))
  BY <1>1 DEF OnlyNodes
<1>3. ASSUME NEW file PROVE OnlyEdges(t, 1, Len(t), file) => OnlyEdges(s \o t, Len(s) + 1, Len(s \o t), file)
  BY <1>1 DEF OnlyEdges
<1>4. Len(s) \in Nat /\ Len(t) \in Nat /\ Len(s \o t) = Len(s) + Len(t)
  BY TwoParts
<1>5. Len(t) = 2 => (s \o t)[Len(s) + 1] = t[1] /\ (s \o t)[Len(s) + 2] = t[2]
  BY <1>4
<1>6. ASSUME NEW file, FileLast(t, 0, Len(t), file) PROVE FileLast(s \o t, Len(s), Len(s \o t), file)
  <2>1. CASE Len(t) = 0
    BY <1>4, <2>1 DEF FileLast
  <2>2. CASE Len(t) # 0
    <3>1. Len(t) = 2 /\ t[1].op = "nodes" /\ t[1].rows = {file} /\ t[2].op = "edges"
      BY <1>6, <2>2 DEF FileLast
    <3> QED
      BY <1>4, <1>5, <3>1 DEF FileLast
  <2> QED
    BY <2>1, <2>2
<1> QED
  BY <1>2, <1>3, <1>6

\* Deletions, nodes, edges, and last at most a file's node and the edges from it, one
\* sequence behind the other, are a plan in four parts.
LEMMA FourParts ==
  ASSUME NEW S, NEW d \in Seq(S), NEW n \in Seq(S), NEW e \in Seq(S), NEW f \in Seq(S), NEW file,
         Deletions(d, 1, Len(d)), OnlyNodes(n, 1, Len(n)), OnlyEdges(e, 1, Len(e), file),
         FileLast(f, 0, Len(f), file)
  PROVE  /\ d \o n \o e \o f \in Seq(S)
         /\ Parted(d \o n \o e \o f, Len(d), Len(d \o n), Len(d \o n \o e), Len(d \o n \o e \o f), file)
<1>1. /\ d \o n \in Seq(S) /\ Len(d) \in Nat /\ Len(d \o n) \in Nat /\ Len(d) <= Len(d \o n)
      /\ Deletions(d \o n, 1, Len(d)) /\ OnlyNodes(d \o n, Len(d) + 1, Len(d \o n))
  <2>1. d \o n \in Seq(S) /\ Len(d) \in Nat /\ Len(d \o n) \in Nat /\ Len(d) <= Len(d \o n)
    OBVIOUS
  <2> QED
    BY <2>1, Before, Behind
<1>2. ASSUME NEW q \in Seq(S), Len(d) <= Len(q),
             Deletions(q, 1, Len(d)), OnlyNodes(q, Len(d) + 1, Len(q))
      PROVE  /\ q \o e \in Seq(S) /\ Len(q) \in Nat /\ Len(q \o e) \in Nat /\ Len(q) <= Len(q \o e)
             /\ Deletions(q \o e, 1, Len(d)) /\ OnlyNodes(q \o e, Len(d) + 1, Len(q))
             /\ OnlyEdges(q \o e, Len(q) + 1, Len(q \o e), file)
  <2>1. /\ q \o e \in Seq(S) /\ Len(q) \in Nat /\ Len(q \o e) \in Nat /\ Len(q) <= Len(q \o e)
        /\ Len(d) \in Nat
    OBVIOUS
  <2>2. Deletions(q \o e, 1, Len(d))
    BY <1>2, <2>1, Before
  <2>3. OnlyNodes(q \o e, Len(d) + 1, Len(q))
    BY <1>2, <2>1, Before
  <2>4. OnlyEdges(q \o e, Len(q) + 1, Len(q \o e), file)
    BY Behind
  <2> QED
    BY <2>1, <2>2, <2>3, <2>4
<1>3. ASSUME NEW q \in Seq(S), NEW k \in Nat, Len(d) <= k, k <= Len(q),
             Deletions(q, 1, Len(d)), OnlyNodes(q, Len(d) + 1, k), OnlyEdges(q, k + 1, Len(q), file)
      PROVE  /\ q \o f \in Seq(S) /\ Len(q) \in Nat /\ Len(q \o f) \in Nat
             /\ DOMAIN (q \o f) = 1..Len(q \o f)
             /\ Deletions(q \o f, 1, Len(d)) /\ OnlyNodes(q \o f, Len(d) + 1, k)
             /\ OnlyEdges(q \o f, k + 1, Len(q), file)
             /\ FileLast(q \o f, Len(q), Len(q \o f), file)
  <2>1. /\ q \o f \in Seq(S) /\ Len(q) \in Nat /\ Len(q \o f) \in Nat
        /\ DOMAIN (q \o f) = 1..Len(q \o f) /\ Len(d) \in Nat
    OBVIOUS
  <2>2. Deletions(q \o f, 1, Len(d))
    BY <1>3, <2>1, Before
  <2>3. OnlyNodes(q \o f, Len(d) + 1, k)
    BY <1>3, <2>1, Before
  <2>4. OnlyEdges(q \o f, k + 1, Len(q), file)
    BY <1>3, <2>1, Before
  <2>5. FileLast(q \o f, Len(q), Len(q \o f), file)
    BY Behind
  <2> QED
    BY <2>1, <2>2, <2>3, <2>4, <2>5
<1>4. /\ d \o n \o e \in Seq(S) /\ Len(d \o n) \in Nat /\ Len(d \o n \o e) \in Nat
      /\ Len(d \o n) <= Len(d \o n \o e)
      /\ Deletions(d \o n \o e, 1, Len(d)) /\ OnlyNodes(d \o n \o e, Len(d) + 1, Len(d \o n))
      /\ OnlyEdges(d \o n \o e, Len(d \o n) + 1, Len(d \o n \o e), file)
  BY <1>1, <1>2
<1>5. /\ d \o n \o e \o f \in Seq(S) /\ Len(d \o n \o e \o f) \in Nat
      /\ DOMAIN (d \o n \o e \o f) = 1..Len(d \o n \o e \o f)
      /\ Deletions(d \o n \o e \o f, 1, Len(d))
      /\ OnlyNodes(d \o n \o e \o f, Len(d) + 1, Len(d \o n))
      /\ OnlyEdges(d \o n \o e \o f, Len(d \o n) + 1, Len(d \o n \o e), file)
      /\ FileLast(d \o n \o e \o f, Len(d \o n \o e), Len(d \o n \o e \o f), file)
  BY <1>1, <1>3, <1>4
<1> QED
  BY <1>1, <1>4, <1>5 DEF Parted

\* The statements of a sequence, in no order: putting one behind another loses none, and
\* what is sent is some of them, all those with rows.
StatementsOf(steps) == {steps[i] : i \in DOMAIN steps}

LEMMA StatementsOfParts ==
  ASSUME NEW S, NEW s \in Seq(S), NEW t \in Seq(S)
  PROVE  StatementsOf(s \o t) = StatementsOf(s) \cup StatementsOf(t)
<1>1. ASSUME NEW i \in DOMAIN (s \o t) PROVE (s \o t)[i] \in StatementsOf(s) \cup StatementsOf(t)
  <2>1. i \in 1..Len(s) \/ i \in (Len(s) + 1)..Len(s \o t)
    BY TwoParts
  <2> QED
    BY <2>1, TwoParts DEF StatementsOf
<1>2. ASSUME NEW i \in DOMAIN s PROVE s[i] \in StatementsOf(s \o t)
  <2>1. i \in 1..Len(s) /\ i \in DOMAIN (s \o t)
    BY TwoParts
  <2> QED
    BY <2>1, TwoParts DEF StatementsOf
<1>3. ASSUME NEW i \in DOMAIN t PROVE t[i] \in StatementsOf(s \o t)
  <2>1. /\ Len(s) + i \in (Len(s) + 1)..Len(s \o t) /\ Len(s) + i \in DOMAIN (s \o t)
        /\ (Len(s) + i) - Len(s) = i
    BY TwoParts
  <2>2. (s \o t)[Len(s) + i] = t[i]
    BY <2>1, TwoParts
  <2> QED
    BY <2>1, <2>2 DEF StatementsOf
<1> QED
  BY <1>1, <1>2, <1>3 DEF StatementsOf

LEMMA StatementsSent ==
  ASSUME NEW S, NEW steps \in Seq(S)
  PROVE  StatementsOf(Sent(steps)) = {st \in StatementsOf(steps) : st.op = "delete" \/ st.rows # {}}
<1>1. PICK from \in [DOMAIN Sent(steps) -> Kept(steps)] :
         /\ \A n \in DOMAIN Sent(steps) : Sent(steps)[n] = steps[from[n]]
         /\ \A i \in Kept(steps) : \E n \in DOMAIN Sent(steps) : from[n] = i
  BY SentFacts
<1>2. ASSUME NEW n \in DOMAIN Sent(steps)
      PROVE  Sent(steps)[n] \in {st \in StatementsOf(steps) : st.op = "delete" \/ st.rows # {}}
  BY <1>1 DEF Kept, StatementsOf
<1>3. ASSUME NEW i \in DOMAIN steps, steps[i].op = "delete" \/ steps[i].rows # {}
      PROVE  steps[i] \in StatementsOf(Sent(steps))
  BY <1>1, <1>3 DEF Kept, StatementsOf
<1> QED
  BY <1>2, <1>3 DEF StatementsOf
=============================================================================
