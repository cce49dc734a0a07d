--------------------------- MODULE TwsMulti_proofs ---------------------------
(***************************************************************************)
(* Proofs about TwsMulti, for all files and requests: the merged unit, the *)
(* provenance, the warnings and the report.                                *)
(***************************************************************************)
EXTENDS TwsMulti, FiniteSetTheorems, SequenceTheorems, WellFoundedInduction, TLAPS

-----------------------------------------------------------------------------
(* The inductive invariant, of the files c, the paths P merged so far and  *)
(* the places of the blocks that have been merged.                         *)

IsSeq(s) == s \in Seq(ToSet(s))

BlocksOf(c, P, k) == c[P[k]].unit.streams

\* The places of the blocks before block n of the last of the paths.
PlacesTo(c, P, n) ==
  UNION {{<<k, i>> : i \in {x \in DOMAIN BlocksOf(c, P, k) : k < Len(P) \/ x < n}} : k \in 1..Len(P)}
BlockAt(c, P, d) == BlocksOf(c, P, d[1])[d[2]]
Precedes(d, e) == d[1] < e[1] \/ (d[1] = e[1] /\ d[2] < e[2])

\* Of the blocks at the places D that of d is the first to have a job of that id.
IsFirst(c, P, D, j, d) ==
  /\ j \in BlockAt(c, P, d).jobs
  /\ \A e \in D : (\E k \in BlockAt(c, P, e).jobs : JobId(k) = JobId(j)) => e = d \/ Precedes(d, e)

\* What merging these blocks makes: one block for a stream, with each job as the first
\* block has it.
Made(c, P, D, s) ==
  /\ \E d \in D : LET o == BlockAt(c, P, d) IN
       s.ws = o.ws /\ s.name = o.name /\ s.follows = o.follows
  /\ \A j \in s.jobs : <<j.ws, j.stream>> = StreamId(s) /\ \E d \in D : IsFirst(c, P, D, j, d)
Covers(into, o) ==
  \E i \in DOMAIN into : /\ StreamId(into[i]) = StreamId(o)
                         /\ \A j \in o.jobs : \E k \in into[i].jobs : JobId(k) = JobId(j)
Listed(c, P, D, into) ==
  /\ IsSeq(into)
  /\ \A i, k \in DOMAIN into : StreamId(into[i]) = StreamId(into[k]) => i = k
  /\ \A i \in DOMAIN into : Made(c, P, D, into[i])
  /\ \A d \in D : Covers(into, BlockAt(c, P, d))

\* The provenance is that of the pairs R of an entity and a path.
ProvIs(p, R) ==
  /\ DOMAIN p = {r[1] : r \in R}
  /\ \A e \in DOMAIN p : /\ IsSeq(p[e]) /\ IsInjective(p[e])
                         /\ ToSet(p[e]) = {f \in {r[2] : r \in R} : <<e, f>> \in R}

\* The warnings w are of the jobs of the blocks at D that are not as the list has them.
Differ(j, k) == JobId(j) = JobId(k) /\ j.attrs # k.attrs
Warns(c, P, D, into, w) ==
  /\ IsSeq(w) /\ IsInjective(w)
  /\ \A x \in ToSet(w) :
       \E d \in D, i \in DOMAIN into : \E j \in BlockAt(c, P, d).jobs, k \in into[i].jobs :
         Differ(j, k) /\ x = [job |-> JobId(k), path |-> P[d[1]]]
  /\ \A d \in D, i \in DOMAIN into : \A j \in BlockAt(c, P, d).jobs, k \in into[i].jobs :
         Differ(j, k) => [job |-> JobId(k), path |-> P[d[1]]] \in ToSet(w)

AsStream(s) == {StreamNode(StreamId(s))} \cup JobNodes(s)
AsSchedule(s) == {ScheduleNode(StreamId(s))} \cup JobNodes(s)
ByStream(c, P, d) == AsStream(BlockAt(c, P, d)) \X {P[d[1]]}
BySchedule(c, P, d) == AsSchedule(BlockAt(c, P, d)) \X {P[d[1]]}
DeclaredIn(c, P, D, E) ==
  (UNION {NamesIn(c[p].unit) \X {p} : p \in ToSet(P)})
    \cup (UNION {ByStream(c, P, d) : d \in D}) \cup (UNION {BySchedule(c, P, d) : d \in E})

StreamPlaces == PlacesTo(corpus, parsed, at)
SchedulePlaces == PlacesTo(corpus, parsed, at - Len(Blocks))
Types ==
  /\ corpus \in Corpora /\ req \in Requests /\ ToSet(req.paths) \subseteq DOMAIN corpus
  /\ parsed \in Seq(ToSet(req.paths)) /\ IsInjective(parsed)
  /\ at \in Nat \ {0}
  /\ IF parsed = <<>> THEN at = 1 ELSE at <= 2 * Len(Blocks) + 1
  /\ merged = [workstations |-> merged.workstations, calendars |-> merged.calendars,
               prompts |-> merged.prompts, resources |-> merged.resources,
               rules |-> merged.rules, streams |-> merged.streams,
               schedules |-> merged.schedules]

InTurn ==
  \A k \in DOMAIN parsed : \E g \in DOMAIN req.paths :
    /\ parsed[k] = req.paths[g]
    /\ \A h \in 1..(g - 1) : \E l \in 1..(k - 1) : parsed[l] = req.paths[h]

NamesMerged == NamesIn(merged) = UNION {NamesIn(Unit(p)) : p \in ToSet(parsed)}
StreamsListed == Listed(corpus, parsed, StreamPlaces, merged.streams)
SchedulesListed == Listed(corpus, parsed, SchedulePlaces, merged.schedules)
ProvenanceExact == ProvIs(prov, DeclaredIn(corpus, parsed, StreamPlaces, SchedulePlaces))

WarningsExact == Warns(corpus, parsed, StreamPlaces, merged.streams, warnings)

Complete == ~ Merging /\ ToSet(parsed) = ToSet(req.paths)
AnswerDrawn ==
  pc = "answered" => answer.status \in {"400", "422", "500"} \/ (answer = Report /\ Complete)

IInv ==
  /\ Types /\ InTurn /\ NamesMerged /\ StreamsListed /\ SchedulesListed
  /\ ProvenanceExact /\ WarningsExact /\ AnswerDrawn

-----------------------------------------------------------------------------
(* Sequences, sets of names, and what one block does to a list of them.    *)

\* What appending an entry to a sequence makes.
LEMMA Appended ==
  ASSUME NEW s, IsSeq(s), NEW x
  PROVE  /\ IsSeq(Append(s, x))
         /\ Len(Append(s, x)) = Len(s) + 1
         /\ DOMAIN Append(s, x) = 1..(Len(s) + 1)
         /\ DOMAIN s = 1..Len(s) /\ Len(s) \in Nat
         /\ \A i \in 1..Len(s) : Append(s, x)[i] = s[i]
         /\ Append(s, x)[Len(s) + 1] = x
         /\ ToSet(Append(s, x)) = ToSet(s) \cup {x}
<1> DEFINE S == ToSet(s) \cup {x}
           t == Append(s, x)
<1>1. s \in Seq(ToSet(s))
  BY DEF IsSeq
<1>2. s \in Seq(S) /\ x \in S
  <2>1. Len(s) \in Nat /\ DOMAIN s = 1..Len(s) /\ s = [i \in 1..Len(s) |-> s[i]]
    BY <1>1
  <2>2. \A i \in 1..Len(s) : s[i] \in S
    BY <2>1 DEF ToSet
  <2> HIDE DEF S
  <2>3. s \in Seq(S)
    BY <2>1, <2>2, IsASeq
  <2> QED BY <2>3 DEF S
<1> HIDE DEF S
<1>3. /\ t \in Seq(S) /\ Len(t) = Len(s) + 1 /\ DOMAIN t = 1..(Len(s) + 1)
      /\ DOMAIN s = 1..Len(s) /\ Len(s) \in Nat
      /\ \A i \in 1..Len(s) : t[i] = s[i]
      /\ t[Len(s) + 1] = x
  BY <1>2
<1>4. ToSet(t) = S
  BY <1>3 DEF ToSet, S
<1>5. IsSeq(t)
  BY <1>3, <1>4 DEF IsSeq
<1> QED BY <1>3, <1>4, <1>5 DEF S

\* A sequence has its elements at its indices.
LEMMA Elements ==
  ASSUME NEW s, IsSeq(s)
  PROVE  /\ Len(s) \in Nat /\ DOMAIN s = 1..Len(s)
         /\ \A x : x \in ToSet(s) <=> \E i \in DOMAIN s : s[i] = x
BY DEF IsSeq, ToSet

\* A new entry leaves a sequence without repetitions.
LEMMA AppendedInjective ==
  ASSUME NEW s, IsSeq(s), IsInjective(s), NEW x, x \notin ToSet(s)
  PROVE  IsInjective(Append(s, x))
BY Appended, Elements DEF IsInjective

\* No two entries of a list are of one stream.
OneEach(into) == \A i, k \in DOMAIN into : StreamId(into[i]) = StreamId(into[k]) => i = k

\* Then the first entry of a stream is the entry of it.
LEMMA KnownIs ==
  ASSUME NEW into, IsSeq(into), OneEach(into), NEW s
  PROVE  Known(into, s) = {i \in DOMAIN into : StreamId(into[i]) = StreamId(s)}
<1>1. DOMAIN into = 1..Len(into) /\ Len(into) \in Nat
  BY Elements
<1>2. ASSUME NEW i \in DOMAIN into, StreamId(into[i]) = StreamId(s), NEW k \in 1..(i - 1)
      PROVE  StreamId(into[k]) # StreamId(s)
  <2>1. k \in DOMAIN into /\ k # i
    BY <1>1, <1>2
  <2> QED BY <2>1, <1>2 DEF OneEach
<1> QED BY <1>2 DEF Known

\* A list with one more block: what it had it has, with more jobs only in the entry of
\* the block's stream.
Grown(into, s, t) ==
  /\ IsSeq(t) /\ OneEach(t)
  /\ \A i \in DOMAIN into :
       /\ i \in DOMAIN t
       /\ t[i].ws = into[i].ws /\ t[i].name = into[i].name /\ t[i].follows = into[i].follows
       /\ StreamId(t[i]) = StreamId(into[i])
       /\ StreamId(into[i]) # StreamId(s) => t[i].jobs = into[i].jobs
       /\ StreamId(into[i]) = StreamId(s) => t[i].jobs = into[i].jobs \cup Fresh(into[i], s)
  /\ \A i \in DOMAIN t : i \notin DOMAIN into =>
       t[i] = s /\ \A k \in DOMAIN into : StreamId(into[k]) # StreamId(s)
  /\ \E i \in DOMAIN t : StreamId(t[i]) = StreamId(s)

\* Merging a block makes such a list.
LEMMA ListWithBlock ==
  ASSUME NEW into, IsSeq(into), OneEach(into), NEW s
  PROVE  Grown(into, s, WithBlock(into, s))
<1> DEFINE t == WithBlock(into, s)
<1>1. Known(into, s) = {i \in DOMAIN into : StreamId(into[i]) = StreamId(s)}
  BY KnownIs
<1>2. DOMAIN into = 1..Len(into) /\ Len(into) \in Nat
  BY Elements
<1>3. CASE Known(into, s) = {}
  <2>1. t = Append(into, s)
    BY <1>3 DEF WithBlock
  <2>2. \A k \in DOMAIN into : StreamId(into[k]) # StreamId(s)
    BY <1>1, <1>3
  <2>3. /\ IsSeq(t) /\ DOMAIN t = 1..(Len(into) + 1)
        /\ \A i \in DOMAIN into : t[i] = into[i]
        /\ t[Len(into) + 1] = s
    BY <2>1, <1>2, Appended
  <2> HIDE DEF t
  <2>4. \A i \in DOMAIN t : i \notin DOMAIN into => i = Len(into) + 1
    BY <2>3, <1>2
  <2>5. OneEach(t)
    <3> SUFFICES ASSUME NEW i \in DOMAIN t, NEW k \in DOMAIN t, StreamId(t[i]) = StreamId(t[k])
                 PROVE  i = k
      BY DEF OneEach
    <3>1. CASE i \in DOMAIN into /\ k \in DOMAIN into
      BY <3>1, <2>3 DEF OneEach
    <3>2. CASE i \notin DOMAIN into \/ k \notin DOMAIN into
      BY <3>2, <2>2, <2>3, <2>4
    <3> QED BY <3>1, <3>2
  <2>6. \A i \in DOMAIN into : i \in DOMAIN t
    BY <2>3, <1>2
  <2>7. Len(into) + 1 \in DOMAIN t
    BY <2>3, <1>2
  <2>8. \A i \in DOMAIN t : i \notin DOMAIN into => t[i] = s
    BY <2>3, <2>4
  <2> QED BY <2>2, <2>3, <2>5, <2>6, <2>7, <2>8 DEF Grown, t
<1>4. CASE Known(into, s) # {}
  <2>1. t = [i \in DOMAIN into |-> IF i \in Known(into, s) THEN WithJobs(into[i], s) ELSE into[i]]
    BY <1>4 DEF WithBlock
  <2> HIDE DEF t
  <2>2. DOMAIN t = DOMAIN into
    BY <2>1
  <2>3. \A i \in DOMAIN into : i \in Known(into, s) => t[i] = WithJobs(into[i], s)
    BY <2>1
  <2>4. \A i \in DOMAIN into : i \notin Known(into, s) => t[i] = into[i]
    BY <2>1
  <2>5. ASSUME NEW i \in DOMAIN into
        PROVE  /\ t[i].ws = into[i].ws /\ t[i].name = into[i].name /\ t[i].follows = into[i].follows
               /\ StreamId(t[i]) = StreamId(into[i])
               /\ StreamId(into[i]) # StreamId(s) => t[i].jobs = into[i].jobs
               /\ StreamId(into[i]) = StreamId(s) => t[i].jobs = into[i].jobs \cup Fresh(into[i], s)
    <3>1. CASE i \in Known(into, s)
      <4> DEFINE b == into[i]
                 u == WithJobs(b, s)
      <4>1. t[i] = u
        BY <3>1, <2>3
      <4>2. /\ u.ws = b.ws /\ u.name = b.name /\ u.follows = b.follows
            /\ u.jobs = b.jobs \cup Fresh(b, s)
        BY DEF WithJobs
      <4> QED BY <4>1, <4>2, <3>1, <1>1 DEF StreamId
    <3>2. CASE i \notin Known(into, s)
      BY <3>2, <2>4, <1>1
    <3> QED BY <3>1, <3>2
  <2>6. IsSeq(t)
    <3>1. t = [i \in 1..Len(into) |-> t[i]]
      BY <2>1, <1>2
    <3>2. \A i \in 1..Len(into) : t[i] \in ToSet(t)
      BY <2>2, <1>2 DEF ToSet
    <3>3. [i \in 1..Len(into) |-> t[i]] \in Seq(ToSet(t))
      <4> DEFINE T == ToSet(t)
      <4> HIDE DEF T
      <4>1. \A i \in 1..Len(into) : t[i] \in T
        BY <3>2 DEF T
      <4>2. [i \in 1..Len(into) |-> t[i]] \in Seq(T)
        BY <4>1, <1>2, IsASeq
      <4> QED BY <4>2 DEF T
    <3> QED BY <3>1, <3>3 DEF IsSeq
  <2>7. OneEach(t)
    BY <2>2, <2>5 DEF OneEach
  <2>8. \E i \in DOMAIN t : StreamId(t[i]) = StreamId(s)
    BY <2>2, <2>5, <1>1, <1>4
  <2> QED BY <2>2, <2>5, <2>6, <2>7, <2>8 DEF Grown, t
<1> QED BY <1>3, <1>4

\* Every job of a block has the block's workstation and stream.
OwnJobs(s) == \A j \in s.jobs : <<j.ws, j.stream>> = StreamId(s)

\* Of the blocks at D none has a job of the block at e that is not in the list: the
\* entry of the stream has all jobs of these ids.
LEMMA FreshIsFirst ==
  ASSUME NEW c, NEW P, NEW D, NEW into, Listed(c, P, D, into), NEW e,
         \A d \in D : Precedes(d, e) /\ OwnJobs(BlockAt(c, P, d)),
         OwnJobs(BlockAt(c, P, e)), NEW j \in BlockAt(c, P, e).jobs,
         \A i \in DOMAIN into : StreamId(into[i]) = StreamId(BlockAt(c, P, e)) =>
           \A k \in into[i].jobs : JobId(k) # JobId(j)
  PROVE  IsFirst(c, P, D \cup {e}, j, e)
<1> DEFINE s == BlockAt(c, P, e)
<1>1. ASSUME NEW f \in D, NEW k \in BlockAt(c, P, f).jobs, JobId(k) = JobId(j)
      PROVE  FALSE
  <2> DEFINE o == BlockAt(c, P, f)
  <2>1. <<k.ws, k.stream>> = StreamId(o) /\ <<j.ws, j.stream>> = StreamId(s)
    BY <1>1 DEF OwnJobs
  <2>2. k.ws = j.ws /\ k.stream = j.stream
    BY <1>1 DEF JobId
  <2>3. StreamId(o) = StreamId(s)
    BY <2>1, <2>2
  <2>4. Covers(into, o)
    BY <1>1 DEF Listed
  <2> HIDE DEF o, s
  <2>5. PICK i \in DOMAIN into : StreamId(into[i]) = StreamId(o)
                                 /\ \A x \in o.jobs : \E y \in into[i].jobs : JobId(y) = JobId(x)
    BY <2>4 DEF Covers
  <2>6. k \in o.jobs
    BY <1>1 DEF o
  <2>7. PICK y \in into[i].jobs : JobId(y) = JobId(k)
    BY <2>5, <2>6
  <2> QED BY <2>3, <2>5, <2>7, <1>1 DEF s
<1> QED BY <1>1 DEF IsFirst

\* One more block, after those there are, makes a list of one more.
LEMMA ListedGrows ==
  ASSUME NEW c, NEW P, NEW D, NEW into, Listed(c, P, D, into), NEW e,
         \A d \in D : Precedes(d, e) /\ OwnJobs(BlockAt(c, P, d)),
         OwnJobs(BlockAt(c, P, e))
  PROVE  Listed(c, P, D \cup {e}, WithBlock(into, BlockAt(c, P, e)))
<1> DEFINE s == BlockAt(c, P, e)
           E == D \cup {e}
           t == WithBlock(into, s)
<1>1. IsSeq(into) /\ OneEach(into)
  BY DEF Listed, OneEach
<1>2. Grown(into, s, t)
  BY <1>1, ListWithBlock
<1> HIDE DEF t
<1>3. ASSUME NEW i \in DOMAIN into
      PROVE  Made(c, P, E, t[i])
  <2>1. Made(c, P, D, into[i])
    BY DEF Listed
  <2>2. PICK d \in D : LET o == BlockAt(c, P, d) IN
                         into[i].ws = o.ws /\ into[i].name = o.name /\ into[i].follows = o.follows
    BY <2>1 DEF Made
  <2>3. LET o == BlockAt(c, P, d) IN t[i].ws = o.ws /\ t[i].name = o.name /\ t[i].follows = o.follows
    BY <2>2, <1>2 DEF Grown
  <2>4. ASSUME NEW j \in into[i].jobs
        PROVE  <<j.ws, j.stream>> = StreamId(t[i]) /\ \E f \in E : IsFirst(c, P, E, j, f)
    <3>1. <<j.ws, j.stream>> = StreamId(into[i])
      BY <2>1 DEF Made
    <3>2. PICK f \in D : IsFirst(c, P, D, j, f)
      BY <2>1 DEF Made
    <3>3. IsFirst(c, P, E, j, f)
      BY <3>2 DEF IsFirst
    <3> QED BY <3>1, <3>3, <1>2 DEF Grown
  <2>5. ASSUME NEW j \in Fresh(into[i], s), StreamId(into[i]) = StreamId(s)
        PROVE  <<j.ws, j.stream>> = StreamId(t[i]) /\ \E f \in E : IsFirst(c, P, E, j, f)
    <3>1. j \in s.jobs /\ \A k \in into[i].jobs : JobId(j) # JobId(k)
      BY DEF Fresh
    <3>2. \A k \in DOMAIN into : StreamId(into[k]) = StreamId(s) => k = i
      BY <1>1, <2>5 DEF OneEach
    <3>3. IsFirst(c, P, E, j, e)
      BY <3>1, <3>2, FreshIsFirst
    <3>4. <<j.ws, j.stream>> = StreamId(s)
      BY <3>1 DEF OwnJobs
    <3> QED BY <3>3, <3>4, <2>5, <1>2 DEF Grown
  <2>6. \A j \in t[i].jobs : j \in into[i].jobs \/ (j \in Fresh(into[i], s) /\ StreamId(into[i]) = StreamId(s))
    BY <1>2 DEF Grown
  <2> QED BY <2>3, <2>4, <2>5, <2>6 DEF Made
<1>4. ASSUME NEW i \in DOMAIN t, i \notin DOMAIN into
      PROVE  Made(c, P, E, t[i])
  <2>1. t[i] = s /\ \A k \in DOMAIN into : StreamId(into[k]) # StreamId(s)
    BY <1>2, <1>4 DEF Grown
  <2>2. ASSUME NEW j \in s.jobs
        PROVE  <<j.ws, j.stream>> = StreamId(s) /\ IsFirst(c, P, E, j, e)
    <3>1. IsFirst(c, P, E, j, e)
      BY <2>1, FreshIsFirst
    <3> QED BY <3>1 DEF OwnJobs
  <2> QED BY <2>1, <2>2 DEF Made
<1>5. ASSUME NEW d \in D
      PROVE  Covers(t, BlockAt(c, P, d))
  <2> DEFINE o == BlockAt(c, P, d)
  <2>1. Covers(into, o)
    BY DEF Listed
  <2> HIDE DEF o
  <2>2. PICK i \in DOMAIN into : StreamId(into[i]) = StreamId(o)
                                 /\ \A x \in o.jobs : \E y \in into[i].jobs : JobId(y) = JobId(x)
    BY <2>1 DEF Covers
  <2>3. into[i].jobs \subseteq t[i].jobs /\ i \in DOMAIN t /\ StreamId(t[i]) = StreamId(o)
    BY <2>2, <1>2 DEF Grown
  <2>4. Covers(t, o)
    BY <2>2, <2>3 DEF Covers
  <2> QED BY <2>4 DEF o
<1>6. Covers(t, s)
  <2>1. PICK i \in DOMAIN t : StreamId(t[i]) = StreamId(s)
    BY <1>2 DEF Grown
  <2>2. CASE i \in DOMAIN into
    <3>1. t[i].jobs = into[i].jobs \cup Fresh(into[i], s)
      BY <1>2, <2>1, <2>2 DEF Grown
    <3>2. \A j \in s.jobs : j \in Fresh(into[i], s) \/ \E k \in into[i].jobs : JobId(k) = JobId(j)
      BY DEF Fresh
    <3>3. \A j \in s.jobs : \E k \in t[i].jobs : JobId(k) = JobId(j)
      BY <3>1, <3>2
    <3> QED BY <3>3, <2>1 DEF Covers
  <2>3. CASE i \notin DOMAIN into
    BY <1>2, <2>1, <2>3 DEF Covers, Grown
  <2> QED BY <2>2, <2>3
<1>7. \A i \in DOMAIN t : Made(c, P, E, t[i])
  BY <1>3, <1>4
<1>8. \A d \in E : Covers(t, BlockAt(c, P, d))
  BY <1>5, <1>6
<1> QED BY <1>2, <1>7, <1>8 DEF Listed, OneEach, t, Grown

-----------------------------------------------------------------------------
(* The places of the blocks.                                               *)

\* Files c that were parsed and paths P of some of them.
Ready(c, P) == c \in Corpora /\ IsSeq(P) /\ ToSet(P) \subseteq DOMAIN c

\* What the assumption says of the blocks of a file.
LEMMA BlocksAre ==
  ASSUME NEW c, NEW P, Ready(c, P), NEW k \in 1..Len(P)
  PROVE  LET B == BlocksOf(c, P, k) IN
         /\ P[k] \in ToSet(P) /\ P[k] \in DOMAIN c
         /\ Len(B) \in Nat /\ DOMAIN B = 1..Len(B)
         /\ \A i \in DOMAIN B : /\ B[i] \in Streams(c[P[k]].unit)
                                /\ OwnJobs(B[i]) /\ IsFiniteSet(B[i].jobs)
                                /\ \A x, y \in B[i].jobs : JobId(x) = JobId(y) => x = y
<1> DEFINE B == BlocksOf(c, P, k)
<1>1. P[k] \in ToSet(P)
  BY Elements DEF Ready
<1>2. P[k] \in DOMAIN c /\ c \in Corpora
  BY <1>1 DEF Ready
<1>3. B \in Seq(Streams(c[P[k]].unit))
  BY <1>2, CorporaAssumption DEF BlocksOf
<1>4. Len(B) \in Nat /\ DOMAIN B = 1..Len(B) /\ \A i \in DOMAIN B : B[i] \in Streams(c[P[k]].unit)
  <2> HIDE DEF B
  <2> QED BY <1>3
<1>5. \A s \in Streams(c[P[k]].unit) :
        OwnJobs(s) /\ IsFiniteSet(s.jobs) /\ \A x, y \in s.jobs : JobId(x) = JobId(y) => x = y
  BY <1>2, CorporaAssumption DEF OwnJobs
<1> HIDE DEF B
<1>6. \A i \in DOMAIN B : /\ B[i] \in Streams(c[P[k]].unit)
                          /\ OwnJobs(B[i]) /\ IsFiniteSet(B[i].jobs)
                          /\ \A x, y \in B[i].jobs : JobId(x) = JobId(y) => x = y
  BY <1>4, <1>5
<1> QED BY <1>1, <1>2, <1>4, <1>6 DEF B

\* A place is a file and one of its blocks.
LEMMA PlacesAre ==
  ASSUME NEW c, NEW P, NEW n, NEW d
  PROVE  d \in PlacesTo(c, P, n) <=>
           \E k \in 1..Len(P) : \E i \in DOMAIN BlocksOf(c, P, k) :
             (k < Len(P) \/ i < n) /\ d = <<k, i>>
BY DEF PlacesTo

\* What there is at a place.
LEMMA PlaceHas ==
  ASSUME NEW c, NEW P, Ready(c, P), NEW n, NEW d \in PlacesTo(c, P, n)
  PROVE  /\ d[1] \in 1..Len(P) /\ P[d[1]] \in ToSet(P)
         /\ d[2] \in DOMAIN BlocksOf(c, P, d[1]) /\ d = <<d[1], d[2]>>
         /\ d[1] < Len(P) \/ d[2] < n
         /\ d[1] \in Nat /\ d[2] \in Nat /\ Len(P) \in Nat
         /\ BlockAt(c, P, d) \in Streams(c[P[d[1]]].unit)
         /\ OwnJobs(BlockAt(c, P, d)) /\ IsFiniteSet(BlockAt(c, P, d).jobs)
         /\ \A x, y \in BlockAt(c, P, d).jobs : JobId(x) = JobId(y) => x = y
<1>1. PICK k \in 1..Len(P) : \E i \in DOMAIN BlocksOf(c, P, k) :
             (k < Len(P) \/ i < n) /\ d = <<k, i>>
  BY PlacesAre
<1>2. PICK i \in DOMAIN BlocksOf(c, P, k) : (k < Len(P) \/ i < n) /\ d = <<k, i>>
  BY <1>1
<1>3. d[1] = k /\ d[2] = i
  BY <1>2
<1>4. LET B == BlocksOf(c, P, k) IN
         /\ P[k] \in ToSet(P) /\ P[k] \in DOMAIN c
         /\ Len(B) \in Nat /\ DOMAIN B = 1..Len(B)
         /\ \A h \in DOMAIN B : /\ B[h] \in Streams(c[P[k]].unit)
                                /\ OwnJobs(B[h]) /\ IsFiniteSet(B[h].jobs)
                                /\ \A x, y \in B[h].jobs : JobId(x) = JobId(y) => x = y
  BY BlocksAre
<1>5. Len(P) \in Nat
  BY Elements DEF Ready
<1>6. k \in Nat /\ i \in Nat
  BY <1>4, <1>5
<1>7. BlockAt(c, P, d) = BlocksOf(c, P, k)[i]
  BY <1>3 DEF BlockAt
<1> QED BY <1>2, <1>3, <1>4, <1>5, <1>6, <1>7

\* One block on.
LEMMA PlacesStep ==
  ASSUME NEW c, NEW P, Ready(c, P), P # <<>>, NEW n \in DOMAIN BlocksOf(c, P, Len(P))
  PROVE  LET e == <<Len(P), n>> IN
         /\ PlacesTo(c, P, n + 1) = PlacesTo(c, P, n) \cup {e}
         /\ BlockAt(c, P, e) = BlocksOf(c, P, Len(P))[n]
         /\ e \in PlacesTo(c, P, n + 1)
         /\ \A d \in PlacesTo(c, P, n) : Precedes(d, e) /\ OwnJobs(BlockAt(c, P, d))
<1> DEFINE e == <<Len(P), n>>
<1>1. Len(P) \in 1..Len(P) /\ Len(P) \in Nat
  BY Elements DEF Ready, IsSeq
<1>2. \A k \in 1..Len(P) : /\ Len(BlocksOf(c, P, k)) \in Nat
                           /\ DOMAIN BlocksOf(c, P, k) = 1..Len(BlocksOf(c, P, k))
  BY BlocksAre
<1>3. n \in Nat
  BY <1>1, <1>2
<1>4. ASSUME NEW d
      PROVE  d \in PlacesTo(c, P, n + 1) <=> d \in PlacesTo(c, P, n) \/ d = e
  <2>1. ASSUME d \in PlacesTo(c, P, n + 1)
        PROVE  d \in PlacesTo(c, P, n) \/ d = e
    <3>1. PICK k \in 1..Len(P) : \E i \in DOMAIN BlocksOf(c, P, k) : (k < Len(P) \/ i < n + 1) /\ d = <<k, i>>
      BY <2>1, PlacesAre
    <3>2. PICK i \in DOMAIN BlocksOf(c, P, k) : (k < Len(P) \/ i < n + 1) /\ d = <<k, i>>
      BY <3>1
    <3>3. k \in Nat /\ i \in Nat
      BY <1>1, <1>2
    <3>4. CASE k < Len(P) \/ i < n
      BY <3>2, <3>4, PlacesAre
    <3>5. CASE ~ (k < Len(P) \/ i < n)
      <4>1. k = Len(P) /\ i = n
        BY <3>2, <3>3, <3>5, <1>1, <1>3
      <4> QED BY <4>1, <3>2
    <3> QED BY <3>4, <3>5
  <2>2. ASSUME d \in PlacesTo(c, P, n)
        PROVE  d \in PlacesTo(c, P, n + 1)
    <3>1. PICK k \in 1..Len(P) : \E i \in DOMAIN BlocksOf(c, P, k) : (k < Len(P) \/ i < n) /\ d = <<k, i>>
      BY <2>2, PlacesAre
    <3>2. PICK i \in DOMAIN BlocksOf(c, P, k) : (k < Len(P) \/ i < n) /\ d = <<k, i>>
      BY <3>1
    <3>3. k \in Nat /\ i \in Nat
      BY <1>1, <1>2
    <3>4. k < Len(P) \/ i < n + 1
      BY <3>2, <3>3, <1>3
    <3> QED BY <3>2, <3>4, PlacesAre
  <2>3. e \in PlacesTo(c, P, n + 1)
    <3>1. n < n + 1
      BY <1>3
    <3> QED BY <3>1, <1>1, PlacesAre
  <2> QED BY <2>1, <2>2, <2>3
<1>5. PlacesTo(c, P, n + 1) = PlacesTo(c, P, n) \cup {e}
  <2>1. \A d : d \in PlacesTo(c, P, n + 1) <=> d \in PlacesTo(c, P, n) \/ d = e
    BY <1>4
  <2> HIDE DEF e
  <2> QED BY <2>1
<1>6. ASSUME NEW d \in PlacesTo(c, P, n)
      PROVE  Precedes(d, e) /\ OwnJobs(BlockAt(c, P, d))
  <2>1. /\ d[1] \in 1..Len(P) /\ d[1] \in Nat /\ d[2] \in Nat
        /\ d[1] < Len(P) \/ d[2] < n
        /\ OwnJobs(BlockAt(c, P, d))
    BY PlaceHas
  <2>2. e[1] = Len(P) /\ e[2] = n
    OBVIOUS
  <2> QED BY <2>1, <2>2, <1>1, <1>3 DEF Precedes
<1>7. BlockAt(c, P, e) = BlocksOf(c, P, Len(P))[n]
  BY DEF BlockAt
<1> QED BY <1>5, <1>6, <1>7

\* The blocks at D are the same with paths P and Q.
Alike(c, P, Q, D) == \A d \in D : Q[d[1]] = P[d[1]] /\ BlockAt(c, Q, d) = BlockAt(c, P, d)

\* Block n of the last file is behind all it has.
Over(c, P, n) == P # <<>> => n \in Int /\ n > Len(BlocksOf(c, P, Len(P)))
\* Block m is none of a file, or its first.
Begun(m) == m \in Int /\ m <= 1

\* The blocks of the files before stay at their places when a file is next.
LEMMA PlacesKept ==
  ASSUME NEW c, NEW P, Ready(c, P), NEW p, Ready(c, Append(P, p)), NEW n, Over(c, P, n), NEW m, Begun(m)
  PROVE  /\ PlacesTo(c, Append(P, p), m) = PlacesTo(c, P, n)
         /\ Alike(c, P, Append(P, p), PlacesTo(c, P, n))
<1> DEFINE Q == Append(P, p)
<1>1. /\ Len(P) \in Nat /\ Len(Q) = Len(P) + 1
      /\ \A k \in 1..Len(P) : Q[k] = P[k]
  BY Appended DEF Ready
<1> HIDE DEF Q
<1>0. DOMAIN BlocksOf(c, Q, Len(Q)) \subseteq Nat \ {0}
  <2>1. Len(Q) \in 1..Len(Q) /\ Ready(c, Q)
    BY <1>1 DEF Q
  <2>2. /\ Len(BlocksOf(c, Q, Len(Q))) \in Nat
        /\ DOMAIN BlocksOf(c, Q, Len(Q)) = 1..Len(BlocksOf(c, Q, Len(Q)))
    BY <2>1, BlocksAre
  <2> QED BY <2>2
<1>2. \A k \in 1..Len(P) : BlocksOf(c, Q, k) = BlocksOf(c, P, k)
  BY <1>1 DEF BlocksOf
<1>3. \A k \in 1..Len(P) : /\ Len(BlocksOf(c, P, k)) \in Nat
                           /\ DOMAIN BlocksOf(c, P, k) = 1..Len(BlocksOf(c, P, k))
  BY BlocksAre
<1>4. ASSUME NEW d
      PROVE  d \in PlacesTo(c, Q, m) <=> d \in PlacesTo(c, P, n)
  <2>1. ASSUME NEW k \in 1..Len(Q), NEW i \in DOMAIN BlocksOf(c, Q, k), k < Len(Q) \/ i < m, d = <<k, i>>
        PROVE  d \in PlacesTo(c, P, n)
    <3>1. k < Len(Q)
      <4>1. CASE k = Len(Q)
        <5>1. i \in Nat \ {0}
          BY <2>1, <4>1, <1>0
        <5> QED BY <5>1, <2>1 DEF Begun
      <4> QED BY <4>1, <2>1, <1>1
    <3>2. k \in 1..Len(P)
      BY <3>1, <1>1
    <3>3. i \in DOMAIN BlocksOf(c, P, k)
      BY <3>2, <1>2
    <3>4. CASE k < Len(P)
      BY <3>2, <3>3, <3>4, <2>1, PlacesAre
    <3>5. CASE k = Len(P)
      <4>1. P # <<>>
        BY <3>2
      <4>2. i <= Len(BlocksOf(c, P, Len(P))) /\ i \in Nat /\ Len(BlocksOf(c, P, Len(P))) \in Nat
        BY <3>2, <3>3, <3>5, <1>3
      <4>3. i < n
        BY <4>1, <4>2 DEF Over
      <4> QED BY <3>2, <3>3, <4>3, <2>1, PlacesAre
    <3> QED BY <3>2, <3>4, <3>5, <1>1
  <2>2. ASSUME NEW k \in 1..Len(P), NEW i \in DOMAIN BlocksOf(c, P, k), d = <<k, i>>
        PROVE  d \in PlacesTo(c, Q, m)
    <3>1. k \in 1..Len(Q) /\ k < Len(Q) /\ i \in DOMAIN BlocksOf(c, Q, k)
      BY <1>1, <1>2
    <3> QED BY <3>1, <2>2, PlacesAre
  <2> QED BY <2>1, <2>2, PlacesAre
<1>5. \A d \in PlacesTo(c, P, n) : d[1] \in 1..Len(P)
  BY PlaceHas
<1>6. \A d \in PlacesTo(c, P, n) : Q[d[1]] = P[d[1]] /\ BlockAt(c, Q, d) = BlockAt(c, P, d)
  BY <1>1, <1>2, <1>5 DEF BlockAt
<1>7. PlacesTo(c, Q, m) = PlacesTo(c, P, n)
  BY <1>4
<1> QED BY <1>6, <1>7 DEF Q, Alike

\* A list is of the blocks at its places, wherever more files go.
LEMMA ListedKept ==
  ASSUME NEW c, NEW P, NEW Q, NEW D, NEW into, Listed(c, P, D, into),
         \A d \in D : BlockAt(c, Q, d) = BlockAt(c, P, d)
  PROVE  Listed(c, Q, D, into)
<1>1. \A j : \A d \in D : IsFirst(c, P, D, j, d) => IsFirst(c, Q, D, j, d)
  BY DEF IsFirst
<1>2. \A i \in DOMAIN into : Made(c, Q, D, into[i])
  <2> SUFFICES ASSUME NEW i \in DOMAIN into
               PROVE  Made(c, Q, D, into[i])
    OBVIOUS
  <2>1. Made(c, P, D, into[i])
    BY DEF Listed
  <2>2. \A j \in into[i].jobs : <<j.ws, j.stream>> = StreamId(into[i]) /\ \E d \in D : IsFirst(c, Q, D, j, d)
    BY <2>1, <1>1 DEF Made
  <2>3. \E d \in D : LET o == BlockAt(c, Q, d) IN
          into[i].ws = o.ws /\ into[i].name = o.name /\ into[i].follows = o.follows
    BY <2>1 DEF Made
  <2> QED BY <2>2, <2>3 DEF Made
<1> QED BY <1>2 DEF Listed

-----------------------------------------------------------------------------
(* The warnings and the provenance.                                        *)

\* A finite set as a sequence, without repetitions.
LEMMA SetAsSeq ==
  ASSUME NEW S, IsFiniteSet(S)
  PROVE  LET f == SetToSeq(S) IN
         /\ IsSeq(f) /\ IsInjective(f) /\ ToSet(f) = S
         /\ Len(f) = Cardinality(S) /\ Len(f) \in Nat /\ DOMAIN f = 1..Len(f)
<1> DEFINE n == Cardinality(S)
           f == SetToSeq(S)
<1>1. n \in Nat /\ ExistsBijection(1..n, S)
  BY FS_CardinalityType
<1>2. \E g \in [1..n -> S] : IsInjective(g)
  BY <1>1 DEF ExistsBijection, Bijection, Injection
<1>3. f \in [1..n -> S] /\ IsInjective(f)
  BY <1>2 DEF SetToSeq
<1> HIDE DEF f
<1>4. f \in Injection(1..n, S)
  BY <1>3 DEF Injection
<1>5. Cardinality(1..n) = n /\ IsFiniteSet(1..n)
  BY <1>1, FS_Interval
<1>6. f \in Surjection(1..n, S)
  BY <1>4, <1>5, FS_Injection
<1>7. \A x \in S : \E i \in 1..n : f[i] = x
  BY <1>6 DEF Surjection
<1>8. ToSet(f) = S
  BY <1>3, <1>7 DEF ToSet
<1>9. f \in Seq(S) /\ Len(f) = n
  BY <1>3, <1>1
<1> QED BY <1>1, <1>3, <1>8, <1>9 DEF IsSeq, f

\* A finite set of new entries after a sequence.
LEMMA SeqWithSet ==
  ASSUME NEW s, IsSeq(s), IsInjective(s), NEW S, IsFiniteSet(S)
  PROVE  LET t == s \o SetToSeq(S \ ToSet(s)) IN
         IsSeq(t) /\ IsInjective(t) /\ ToSet(t) = ToSet(s) \cup S
<1> DEFINE N == S \ ToSet(s)
           u == SetToSeq(N)
           t == s \o u
           A == ToSet(s) \cup S
<1>1. IsFiniteSet(N)
  BY FS_Subset
<1> HIDE DEF N
<1>2. IsSeq(u) /\ IsInjective(u) /\ ToSet(u) = N
  BY <1>1, SetAsSeq
<1> HIDE DEF u
<1>3. s \in Seq(ToSet(s)) /\ u \in Seq(N)
  BY <1>2 DEF IsSeq
<1>4. /\ Len(s) \in Nat /\ Len(u) \in Nat /\ DOMAIN s = 1..Len(s) /\ DOMAIN u = 1..Len(u)
      /\ \A i \in DOMAIN s : s[i] \in ToSet(s)
      /\ \A i \in DOMAIN u : u[i] \in N
  BY <1>2, Elements
<1>5. ToSet(s) \subseteq A /\ N \subseteq A
  BY DEF N
<1>6. s \in Seq(A) /\ u \in Seq(A)
  <2> HIDE DEF A
  <2> QED BY <1>3, <1>5
<1>7. /\ t \in Seq(A) /\ Len(t) = Len(s) + Len(u) /\ DOMAIN t = 1..(Len(s) + Len(u))
      /\ \A i \in 1..(Len(s) + Len(u)) : t[i] = IF i <= Len(s) THEN s[i] ELSE u[i - Len(s)]
  <2> HIDE DEF A
  <2> QED BY <1>6
<1> HIDE DEF t
<1>8. ASSUME NEW i \in DOMAIN t
      PROVE  \/ i \in DOMAIN s /\ t[i] = s[i] /\ t[i] \in ToSet(s)
             \/ i - Len(s) \in DOMAIN u /\ t[i] = u[i - Len(s)] /\ t[i] \notin ToSet(s) /\ t[i] \in S
                /\ i \in Nat /\ i > Len(s)
  <2>1. CASE i <= Len(s)
    BY <2>1, <1>4, <1>7
  <2>2. CASE ~ (i <= Len(s))
    <3>1. i - Len(s) \in DOMAIN u /\ t[i] = u[i - Len(s)] /\ i \in Nat /\ i > Len(s)
      BY <2>2, <1>4, <1>7
    <3> QED BY <3>1, <1>4 DEF N
  <2> QED BY <2>1, <2>2
<1>9. IsInjective(t)
  <2> SUFFICES ASSUME NEW i \in DOMAIN t, NEW k \in DOMAIN t, t[i] = t[k]
               PROVE  i = k
    BY DEF IsInjective
  <2>1. CASE t[i] \in ToSet(s)
    <3>1. i \in DOMAIN s /\ k \in DOMAIN s /\ s[i] = s[k]
      BY <2>1, <1>8
    <3> QED BY <3>1 DEF IsInjective
  <2>2. CASE t[i] \notin ToSet(s)
    <3>1. /\ i - Len(s) \in DOMAIN u /\ k - Len(s) \in DOMAIN u
          /\ u[i - Len(s)] = u[k - Len(s)] /\ i \in Nat /\ k \in Nat
      BY <2>2, <1>8
    <3>2. i - Len(s) = k - Len(s)
      BY <3>1, <1>2 DEF IsInjective
    <3> QED BY <3>1, <3>2, <1>4
  <2> QED BY <2>1, <2>2
<1>10. ToSet(t) = A
  <2>1. ASSUME NEW x \in ToSet(s)
        PROVE  x \in ToSet(t)
    <3>1. PICK i \in DOMAIN s : s[i] = x
      BY Elements
    <3>2. i \in DOMAIN t /\ t[i] = x
      BY <3>1, <1>4, <1>7
    <3> QED BY <3>2 DEF ToSet
  <2>2. ASSUME NEW x \in N
        PROVE  x \in ToSet(t)
    <3>1. PICK i \in DOMAIN u : u[i] = x
      BY <1>2, Elements
    <3>2. i + Len(s) \in DOMAIN t /\ t[i + Len(s)] = x
      BY <3>1, <1>4, <1>7
    <3> QED BY <3>2 DEF ToSet
  <2>3. \A x \in ToSet(t) : x \in A
    BY <1>8 DEF ToSet
  <2> QED BY <2>1, <2>2, <2>3 DEF N
<1>11. IsSeq(t)
  BY <1>7, <1>10 DEF IsSeq
<1> QED BY <1>9, <1>10, <1>11 DEF t, u, N

\* Warnings about finitely many jobs of a file join those before, each once.
LEMMA WarnedIs ==
  ASSUME NEW old, IsSeq(old), IsInjective(old), NEW jobs, IsFiniteSet(jobs), NEW path
  PROVE  LET t == Warned(old, jobs, path) IN
         /\ IsSeq(t) /\ IsInjective(t)
         /\ ToSet(t) = ToSet(old) \cup {[job |-> j, path |-> path] : j \in jobs}
<1> DEFINE S == {[job |-> j, path |-> path] : j \in jobs}
           f == [j \in jobs |-> [job |-> j, path |-> path]]
<1>1. f \in Surjection(jobs, S)
  BY DEF Surjection
<1>2. IsFiniteSet(S)
  <2> HIDE DEF S, f
  <2> QED BY <1>1, FS_Surjection
<1>3. Warned(old, jobs, path) = old \o SetToSeq(S \ ToSet(old))
  BY DEF Warned
<1> HIDE DEF S
<1>4. LET t == old \o SetToSeq(S \ ToSet(old)) IN IsSeq(t) /\ IsInjective(t) /\ ToSet(t) = ToSet(old) \cup S
  BY <1>2, SeqWithSet
<1> QED BY <1>3, <1>4 DEF S

\* One more file that declares some entities.
LEMMA ProvGrows ==
  ASSUME NEW old, NEW R, ProvIs(old, R), NEW declared, NEW path,
         \A r \in R : r = <<r[1], r[2]>>
  PROVE  ProvIs(Bumped(old, declared, path), R \cup (declared \X {path}))
<1> DEFINE U == R \cup (declared \X {path})
           q == Bumped(old, declared, path)
           FilesOf(W, e) == {f \in {r[2] : r \in W} : <<e, f>> \in W}
<1>1. DOMAIN q = DOMAIN old \cup declared
  BY DEF Bumped
<1>2. \A r \in U : r \in R \/ (r[1] \in declared /\ r[2] = path /\ r = <<r[1], path>>)
  OBVIOUS
<1>3. \A e \in declared : <<e, path>> \in U
  OBVIOUS
<1>4. R \subseteq U
  OBVIOUS
<1>5. {r[1] : r \in U} = DOMAIN old \cup declared
  <2>1. \A x \in declared : <<x, path>>[1] = x
    OBVIOUS
  <2>2. DOMAIN old = {r[1] : r \in R}
    BY DEF ProvIs
  <2> HIDE DEF U
  <2> QED BY <1>2, <1>3, <1>4, <2>1, <2>2
<1>6. ASSUME NEW e, NEW f
      PROVE  f \in FilesOf(U, e) <=> f \in FilesOf(R, e) \/ (e \in declared /\ f = path)
  <2>1. <<e, f>> \in U <=> <<e, f>> \in R \/ (e \in declared /\ f = path)
    OBVIOUS
  <2>2. <<e, f>>[2] = f
    OBVIOUS
  <2> HIDE DEF U
  <2> QED BY <2>1, <2>2
<1>7. ASSUME NEW e \in DOMAIN old
      PROVE  IsSeq(old[e]) /\ IsInjective(old[e]) /\ ToSet(old[e]) = FilesOf(R, e)
  BY DEF ProvIs
<1>8. ASSUME NEW e, e \notin DOMAIN old
      PROVE  FilesOf(R, e) = {}
  <2>1. DOMAIN old = {r[1] : r \in R}
    BY DEF ProvIs
  <2>2. \A f : <<e, f>> \notin R
    <3>1. \A f : <<e, f>>[1] = e
      OBVIOUS
    <3> QED BY <2>1, <3>1, <1>8
  <2> QED BY <2>2
<1> HIDE DEF FilesOf, U
<1>9. ASSUME NEW e \in DOMAIN q
      PROVE  IsSeq(q[e]) /\ IsInjective(q[e]) /\ ToSet(q[e]) = FilesOf(U, e)
  <2> DEFINE files == IF e \in DOMAIN old THEN old[e] ELSE <<>>
  <2>1. IsSeq(files) /\ IsInjective(files) /\ ToSet(files) = FilesOf(R, e)
    <3>1. CASE e \in DOMAIN old
      BY <3>1, <1>7
    <3>2. CASE e \notin DOMAIN old
      <4>1. files = <<>> /\ ToSet(<<>>) = {} /\ IsInjective(<<>>) /\ IsSeq(<<>>)
        BY <3>2 DEF ToSet, IsInjective, IsSeq
      <4> QED BY <4>1, <3>2, <1>8
    <3> QED BY <3>1, <3>2
  <2>2. q[e] = IF e \in declared /\ path \notin ToSet(files) THEN Append(files, path) ELSE files
    BY <1>1 DEF Bumped
  <2> HIDE DEF files, q
  <2>3. CASE e \in declared /\ path \notin ToSet(files)
    <3>1. q[e] = Append(files, path)
      BY <2>2, <2>3
    <3>2. IsSeq(q[e]) /\ ToSet(q[e]) = ToSet(files) \cup {path}
      BY <2>1, <3>1, Appended
    <3>3. IsInjective(q[e])
      BY <2>1, <2>3, <3>1, AppendedInjective
    <3>4. \A f : f \in ToSet(q[e]) <=> f \in FilesOf(U, e)
      BY <2>1, <2>3, <3>2, <1>6
    <3> QED BY <3>2, <3>3, <3>4
  <2>4. CASE ~ (e \in declared /\ path \notin ToSet(files))
    <3>1. q[e] = files
      BY <2>2, <2>4
    <3>2. \A f : f \in ToSet(files) <=> f \in FilesOf(U, e)
      BY <2>1, <2>4, <1>6
    <3> QED BY <2>1, <3>1, <3>2
  <2> QED BY <2>3, <2>4
<1>10. DOMAIN q = {r[1] : r \in U}
  BY <1>1, <1>5
<1> HIDE DEF q
<1>11. ProvIs(q, U)
  BY <1>9, <1>10 DEF ProvIs, FilesOf
<1> QED BY <1>11 DEF q, U

\* A list of blocks has one job of an id: that of the first block with the id.
LEMMA FirstIsOne ==
  ASSUME NEW c, NEW P, NEW D, NEW j, NEW k, NEW d \in D, NEW e \in D,
         IsFirst(c, P, D, j, d), IsFirst(c, P, D, k, e), JobId(j) = JobId(k),
         \A f \in D : f[1] \in Nat /\ f[2] \in Nat /\ f = <<f[1], f[2]>>,
         \A f \in D : \A x, y \in BlockAt(c, P, f).jobs : JobId(x) = JobId(y) => x = y
  PROVE  j = k /\ d = e
<1>1. j \in BlockAt(c, P, d).jobs /\ k \in BlockAt(c, P, e).jobs
  BY DEF IsFirst
<1>2. (e = d \/ Precedes(d, e)) /\ (d = e \/ Precedes(e, d))
  BY <1>1 DEF IsFirst
<1>3. d = e
  BY <1>2 DEF Precedes
<1> QED BY <1>1, <1>3

\* The jobs a list has otherwise than block s.
LEMMA ClashingIs ==
  ASSUME NEW into, IsSeq(into), OneEach(into), NEW s, IsFiniteSet(s.jobs)
  PROVE  /\ IsFiniteSet(Clashing(into, s))
         /\ \A id : id \in Clashing(into, s) <=>
              \E j \in s.jobs, i \in DOMAIN into : \E k \in into[i].jobs :
                StreamId(into[i]) = StreamId(s) /\ Differ(j, k) /\ id = JobId(j)
<1> DEFINE C == Clashing(into, s)
           ids == {JobId(j) : j \in s.jobs}
           f == [j \in s.jobs |-> JobId(j)]
<1>1. Known(into, s) = {i \in DOMAIN into : StreamId(into[i]) = StreamId(s)}
  BY KnownIs
<1>2. \A id : id \in C <=>
        \E i \in Known(into, s) : \E j \in s.jobs : id = JobId(j) /\ \E k \in into[i].jobs : Differ(j, k)
  BY DEF Clashing, Differ
<1>3. f \in Surjection(s.jobs, ids)
  BY DEF Surjection
<1>4. IsFiniteSet(ids)
  <2> HIDE DEF ids, f
  <2> QED BY <1>3, FS_Surjection
<1>5. C \subseteq ids
  BY <1>2
<1>6. IsFiniteSet(C)
  <2> HIDE DEF C, ids
  <2> QED BY <1>4, <1>5, FS_Subset
<1> HIDE DEF C
<1>7. \A id : id \in C <=>
        \E j \in s.jobs, i \in DOMAIN into : \E k \in into[i].jobs :
          StreamId(into[i]) = StreamId(s) /\ Differ(j, k) /\ id = JobId(j)
  BY <1>1, <1>2
<1> QED BY <1>6, <1>7 DEF C

\* The places of blocks of files: what the proofs about warnings need of them.
Placed(c, P, D) ==
  \A f \in D : /\ f[1] \in Nat /\ f[2] \in Nat /\ f = <<f[1], f[2]>>
               /\ OwnJobs(BlockAt(c, P, f)) /\ IsFiniteSet(BlockAt(c, P, f).jobs)
               /\ \A x, y \in BlockAt(c, P, f).jobs : JobId(x) = JobId(y) => x = y

\* Merging a stream warns of exactly its jobs that are not as they are kept, and what
\* was warned of before still is such.
LEMMA WarnsGrow ==
  ASSUME NEW c, NEW P, NEW D, NEW into, Listed(c, P, D, into), NEW w, Warns(c, P, D, into, w),
         NEW e, \A d \in D : Precedes(d, e) /\ OwnJobs(BlockAt(c, P, d)), Placed(c, P, D \cup {e})
  PROVE  Warns(c, P, D \cup {e}, WithBlock(into, BlockAt(c, P, e)),
               Warned(w, Clashing(into, BlockAt(c, P, e)), P[e[1]]))
<1> DEFINE s == BlockAt(c, P, e)
           t == WithBlock(into, s)
           v == Warned(w, Clashing(into, s), P[e[1]])
           W(id, d) == [job |-> id, path |-> P[d[1]]]
<1>1. IsSeq(into) /\ OneEach(into)
  BY DEF Listed, OneEach
<1>2. OwnJobs(s) /\ IsFiniteSet(s.jobs) /\ \A x, y \in s.jobs : JobId(x) = JobId(y) => x = y
  BY DEF Placed
<1> HIDE DEF s
<1>3. Grown(into, s, t)
  BY <1>1, ListWithBlock
<1>4. /\ IsFiniteSet(Clashing(into, s))
      /\ \A id : id \in Clashing(into, s) <=>
           \E j \in s.jobs, i \in DOMAIN into : \E k \in into[i].jobs :
             StreamId(into[i]) = StreamId(s) /\ Differ(j, k) /\ id = JobId(j)
  BY <1>1, <1>2, ClashingIs
<1>5. /\ IsSeq(v) /\ IsInjective(v)
      /\ ToSet(v) = ToSet(w) \cup {[job |-> j, path |-> P[e[1]]] : j \in Clashing(into, s)}
  BY <1>4, WarnedIs DEF Warns
<1> HIDE DEF t, v
<1>6. ASSUME NEW x \in ToSet(v)
      PROVE  \E d \in D \cup {e}, i \in DOMAIN t : \E j \in BlockAt(c, P, d).jobs, k \in t[i].jobs :
               Differ(j, k) /\ x = W(JobId(k), d)
  <2>1. CASE x \in ToSet(w)
    <3>1. PICK d \in D, i \in DOMAIN into : \E j \in BlockAt(c, P, d).jobs, k \in into[i].jobs :
            Differ(j, k) /\ x = W(JobId(k), d)
      BY <2>1 DEF Warns
    <3>2. i \in DOMAIN t /\ into[i].jobs \subseteq t[i].jobs
      BY <1>3 DEF Grown
    <3> QED BY <3>1, <3>2
  <2>2. CASE x \notin ToSet(w)
    <3>1. PICK id \in Clashing(into, s) : x = [job |-> id, path |-> P[e[1]]]
      BY <2>2, <1>5
    <3>2. PICK j \in s.jobs, i \in DOMAIN into : \E k \in into[i].jobs : Differ(j, k) /\ id = JobId(j)
      BY <3>1, <1>4
    <3>3. PICK k \in into[i].jobs : Differ(j, k) /\ id = JobId(j)
      BY <3>2
    <3>4. i \in DOMAIN t /\ k \in t[i].jobs
      BY <1>3 DEF Grown
    <3>5. x = W(JobId(k), e) /\ Differ(j, k)
      BY <3>1, <3>3 DEF Differ
    <3> QED BY <3>4, <3>5 DEF s
  <2> QED BY <2>1, <2>2
<1>7. ASSUME NEW d \in D \cup {e}, NEW i \in DOMAIN t,
             NEW j \in BlockAt(c, P, d).jobs, NEW k \in t[i].jobs, Differ(j, k)
      PROVE  W(JobId(k), d) \in ToSet(v)
  <2>1. /\ i \in DOMAIN into => /\ k \in into[i].jobs \/ (k \in Fresh(into[i], s) /\ StreamId(into[i]) = StreamId(s))
                               /\ StreamId(t[i]) = StreamId(into[i])
        /\ i \notin DOMAIN into => k \in s.jobs /\ \A h \in DOMAIN into : StreamId(into[h]) # StreamId(s)
    BY <1>3 DEF Grown
  <2>2. JobId(j) = JobId(k) /\ j.ws = k.ws /\ j.stream = k.stream
    BY <1>7 DEF Differ, JobId
  <2>3. OwnJobs(BlockAt(c, P, d))
    BY <1>7 DEF Placed
  <2>4. <<k.ws, k.stream>> = StreamId(BlockAt(c, P, d))
    BY <2>2, <2>3 DEF OwnJobs
  <2>5. CASE i \in DOMAIN into /\ k \in into[i].jobs
    <3>1. CASE d \in D
      BY <3>1, <2>5, <1>5, <1>7 DEF Warns
    <3>2. CASE d = e
      <4>1. j \in s.jobs
        BY <3>2 DEF s
      <4>2. StreamId(into[i]) = <<k.ws, k.stream>>
        BY <2>5 DEF Listed, Made
      <4>3. StreamId(into[i]) = StreamId(s)
        BY <4>2, <2>4, <3>2 DEF s
      <4>4. JobId(j) \in Clashing(into, s)
        BY <4>1, <4>3, <2>5, <1>4, <1>7
      <4>5. W(JobId(j), e) \in ToSet(v)
        BY <4>4, <1>5
      <4> QED BY <4>5, <3>2, <2>2
    <3> QED BY <3>1, <3>2
  <2>6. CASE ~ (i \in DOMAIN into /\ k \in into[i].jobs)
    <3>1. k \in s.jobs
      BY <2>1, <2>6 DEF Fresh
    <3>2. CASE d = e
      <4>1. j = k
        BY <3>1, <3>2, <1>2, <2>2 DEF s
      <4> QED BY <4>1, <1>7 DEF Differ
    <3>3. CASE d \in D
      <4>1. Covers(into, BlockAt(c, P, d))
        BY <3>3 DEF Listed
      <4>2. PICK h \in DOMAIN into : StreamId(into[h]) = StreamId(BlockAt(c, P, d))
                                     /\ \E y \in into[h].jobs : JobId(y) = JobId(j)
        BY <4>1 DEF Covers
      <4>3. <<k.ws, k.stream>> = StreamId(s)
        BY <3>1, <1>2 DEF OwnJobs
      <4>4. StreamId(into[h]) = StreamId(s)
        BY <4>2, <4>3, <2>4
      <4>5. i \in DOMAIN into /\ k \in Fresh(into[i], s) /\ StreamId(into[i]) = StreamId(s)
        BY <2>1, <2>6, <4>4
      <4>6. i = h
        BY <4>4, <4>5, <1>1 DEF OneEach
      <4> QED BY <4>2, <4>5, <4>6, <2>2 DEF Fresh
    <3> QED BY <3>2, <3>3
  <2> QED BY <2>5, <2>6
<1>8. Warns(c, P, D \cup {e}, t, v)
  BY <1>5, <1>6, <1>7 DEF Warns
<1> QED BY <1>8 DEF t, v, s

\* Of the blocks at D those at E come first.
Leading(D, E) == E \subseteq D /\ \A d \in D : (\E f \in E : Precedes(d, f)) => d \in E

\* What the schedules have kept of a job the streams have kept.
LEMMA KeptAlike ==
  ASSUME NEW c, NEW P, NEW D, NEW E, Leading(D, E), Placed(c, P, D),
         NEW into, Listed(c, P, D, into), NEW sched, Listed(c, P, E, sched),
         NEW h \in DOMAIN sched, NEW k \in sched[h].jobs
  PROVE  \E i \in DOMAIN into : k \in into[i].jobs
<1>1. PICK f \in E : IsFirst(c, P, E, k, f)
  BY DEF Listed, Made
<1>2. k \in BlockAt(c, P, f).jobs /\ f \in D
  BY <1>1 DEF IsFirst, Leading
<1>3. PICK i \in DOMAIN into : \E x \in into[i].jobs : JobId(x) = JobId(k)
  BY <1>2 DEF Listed, Covers
<1>4. PICK x \in into[i].jobs : JobId(x) = JobId(k)
  BY <1>3
<1>5. PICK d \in D : IsFirst(c, P, D, x, d)
  BY <1>4 DEF Listed, Made
<1>6. f = d \/ Precedes(d, f)
  BY <1>2, <1>4, <1>5 DEF IsFirst
<1>7. d \in E
  BY <1>6 DEF Leading
<1>8. IsFirst(c, P, E, x, d)
  BY <1>5 DEF IsFirst, Leading
<1>9. /\ \A g \in E : g[1] \in Nat /\ g[2] \in Nat /\ g = <<g[1], g[2]>>
      /\ \A g \in E : \A y, z \in BlockAt(c, P, g).jobs : JobId(y) = JobId(z) => y = z
  BY DEF Placed, Leading
<1>10. k = x
  BY <1>1, <1>4, <1>7, <1>8, <1>9, FirstIsOne
<1> QED BY <1>4, <1>10

\* Merging a schedule warns of nothing its stream would not be warned of.
LEMMA WarnsAgain ==
  ASSUME NEW c, NEW P, NEW D, NEW E, Leading(D, E), Placed(c, P, D),
         NEW into, Listed(c, P, D, into), NEW sched, Listed(c, P, E, sched),
         NEW w, Warns(c, P, D, into, w), NEW e \in D
  PROVE  Warns(c, P, D, into, Warned(w, Clashing(sched, BlockAt(c, P, e)), P[e[1]]))
<1> DEFINE s == BlockAt(c, P, e)
           v == Warned(w, Clashing(sched, s), P[e[1]])
           W(id, d) == [job |-> id, path |-> P[d[1]]]
<1>1. IsSeq(sched) /\ OneEach(sched)
  BY DEF Listed, OneEach
<1>2. IsFiniteSet(s.jobs)
  BY DEF Placed
<1> HIDE DEF s
<1>3. /\ IsFiniteSet(Clashing(sched, s))
      /\ \A id : id \in Clashing(sched, s) <=>
           \E j \in s.jobs, i \in DOMAIN sched : \E k \in sched[i].jobs :
             StreamId(sched[i]) = StreamId(s) /\ Differ(j, k) /\ id = JobId(j)
  BY <1>1, <1>2, ClashingIs
<1>4. /\ IsSeq(v) /\ IsInjective(v)
      /\ ToSet(v) = ToSet(w) \cup {[job |-> j, path |-> P[e[1]]] : j \in Clashing(sched, s)}
  BY <1>3, WarnedIs DEF Warns
<1> HIDE DEF v
<1>5. ASSUME NEW x \in ToSet(v)
      PROVE  \E d \in D, i \in DOMAIN into : \E j \in BlockAt(c, P, d).jobs, k \in into[i].jobs :
               Differ(j, k) /\ x = W(JobId(k), d)
  <2>1. CASE x \in ToSet(w)
    BY <2>1 DEF Warns
  <2>2. CASE x \notin ToSet(w)
    <3>1. PICK id \in Clashing(sched, s) : x = [job |-> id, path |-> P[e[1]]]
      BY <2>2, <1>4
    <3>2. PICK j \in s.jobs, h \in DOMAIN sched : \E k \in sched[h].jobs : Differ(j, k) /\ id = JobId(j)
      BY <3>1, <1>3
    <3>3. PICK k \in sched[h].jobs : Differ(j, k) /\ id = JobId(j)
      BY <3>2
    <3>4. PICK i \in DOMAIN into : k \in into[i].jobs
      BY KeptAlike
    <3>5. x = W(JobId(k), e) /\ Differ(j, k)
      BY <3>1, <3>3 DEF Differ
    <3> QED BY <3>4, <3>5 DEF s
  <2> QED BY <2>1, <2>2
<1>6. Warns(c, P, D, into, v)
  <2>1. ToSet(w) \subseteq ToSet(v)
    BY <1>4
  <2> QED BY <1>4, <1>5, <2>1 DEF Warns
<1> QED BY <1>6 DEF v, s

\* The warnings are of the blocks at their places, wherever more files go.
LEMMA WarnsKept ==
  ASSUME NEW c, NEW P, NEW Q, NEW D, NEW into, NEW w, Warns(c, P, D, into, w),
         \A d \in D : Q[d[1]] = P[d[1]] /\ BlockAt(c, Q, d) = BlockAt(c, P, d)
  PROVE  Warns(c, Q, D, into, w)
<1>2. ASSUME NEW x \in ToSet(w)
      PROVE  \E d \in D, i \in DOMAIN into : \E j \in BlockAt(c, Q, d).jobs, k \in into[i].jobs :
               Differ(j, k) /\ x = [job |-> JobId(k), path |-> Q[d[1]]]
  BY DEF Warns
<1>3. ASSUME NEW d \in D, NEW i \in DOMAIN into, NEW j \in BlockAt(c, Q, d).jobs, NEW k \in into[i].jobs,
             Differ(j, k)
      PROVE  [job |-> JobId(k), path |-> Q[d[1]]] \in ToSet(w)
  BY <1>3 DEF Warns
<1> QED BY <1>2, <1>3 DEF Warns

\* An entity and a path are declared if a file at the path declares the entity so far.
Named1(c, r, p) == r \in NamesIn(c[p].unit) \X {p}
Stream1(c, P, r, d) == r \in ByStream(c, P, d)
Schedule1(c, P, r, d) == r \in BySchedule(c, P, d)
LEMMA DeclaredAre ==
  ASSUME NEW c, NEW P, NEW D, NEW E, NEW r
  PROVE  /\ r \in DeclaredIn(c, P, D, E) <=>
              \/ \E p \in ToSet(P) : Named1(c, r, p)
              \/ \E d \in D : Stream1(c, P, r, d)
              \/ \E d \in E : Schedule1(c, P, r, d)
         /\ r \in DeclaredIn(c, P, D, E) => r = <<r[1], r[2]>>
<1>1. r \in DeclaredIn(c, P, D, E) <=>
        \/ \E p \in ToSet(P) : Named1(c, r, p)
        \/ \E d \in D : Stream1(c, P, r, d)
        \/ \E d \in E : Schedule1(c, P, r, d)
  <2> DEFINE A == UNION {NamesIn(c[p].unit) \X {p} : p \in ToSet(P)}
             B == UNION {ByStream(c, P, d) : d \in D}
             C == UNION {BySchedule(c, P, d) : d \in E}
  <2>1. r \in A <=> \E p \in ToSet(P) : Named1(c, r, p)
    BY DEF Named1
  <2>2. r \in B <=> \E d \in D : Stream1(c, P, r, d)
    BY DEF Stream1
  <2>3. r \in C <=> \E d \in E : Schedule1(c, P, r, d)
    BY DEF Schedule1
  <2>4. DeclaredIn(c, P, D, E) = A \cup B \cup C
    BY DEF DeclaredIn
  <2> HIDE DEF A, B, C
  <2> QED BY <2>1, <2>2, <2>3, <2>4
<1>2. /\ \A p : Named1(c, r, p) => r = <<r[1], r[2]>>
      /\ \A d : Stream1(c, P, r, d) => r = <<r[1], r[2]>>
      /\ \A d : Schedule1(c, P, r, d) => r = <<r[1], r[2]>>
  BY DEF Named1, Stream1, Schedule1, ByStream, BySchedule
<1> QED BY <1>1, <1>2

\* What is declared once one more file has its names, ...
LEMMA NamesDeclared ==
  ASSUME NEW c, NEW P, IsSeq(P), NEW p, NEW D, NEW E, Alike(c, P, Append(P, p), D \cup E)
  PROVE  DeclaredIn(c, Append(P, p), D, E) = DeclaredIn(c, P, D, E) \cup (NamesIn(c[p].unit) \X {p})
<1> DEFINE Q == Append(P, p)
           X == DeclaredIn(c, Q, D, E)
           Y == DeclaredIn(c, P, D, E)
           Z == NamesIn(c[p].unit) \X {p}
<1>1. ToSet(Q) = ToSet(P) \cup {p}
  BY Appended
<1>2. /\ \A r : \A d \in D : Stream1(c, Q, r, d) <=> Stream1(c, P, r, d)
      /\ \A r : \A d \in E : Schedule1(c, Q, r, d) <=> Schedule1(c, P, r, d)
  BY DEF Stream1, Schedule1, ByStream, BySchedule, Alike
<1>3. \A r : r \in Z <=> Named1(c, r, p)
  BY DEF Named1
<1> HIDE DEF Q
<1>4. \A r : r \in X <=> r \in Y \/ r \in Z
  <2> SUFFICES ASSUME NEW r PROVE r \in X <=> r \in Y \/ r \in Z
    OBVIOUS
  <2>1. r \in X <=> \/ \E x \in ToSet(Q) : Named1(c, r, x)
                    \/ \E d \in D : Stream1(c, Q, r, d)
                    \/ \E d \in E : Schedule1(c, Q, r, d)
    BY DeclaredAre
  <2>2. r \in Y <=> \/ \E x \in ToSet(P) : Named1(c, r, x)
                    \/ \E d \in D : Stream1(c, P, r, d)
                    \/ \E d \in E : Schedule1(c, P, r, d)
    BY DeclaredAre
  <2> HIDE DEF X, Y, Z
  <2> QED BY <1>1, <1>2, <1>3, <2>1, <2>2
<1> HIDE DEF X, Y, Z
<1>5. X = Y \cup Z
  BY <1>4
<1> QED BY <1>5 DEF X, Y, Z, Q

\* ... one more stream and one more schedule.
StreamAdds(c, P, D, E, e) ==
  DeclaredIn(c, P, D \cup {e}, E) = DeclaredIn(c, P, D, E) \cup ByStream(c, P, e)
ScheduleAdds(c, P, D, E, e) ==
  DeclaredIn(c, P, D, E \cup {e}) = DeclaredIn(c, P, D, E) \cup BySchedule(c, P, e)
LEMMA BlockDeclared ==
  ASSUME NEW c, NEW P, NEW D, NEW E, NEW e
  PROVE  StreamAdds(c, P, D, E, e) /\ ScheduleAdds(c, P, D, E, e)
<1> DEFINE X == DeclaredIn(c, P, D \cup {e}, E)
           V == DeclaredIn(c, P, D, E \cup {e})
           Y == DeclaredIn(c, P, D, E)
           S == ByStream(c, P, e)
           C == BySchedule(c, P, e)
<1>1. \A r : r \in X <=> \/ \E x \in ToSet(P) : Named1(c, r, x)
                         \/ \E d \in D \cup {e} : Stream1(c, P, r, d)
                         \/ \E d \in E : Schedule1(c, P, r, d)
  BY DeclaredAre
<1>2. \A r : r \in V <=> \/ \E x \in ToSet(P) : Named1(c, r, x)
                         \/ \E d \in D : Stream1(c, P, r, d)
                         \/ \E d \in E \cup {e} : Schedule1(c, P, r, d)
  BY DeclaredAre
<1>3. \A r : r \in Y <=> \/ \E x \in ToSet(P) : Named1(c, r, x)
                         \/ \E d \in D : Stream1(c, P, r, d)
                         \/ \E d \in E : Schedule1(c, P, r, d)
  BY DeclaredAre
<1>4. \A r : (r \in S <=> Stream1(c, P, r, e)) /\ (r \in C <=> Schedule1(c, P, r, e))
  BY DEF Stream1, Schedule1
<1> HIDE DEF X, V, Y, S, C
<1>5. X = Y \cup S
  <2>1. \A r : r \in X <=> r \in Y \/ r \in S
    BY <1>1, <1>3, <1>4
  <2> QED BY <2>1
<1>6. V = Y \cup C
  <2>1. \A r : r \in V <=> r \in Y \/ r \in C
    BY <1>2, <1>3, <1>4
  <2> QED BY <2>1
<1> QED BY <1>5, <1>6 DEF X, V, Y, S, C, StreamAdds, ScheduleAdds

\* The places depend on how far the last file is.
LEMMA PlacesSame ==
  ASSUME NEW c, NEW P, Ready(c, P), NEW n, NEW m,
         P # <<>> => \A i \in DOMAIN BlocksOf(c, P, Len(P)) : i < n <=> i < m
  PROVE  PlacesTo(c, P, n) = PlacesTo(c, P, m)
<1>1. Len(P) \in Nat
  BY Elements DEF Ready
<1>2. \A k \in 1..Len(P) : \A i \in DOMAIN BlocksOf(c, P, k) :
        (k < Len(P) \/ i < n) <=> (k < Len(P) \/ i < m)
  BY <1>1
<1>3. \A d : d \in PlacesTo(c, P, n) <=> d \in PlacesTo(c, P, m)
  <2> SUFFICES ASSUME NEW d PROVE d \in PlacesTo(c, P, n) <=> d \in PlacesTo(c, P, m)
    OBVIOUS
  <2>1. d \in PlacesTo(c, P, n) <=> \E k \in 1..Len(P) : \E i \in DOMAIN BlocksOf(c, P, k) :
             (k < Len(P) \/ i < n) /\ d = <<k, i>>
    BY PlacesAre
  <2>2. d \in PlacesTo(c, P, m) <=> \E k \in 1..Len(P) : \E i \in DOMAIN BlocksOf(c, P, k) :
             (k < Len(P) \/ i < m) /\ d = <<k, i>>
    BY PlacesAre
  <2> QED BY <1>2, <2>1, <2>2
<1> QED BY <1>3

\* A block at such a place is of a path, with jobs of its own.
LEMMA PlacesPlaced ==
  ASSUME NEW c, NEW P, Ready(c, P), NEW n
  PROVE  Placed(c, P, PlacesTo(c, P, n))
BY PlaceHas DEF Placed

-----------------------------------------------------------------------------
(* The invariant is inductive.                                             *)

\* What the types say of the file that is being merged.
LEMMA TypeFacts ==
  ASSUME Types
  PROVE  /\ Ready(corpus, parsed) /\ IsSeq(req.paths)
         /\ Len(parsed) \in Nat /\ DOMAIN parsed = 1..Len(parsed)
         /\ ToSet(parsed) \subseteq ToSet(req.paths)
         /\ at \in Nat /\ at >= 1
         /\ parsed # <<>> =>
              /\ Len(parsed) \in 1..Len(parsed) /\ Blocks = BlocksOf(corpus, parsed, Len(parsed))
              /\ Len(Blocks) \in Nat /\ DOMAIN Blocks = 1..Len(Blocks)
              /\ at <= 2 * Len(Blocks) + 1
<1>1. req.paths \in Seq(ToSet(req.paths))
  BY RequestsAssumption DEF Types
<1>2. parsed \in Seq(ToSet(req.paths))
  BY DEF Types
<1>3. Len(parsed) \in Nat /\ DOMAIN parsed = 1..Len(parsed) /\ \A i \in DOMAIN parsed : parsed[i] \in ToSet(req.paths)
  <2> DEFINE S == ToSet(req.paths)
  <2> HIDE DEF S
  <2>1. parsed \in Seq(S)
    BY <1>2 DEF S
  <2>2. Len(parsed) \in Nat /\ DOMAIN parsed = 1..Len(parsed) /\ \A i \in DOMAIN parsed : parsed[i] \in S
    BY <2>1
  <2> QED BY <2>2 DEF S
<1>4. ToSet(parsed) \subseteq ToSet(req.paths)
  BY <1>3 DEF ToSet
<1>5. IsSeq(parsed)
  <2> DEFINE S == ToSet(parsed)
  <2>1. \A i \in 1..Len(parsed) : parsed[i] \in S
    BY <1>3 DEF ToSet
  <2>2. parsed = [i \in 1..Len(parsed) |-> parsed[i]]
    <3> DEFINE R == ToSet(req.paths)
    <3> HIDE DEF R
    <3>1. parsed \in Seq(R)
      BY <1>2 DEF R
    <3> QED BY <3>1
  <2> HIDE DEF S
  <2>3. parsed \in Seq(S)
    BY <1>3, <2>1, <2>2, IsASeq
  <2> QED BY <2>3 DEF IsSeq, S
<1>6. Ready(corpus, parsed)
  BY <1>4, <1>5 DEF Ready, Types
<1>7. ASSUME parsed # <<>>
      PROVE  Len(parsed) \in 1..Len(parsed)
  BY <1>3, <1>5, <1>7 DEF IsSeq
<1>8. ASSUME parsed # <<>>
      PROVE  /\ Blocks = BlocksOf(corpus, parsed, Len(parsed))
             /\ Len(Blocks) \in Nat /\ DOMAIN Blocks = 1..Len(Blocks)
  <2>1. Blocks = BlocksOf(corpus, parsed, Len(parsed))
    BY DEF Blocks, Unit, Current, BlocksOf
  <2>2. LET B == BlocksOf(corpus, parsed, Len(parsed)) IN Len(B) \in Nat /\ DOMAIN B = 1..Len(B)
    BY <1>6, <1>7, <1>8, BlocksAre
  <2> QED BY <2>1, <2>2
<1> QED BY <1>1, <1>3, <1>4, <1>6, <1>7, <1>8 DEF Types, IsSeq

\* Where the schedules are merged the streams are.
LEMMA SchedulesBehind ==
  ASSUME Types
  PROVE  Leading(StreamPlaces, SchedulePlaces)
<1> DEFINE n == at - Len(Blocks)
<1>1. Ready(corpus, parsed) /\ Len(parsed) \in Nat /\ at \in Nat
  BY TypeFacts
<1>2. parsed # <<>> => Len(Blocks) \in Nat
  BY TypeFacts
<1>3. \A d \in StreamPlaces : parsed # <<>> /\ d[1] \in 1..Len(parsed) /\ d[2] \in DOMAIN BlocksOf(corpus, parsed, d[1])
                              /\ d = <<d[1], d[2]>> /\ d[1] \in Nat /\ d[2] \in Nat
  <2>1. \A d \in StreamPlaces : d[1] \in 1..Len(parsed) /\ d[2] \in DOMAIN BlocksOf(corpus, parsed, d[1])
                              /\ d = <<d[1], d[2]>> /\ d[1] \in Nat /\ d[2] \in Nat
    BY <1>1, PlaceHas DEF StreamPlaces
  <2>2. Len(<<>>) = 0
    OBVIOUS
  <2> QED BY <2>1, <2>2
<1>4. \A d \in SchedulePlaces : /\ parsed # <<>> /\ d[1] \in 1..Len(parsed) /\ d[2] \in DOMAIN BlocksOf(corpus, parsed, d[1])
                                /\ d = <<d[1], d[2]>> /\ d[1] \in Nat /\ d[2] \in Nat
                                /\ d[1] < Len(parsed) \/ d[2] < n
  <2>1. \A d \in SchedulePlaces : /\ d[1] \in 1..Len(parsed) /\ d[2] \in DOMAIN BlocksOf(corpus, parsed, d[1])
                                  /\ d = <<d[1], d[2]>> /\ d[1] \in Nat /\ d[2] \in Nat
                                  /\ d[1] < Len(parsed) \/ d[2] < n
    BY <1>1, PlaceHas DEF SchedulePlaces
  <2>2. Len(<<>>) = 0
    OBVIOUS
  <2> QED BY <2>1, <2>2
<1>5. ASSUME NEW d \in SchedulePlaces
      PROVE  d \in StreamPlaces
  <2>1. d[1] < Len(parsed) \/ d[2] < at
    BY <1>1, <1>2, <1>4
  <2> QED BY <2>1, <1>4, PlacesAre DEF StreamPlaces
<1>6. ASSUME NEW d \in StreamPlaces, NEW f \in SchedulePlaces, Precedes(d, f)
      PROVE  d \in SchedulePlaces
  <2>1. d[1] < Len(parsed) \/ d[2] < n
    BY <1>1, <1>2, <1>3, <1>4, <1>6 DEF Precedes
  <2> QED BY <2>1, <1>3, PlacesAre DEF SchedulePlaces
<1> QED BY <1>5, <1>6 DEF Leading

LEMMA InitInvariant == Init => IInv
<1> SUFFICES ASSUME Init PROVE IInv
  OBVIOUS
<1> USE DEF Init
<1>1. /\ merged.workstations = {} /\ merged.calendars = {} /\ merged.prompts = {} /\ merged.resources = {}
      /\ merged.rules = {} /\ merged.streams = <<>> /\ merged.schedules = <<>>
      /\ merged = [workstations |-> {}, calendars |-> {}, prompts |-> {}, resources |-> {},
                   rules |-> {}, streams |-> <<>>, schedules |-> <<>>]
  BY DEF NoUnit
<1>2. ToSet(<<>>) = {} /\ Len(<<>>) = 0 /\ DOMAIN <<>> = {} /\ IsInjective(<<>>) /\ IsSeq(<<>>)
  BY DEF ToSet, IsInjective, IsSeq
<1>3. Types
  <2>1. <<>> \in Seq(ToSet(req.paths))
    OBVIOUS
  <2>2. corpus \in Corpora /\ req \in Requests /\ ToSet(req.paths) \subseteq DOMAIN corpus
        /\ parsed = <<>> /\ at = 1 /\ 1 \in Nat \ {0}
    OBVIOUS
  <2>3. merged = [workstations |-> merged.workstations, calendars |-> merged.calendars,
                  prompts |-> merged.prompts, resources |-> merged.resources,
                  rules |-> merged.rules, streams |-> merged.streams,
                  schedules |-> merged.schedules]
    BY ONLY <1>1
  <2> QED BY ONLY <1>2, <2>1, <2>2, <2>3 DEF Types
<1>4. InTurn
  BY <1>2 DEF InTurn
<1>5. NamesMerged
  <2>1. NamesIn(merged) = {}
    BY <1>1 DEF NamesIn, Labelled
  <2> QED BY <1>2, <2>1 DEF NamesMerged
<1>6. StreamPlaces = {} /\ SchedulePlaces = {}
  BY <1>2 DEF StreamPlaces, SchedulePlaces, PlacesTo
<1>7. StreamsListed /\ SchedulesListed
  BY <1>1, <1>2, <1>6 DEF StreamsListed, SchedulesListed, Listed
<1>8. ProvenanceExact
  <2>1. DeclaredIn(corpus, parsed, {}, {}) = {}
    BY <1>2 DEF DeclaredIn
  <2>2. prov = << >> /\ DOMAIN prov = {}
    OBVIOUS
  <2> QED BY <1>6, <2>1, <2>2 DEF ProvenanceExact, ProvIs
<1>9. WarningsExact
  BY <1>1, <1>2, <1>6 DEF WarningsExact, Warns
<1>10. AnswerDrawn
  BY DEF AnswerDrawn
<1> QED BY <1>3, <1>4, <1>5, <1>7, <1>8, <1>9, <1>10 DEF IInv

\* The names of what is only named, when a file's are added.
LEMMA NamesAdded ==
  ASSUME NEW m, NEW u, NEW n,
         n.workstations = m.workstations \cup u.workstations, n.calendars = m.calendars \cup u.calendars,
         n.prompts = m.prompts \cup u.prompts, n.resources = m.resources \cup u.resources,
         n.rules = WithRules(m.rules, u.rules)
  PROVE  NamesIn(n) = NamesIn(m) \cup NamesIn(u)
<1> DEFINE R(x) == {r.name : r \in x.rules}
<1>1. R(n) = R(m) \cup R(u)
  <2>1. \A x \in R(n) : x \in R(m) \cup R(u)
    BY DEF WithRules
  <2>2. \A x \in R(m) : x \in R(n)
    BY DEF WithRules
  <2>3. ASSUME NEW r \in u.rules
        PROVE  r.name \in R(n)
    <3>1. CASE \E q \in m.rules : q.name = r.name
      BY <3>1, <2>2
    <3>2. CASE ~ \E q \in m.rules : q.name = r.name
      BY <3>2 DEF WithRules
    <3> QED BY <3>1, <3>2
  <2> QED BY <2>1, <2>2, <2>3
<1>2. \A label, A, B : Labelled(label, A \cup B) = Labelled(label, A) \cup Labelled(label, B)
  BY DEF Labelled
<1> DEFINE W(x) == Labelled("Workstation", x.workstations)
           C(x) == Labelled("Calendar", x.calendars)
           P(x) == Labelled("Prompt", x.prompts)
           S(x) == Labelled("Resource", x.resources)
           E(x) == Labelled("EventRule", R(x))
<1>3. \A x : NamesIn(x) = W(x) \cup C(x) \cup P(x) \cup S(x) \cup E(x)
  BY DEF NamesIn
<1>4. W(n) = W(m) \cup W(u) /\ C(n) = C(m) \cup C(u) /\ P(n) = P(m) \cup P(u)
      /\ S(n) = S(m) \cup S(u) /\ E(n) = E(m) \cup E(u)
  <2> HIDE DEF R
  <2> QED BY <1>1, <1>2
<1> HIDE DEF W, C, P, S, E
<1> QED BY <1>3, <1>4

\* The merged unit with other streams or schedules has the names it had.
LEMMA NamesAlike ==
  ASSUME NEW m, NEW n,
         n.workstations = m.workstations, n.calendars = m.calendars, n.prompts = m.prompts,
         n.resources = m.resources, n.rules = m.rules
  PROVE  NamesIn(n) = NamesIn(m)
BY DEF NamesIn

\* A file begins: its names are merged, and what was merged before stays.
LEMMA NamesStep ==
  ASSUME IInv, MergeNames
  PROVE  IInv'
<1> USE DEF IInv
<1>1. /\ Ready(corpus, parsed) /\ IsSeq(req.paths)
      /\ Len(parsed) \in Nat /\ DOMAIN parsed = 1..Len(parsed)
      /\ ToSet(parsed) \subseteq ToSet(req.paths)
      /\ at \in Nat /\ at >= 1
      /\ parsed # <<>> =>
           /\ Len(parsed) \in 1..Len(parsed) /\ Blocks = BlocksOf(corpus, parsed, Len(parsed))
           /\ Len(Blocks) \in Nat /\ DOMAIN Blocks = 1..Len(Blocks)
           /\ at <= 2 * Len(Blocks) + 1
  BY TypeFacts
<1>2. /\ pc = "parsed" /\ ~ Merging
      /\ corpus' = corpus /\ req' = req /\ warnings' = warnings /\ pc' = pc /\ answer' = answer
  BY DEF MergeNames
<1>3. PICK g \in DOMAIN req.paths :
        LET path == req.paths[g]
            unit == Unit(path)
        IN /\ path \notin ToSet(parsed)
           /\ \A k \in 1..(g - 1) : req.paths[k] \in ToSet(parsed)
           /\ parsed' = Append(parsed, path) /\ at' = 1
           /\ merged' = [workstations |-> merged.workstations \cup unit.workstations,
                         calendars |-> merged.calendars \cup unit.calendars,
                         prompts |-> merged.prompts \cup unit.prompts,
                         resources |-> merged.resources \cup unit.resources,
                         rules |-> WithRules(merged.rules, unit.rules),
                         streams |-> merged.streams, schedules |-> merged.schedules]
           /\ prov' = Bumped(prov, NamesIn(unit), path)
  BY DEF MergeNames
<1> DEFINE path == req.paths[g]
           unit == Unit(path)
           Q == Append(parsed, path)
<1>4. /\ path \notin ToSet(parsed) /\ \A k \in 1..(g - 1) : req.paths[k] \in ToSet(parsed)
      /\ parsed' = Q /\ at' = 1 /\ prov' = Bumped(prov, NamesIn(unit), path)
      /\ path \in ToSet(req.paths)
  BY <1>3 DEF ToSet
<1>5. /\ merged'.workstations = merged.workstations \cup unit.workstations
      /\ merged'.calendars = merged.calendars \cup unit.calendars
      /\ merged'.prompts = merged.prompts \cup unit.prompts
      /\ merged'.resources = merged.resources \cup unit.resources
      /\ merged'.rules = WithRules(merged.rules, unit.rules)
      /\ merged'.streams = merged.streams /\ merged'.schedules = merged.schedules
      /\ merged' = [workstations |-> merged'.workstations, calendars |-> merged'.calendars,
                    prompts |-> merged'.prompts, resources |-> merged'.resources,
                    rules |-> merged'.rules, streams |-> merged'.streams,
                    schedules |-> merged'.schedules]
  <2> HIDE DEF unit
  <2>1. merged' = [workstations |-> merged.workstations \cup unit.workstations,
                         calendars |-> merged.calendars \cup unit.calendars,
                         prompts |-> merged.prompts \cup unit.prompts,
                         resources |-> merged.resources \cup unit.resources,
                         rules |-> WithRules(merged.rules, unit.rules),
                         streams |-> merged.streams, schedules |-> merged.schedules]
    BY <1>3 DEF unit
  <2> QED BY <2>1
<1>6. unit = corpus[path].unit
  BY DEF Unit
<1> HIDE DEF unit, path
<1>7. /\ IsSeq(Q) /\ Len(Q) = Len(parsed) + 1 /\ DOMAIN Q = 1..(Len(parsed) + 1)
      /\ \A i \in 1..Len(parsed) : Q[i] = parsed[i]
      /\ Q[Len(parsed) + 1] = path
      /\ ToSet(Q) = ToSet(parsed) \cup {path}
  BY <1>1, Appended DEF Ready
<1>8. IsInjective(Q)
  BY <1>1, <1>4, AppendedInjective DEF Types, Ready
<1>9. Ready(corpus, Q)
  BY <1>1, <1>4, <1>7 DEF Ready, Types
<1>10. Q \in Seq(ToSet(req.paths))
  <2>1. ToSet(Q) \subseteq ToSet(req.paths)
    BY <1>1, <1>4, <1>7
  <2> DEFINE S == ToSet(Q)
             R == ToSet(req.paths)
  <2> HIDE DEF S, R, Q
  <2>2. Q \in Seq(S) /\ S \subseteq R
    BY <2>1, <1>7 DEF IsSeq, S, R
  <2>3. Q \in Seq(R)
    BY <2>2
  <2> QED BY <2>3 DEF R
<1> HIDE DEF Q
<1> DEFINE B == BlocksOf(corpus, Q, Len(Q))
<1>11. Q # <<>> /\ Len(Q) \in 1..Len(Q) /\ Blocks' = B /\ Len(B) \in Nat
  <2>1. Len(Q) \in 1..Len(Q) /\ Q # <<>>
    BY <1>1, <1>7
  <2>2. Blocks' = B
    BY <1>2, <1>4 DEF Blocks, Unit, Current, BlocksOf
  <2>3. Len(B) \in Nat
    BY <2>1, <1>9, BlocksAre
  <2> QED BY <2>1, <2>2, <2>3
<1> HIDE DEF B
<1>12. Types'
  <2>1. 1 <= 2 * Len(B) + 1 /\ 1 \in Nat \ {0}
    BY <1>11
  <2> QED BY <1>2, <1>4, <1>5, <1>8, <1>10, <1>11, <2>1 DEF Types
<1>13. InTurn'
  <2> SUFFICES ASSUME NEW k \in DOMAIN Q
               PROVE  \E h \in DOMAIN req.paths :
                        /\ Q[k] = req.paths[h]
                        /\ \A i \in 1..(h - 1) : \E l \in 1..(k - 1) : Q[l] = req.paths[i]
    BY <1>2, <1>4 DEF InTurn
  <2>1. CASE k \in 1..Len(parsed)
    <3>1. PICK h \in DOMAIN req.paths : /\ parsed[k] = req.paths[h]
                                        /\ \A i \in 1..(h - 1) : \E l \in 1..(k - 1) : parsed[l] = req.paths[i]
      BY <2>1, <1>1 DEF InTurn
    <3>2. Q[k] = parsed[k] /\ \A l \in 1..(k - 1) : Q[l] = parsed[l]
      BY <2>1, <1>1, <1>7
    <3> QED BY <3>1, <3>2
  <2>2. CASE k = Len(parsed) + 1
    <3>1. Q[k] = req.paths[g]
      BY <2>2, <1>7 DEF path
    <3>2. \A i \in 1..(g - 1) : \E l \in 1..(k - 1) : Q[l] = req.paths[i]
      <4> SUFFICES ASSUME NEW i \in 1..(g - 1) PROVE \E l \in 1..(k - 1) : Q[l] = req.paths[i]
        OBVIOUS
      <4>1. req.paths[i] \in ToSet(parsed)
        BY <1>4
      <4>2. PICK l \in 1..Len(parsed) : parsed[l] = req.paths[i]
        BY <4>1, <1>1, Elements DEF Ready
      <4>3. l \in 1..(k - 1) /\ Q[l] = parsed[l]
        BY <2>2, <1>1, <1>7
      <4> QED BY <4>2, <4>3
    <3> QED BY <3>1, <3>2
  <2> QED BY <2>1, <2>2, <1>1, <1>7
<1>14. NamesMerged'
  <2>1. NamesIn(merged') = NamesIn(merged) \cup NamesIn(unit)
    BY <1>5, NamesAdded
  <2>2. NamesIn(merged) = UNION {NamesIn(corpus[p].unit) : p \in ToSet(parsed)}
    BY DEF NamesMerged, Unit
  <2>3. UNION {NamesIn(corpus[p].unit) : p \in ToSet(Q)}
          = (UNION {NamesIn(corpus[p].unit) : p \in ToSet(parsed)}) \cup NamesIn(unit)
    BY <1>6, <1>7
  <2>4. NamesIn(merged') = UNION {NamesIn(corpus[p].unit) : p \in ToSet(Q)}
    BY <2>1, <2>2, <2>3
  <2>5. NamesIn(merged)' = NamesIn(merged')
    BY DEF NamesIn, Labelled
  <2> QED BY <1>2, <1>4, <2>4, <2>5 DEF NamesMerged, Unit
<1>15. /\ StreamPlaces' = StreamPlaces /\ SchedulePlaces' = SchedulePlaces
       /\ \A d \in StreamPlaces : Q[d[1]] = parsed[d[1]] /\ BlockAt(corpus, Q, d) = BlockAt(corpus, parsed, d)
       /\ \A d \in SchedulePlaces : Q[d[1]] = parsed[d[1]] /\ BlockAt(corpus, Q, d) = BlockAt(corpus, parsed, d)
  <2>1. parsed # <<>> => at > 2 * Len(Blocks)
    BY <1>1, <1>2 DEF Merging
  <2> DEFINE n == at - Len(Blocks)
             m == 1 - Len(B)
  <2>2. Over(corpus, parsed, at) /\ Over(corpus, parsed, n)
    BY <2>1, <1>1 DEF Over
  <2>3. Begun(m) /\ Begun(at') /\ Ready(corpus, Append(parsed, path))
    BY <1>4, <1>9, <1>11 DEF Q, Begun
  <2> HIDE DEF n, m
  <2>4. Ready(corpus, parsed)
    BY <1>1
  <2>5. /\ PlacesTo(corpus, Q, at') = PlacesTo(corpus, parsed, at)
        /\ Alike(corpus, parsed, Q, PlacesTo(corpus, parsed, at))
        /\ PlacesTo(corpus, Q, m) = PlacesTo(corpus, parsed, n)
        /\ Alike(corpus, parsed, Q, PlacesTo(corpus, parsed, n))
    BY ONLY <2>2, <2>3, <2>4, PlacesKept DEF Q
  <2>6. StreamPlaces' = PlacesTo(corpus, Q, at') /\ SchedulePlaces' = PlacesTo(corpus, Q, m)
    BY <1>2, <1>4, <1>11 DEF StreamPlaces, SchedulePlaces, m
  <2> QED BY <2>5, <2>6 DEF StreamPlaces, SchedulePlaces, n, Alike
<1>16. StreamsListed'
  <2>1. Listed(corpus, Q, StreamPlaces, merged.streams)
    BY <1>15, ListedKept DEF StreamsListed
  <2> QED BY <2>1, <1>2, <1>4, <1>5, <1>15 DEF StreamsListed
<1>17. SchedulesListed'
  <2>1. Listed(corpus, Q, SchedulePlaces, merged.schedules)
    BY <1>15, ListedKept DEF SchedulesListed
  <2> QED BY <2>1, <1>2, <1>4, <1>5, <1>15 DEF SchedulesListed
<1>18. ProvenanceExact'
  <2> DEFINE R == DeclaredIn(corpus, parsed, StreamPlaces, SchedulePlaces)
  <2>1. DeclaredIn(corpus, Q, StreamPlaces, SchedulePlaces) = R \cup (NamesIn(unit) \X {path})
    <3> DEFINE S == StreamPlaces
               E == SchedulePlaces
    <3> HIDE DEF S, E
    <3>1. Alike(corpus, parsed, Append(parsed, path), S \cup E)
      BY <1>15 DEF Q, S, E, Alike
    <3>2. IsSeq(parsed)
      BY <1>1 DEF Ready
    <3>3. DeclaredIn(corpus, Append(parsed, path), S, E)
            = DeclaredIn(corpus, parsed, S, E) \cup (NamesIn(corpus[path].unit) \X {path})
      BY ONLY <3>1, <3>2, NamesDeclared
    <3> QED BY <3>3, <1>6 DEF Q, S, E
  <2>2. ProvIs(prov, R) /\ \A r \in R : r = <<r[1], r[2]>>
    BY DeclaredAre DEF ProvenanceExact
  <2> HIDE DEF R
  <2>3. ProvIs(Bumped(prov, NamesIn(unit), path), R \cup (NamesIn(unit) \X {path}))
    BY <2>2, ProvGrows
  <2> QED BY <2>1, <2>3, <1>2, <1>4, <1>15 DEF ProvenanceExact
<1>19. WarningsExact'
  <2>1. Warns(corpus, Q, StreamPlaces, merged.streams, warnings)
    BY <1>15, WarnsKept DEF WarningsExact
  <2> QED BY <2>1, <1>2, <1>4, <1>5, <1>15 DEF WarningsExact
<1>20. AnswerDrawn'
  BY <1>2 DEF AnswerDrawn
<1> QED BY <1>12, <1>13, <1>14, <1>16, <1>17, <1>18, <1>19, <1>20

\* A stream is merged: the blocks at the stream places are one more.
LEMMA StreamStep ==
  ASSUME IInv, MergeStream
  PROVE  IInv'
<1> USE DEF IInv
<1>1. /\ Ready(corpus, parsed) /\ parsed # <<>>
      /\ Blocks = BlocksOf(corpus, parsed, Len(parsed)) /\ Current = parsed[Len(parsed)]
      /\ Len(Blocks) \in Nat /\ DOMAIN Blocks = 1..Len(Blocks)
      /\ at \in Nat /\ at >= 1 /\ at <= Len(Blocks)
  BY TypeFacts DEF MergeStream, Merging, Current
<1>2. /\ pc = "parsed" /\ at' = at + 1
      /\ corpus' = corpus /\ req' = req /\ parsed' = parsed /\ pc' = pc /\ answer' = answer
      /\ Blocks' = Blocks
  BY DEF MergeStream, Blocks, Current, Unit
<1> DEFINE s == Blocks[at]
           e == <<Len(parsed), at>>
           D == StreamPlaces
           E == SchedulePlaces
<1>3. /\ merged' = [merged EXCEPT !.streams = WithBlock(@, s)]
      /\ prov' = Bumped(prov, {StreamNode(StreamId(s))} \cup JobNodes(s), Current)
      /\ warnings' = Warned(warnings, Clashing(merged.streams, s), Current)
  BY DEF MergeStream
<1>4. /\ merged'.workstations = merged.workstations /\ merged'.calendars = merged.calendars
      /\ merged'.prompts = merged.prompts /\ merged'.resources = merged.resources
      /\ merged'.rules = merged.rules /\ merged'.schedules = merged.schedules
      /\ merged'.streams = WithBlock(merged.streams, s)
      /\ merged' = [workstations |-> merged'.workstations, calendars |-> merged'.calendars,
                    prompts |-> merged'.prompts, resources |-> merged'.resources,
                    rules |-> merged'.rules, streams |-> merged'.streams,
                    schedules |-> merged'.schedules]
  <2> HIDE DEF s
  <2>1. merged = [workstations |-> merged.workstations, calendars |-> merged.calendars,
               prompts |-> merged.prompts, resources |-> merged.resources,
               rules |-> merged.rules, streams |-> merged.streams,
               schedules |-> merged.schedules]
    BY DEF Types
  <2> QED BY ONLY <1>3, <2>1
<1>5. at \in DOMAIN BlocksOf(corpus, parsed, Len(parsed))
  BY <1>1
<1>6. /\ PlacesTo(corpus, parsed, at + 1) = D \cup {e}
      /\ BlockAt(corpus, parsed, e) = s
      /\ e \in PlacesTo(corpus, parsed, at + 1)
      /\ \A d \in D : Precedes(d, e) /\ OwnJobs(BlockAt(corpus, parsed, d))
  BY <1>1, <1>5, PlacesStep DEF StreamPlaces
<1>7. StreamPlaces' = D \cup {e}
  BY <1>2, <1>6 DEF StreamPlaces
<1>8. SchedulePlaces' = E
  <2> DEFINE n == at - Len(Blocks)
             m == at' - Len(Blocks)
  <2>1. \A i \in DOMAIN BlocksOf(corpus, parsed, Len(parsed)) : i < n <=> i < m
    BY <1>1, <1>2
  <2>2. SchedulePlaces' = PlacesTo(corpus, parsed, m)
    BY <1>2 DEF SchedulePlaces
  <2> HIDE DEF n, m
  <2>3. PlacesTo(corpus, parsed, n) = PlacesTo(corpus, parsed, m)
    BY <1>1, <2>1, PlacesSame
  <2> QED BY <2>2, <2>3 DEF SchedulePlaces, n
<1>9. Placed(corpus, parsed, D \cup {e})
  BY <1>1, <1>6, PlacesPlaced
<1>10. OwnJobs(BlockAt(corpus, parsed, e))
  BY <1>9 DEF Placed
<1>11. e[1] = Len(parsed) /\ parsed[e[1]] = Current
  BY <1>1
<1> HIDE DEF s, e, D, E
<1>12. Types'
  <2>1. at' \in Nat \ {0} /\ at' <= 2 * Len(Blocks) + 1
    BY <1>1, <1>2
  <2> QED BY <1>1, <1>2, <1>4, <2>1 DEF Types
<1>13. InTurn'
  BY <1>2 DEF InTurn
<1>14. NamesMerged'
  <2>1. NamesIn(merged') = NamesIn(merged)
    BY <1>4, NamesAlike
  <2>2. NamesIn(merged)' = NamesIn(merged')
    BY DEF NamesIn, Labelled
  <2> QED BY <2>1, <2>2, <1>2 DEF NamesMerged, Unit
<1>15. StreamsListed'
  <2>1. Listed(corpus, parsed, D, merged.streams)
    BY DEF StreamsListed, D
  <2>2. Listed(corpus, parsed, D \cup {e}, WithBlock(merged.streams, BlockAt(corpus, parsed, e)))
    BY <2>1, <1>6, <1>10, ListedGrows
  <2> QED BY <2>2, <1>2, <1>4, <1>6, <1>7 DEF StreamsListed
<1>16. SchedulesListed'
  BY <1>2, <1>4, <1>8 DEF SchedulesListed, E
<1>17. ProvenanceExact'
  <2> DEFINE R == DeclaredIn(corpus, parsed, D, E)
  <2>1. DeclaredIn(corpus, parsed, D \cup {e}, E) = R \cup (AsStream(s) \X {Current})
    <3>1. StreamAdds(corpus, parsed, D, E, e)
      BY BlockDeclared
    <3> QED BY <3>1, <1>6, <1>11 DEF ByStream, StreamAdds
  <2>2. ProvIs(prov, R) /\ \A r \in R : r = <<r[1], r[2]>>
    BY DeclaredAre DEF ProvenanceExact, D, E
  <2> HIDE DEF R
  <2>3. ProvIs(Bumped(prov, AsStream(s), Current), R \cup (AsStream(s) \X {Current}))
    BY <2>2, ProvGrows
  <2>4. prov' = Bumped(prov, AsStream(s), Current)
    BY <1>3 DEF AsStream
  <2> QED BY <2>1, <2>3, <2>4, <1>2, <1>7, <1>8 DEF ProvenanceExact
<1>18. WarningsExact'
  <2>1. Listed(corpus, parsed, D, merged.streams) /\ Warns(corpus, parsed, D, merged.streams, warnings)
    BY DEF StreamsListed, WarningsExact, D
  <2>2. Warns(corpus, parsed, D \cup {e}, WithBlock(merged.streams, BlockAt(corpus, parsed, e)),
              Warned(warnings, Clashing(merged.streams, BlockAt(corpus, parsed, e)), parsed[e[1]]))
    BY <2>1, <1>6, <1>9, WarnsGrow
  <2> QED BY <2>2, <1>2, <1>3, <1>4, <1>6, <1>7, <1>11 DEF WarningsExact
<1>19. AnswerDrawn'
  BY <1>2 DEF AnswerDrawn
<1> QED BY <1>12, <1>13, <1>14, <1>15, <1>16, <1>17, <1>18, <1>19

\* A schedule is merged: it is of a block that is merged as a stream already.
LEMMA ScheduleStep ==
  ASSUME IInv, MergeSchedule
  PROVE  IInv'
<1> USE DEF IInv
<1>1. /\ Ready(corpus, parsed) /\ parsed # <<>>
      /\ Blocks = BlocksOf(corpus, parsed, Len(parsed)) /\ Current = parsed[Len(parsed)]
      /\ Len(Blocks) \in Nat /\ DOMAIN Blocks = 1..Len(Blocks)
      /\ at \in Nat /\ at > Len(Blocks) /\ at <= 2 * Len(Blocks)
      /\ Len(parsed) \in 1..Len(parsed)
  BY TypeFacts DEF MergeSchedule, Merging, Current
<1>2. /\ pc = "parsed" /\ at' = at + 1
      /\ corpus' = corpus /\ req' = req /\ parsed' = parsed /\ pc' = pc /\ answer' = answer
      /\ Blocks' = Blocks
  BY DEF MergeSchedule, Blocks, Current, Unit
<1> DEFINE n == at - Len(Blocks)
           s == Blocks[n]
           e == <<Len(parsed), n>>
           D == StreamPlaces
           E == SchedulePlaces
<1>3. /\ merged' = [merged EXCEPT !.schedules = WithBlock(@, s)]
      /\ prov' = Bumped(prov, {ScheduleNode(StreamId(s))} \cup JobNodes(s), Current)
      /\ warnings' = Warned(warnings, Clashing(merged.schedules, s), Current)
  BY DEF MergeSchedule
<1>4. /\ merged'.workstations = merged.workstations /\ merged'.calendars = merged.calendars
      /\ merged'.prompts = merged.prompts /\ merged'.resources = merged.resources
      /\ merged'.rules = merged.rules /\ merged'.streams = merged.streams
      /\ merged'.schedules = WithBlock(merged.schedules, s)
      /\ merged' = [workstations |-> merged'.workstations, calendars |-> merged'.calendars,
                    prompts |-> merged'.prompts, resources |-> merged'.resources,
                    rules |-> merged'.rules, streams |-> merged'.streams,
                    schedules |-> merged'.schedules]
  <2> HIDE DEF s
  <2>1. merged = [workstations |-> merged.workstations, calendars |-> merged.calendars,
               prompts |-> merged.prompts, resources |-> merged.resources,
               rules |-> merged.rules, streams |-> merged.streams,
               schedules |-> merged.schedules]
    BY DEF Types
  <2> QED BY ONLY <1>3, <2>1
<1>5. n \in DOMAIN BlocksOf(corpus, parsed, Len(parsed)) /\ n \in Nat
  BY <1>1
<1>6. at' - Len(Blocks) = n + 1
  BY <1>1, <1>2
<1> HIDE DEF n
<1>7. /\ PlacesTo(corpus, parsed, n + 1) = E \cup {e}
      /\ BlockAt(corpus, parsed, e) = s
      /\ e \in PlacesTo(corpus, parsed, n + 1)
      /\ \A d \in E : Precedes(d, e) /\ OwnJobs(BlockAt(corpus, parsed, d))
  <2>1. SchedulePlaces = PlacesTo(corpus, parsed, n)
    BY DEF SchedulePlaces, n
  <2> QED BY <2>1, <1>1, <1>5, PlacesStep
<1>8. SchedulePlaces' = E \cup {e}
  BY <1>2, <1>6, <1>7 DEF SchedulePlaces
<1>9. StreamPlaces' = D /\ e \in D
  <2>1. \A i \in DOMAIN BlocksOf(corpus, parsed, Len(parsed)) : i < at <=> i < at'
    BY <1>1, <1>2
  <2>2. StreamPlaces' = PlacesTo(corpus, parsed, at')
    BY <1>2 DEF StreamPlaces
  <2>3. PlacesTo(corpus, parsed, at) = PlacesTo(corpus, parsed, at')
    BY <1>1, <2>1, PlacesSame
  <2>4. n < at
    BY <1>1, <1>5
  <2>5. e \in PlacesTo(corpus, parsed, at)
    BY <1>1, <1>5, <2>4, PlacesAre
  <2> QED BY <2>2, <2>3, <2>5 DEF StreamPlaces
<1>10. Placed(corpus, parsed, D) /\ OwnJobs(BlockAt(corpus, parsed, e))
  <2>1. Placed(corpus, parsed, D)
    BY <1>1, PlacesPlaced DEF StreamPlaces
  <2> QED BY <2>1, <1>9 DEF Placed
<1>11. e[1] = Len(parsed) /\ parsed[e[1]] = Current
  BY <1>1
<1>12. Leading(D, E)
  BY SchedulesBehind
<1> HIDE DEF s, e, D, E
<1>13. Types'
  <2>1. at' \in Nat \ {0} /\ at' <= 2 * Len(Blocks) + 1
    BY <1>1, <1>2
  <2> QED BY <1>1, <1>2, <1>4, <2>1 DEF Types
<1>14. InTurn'
  BY <1>2 DEF InTurn
<1>15. NamesMerged'
  <2>1. NamesIn(merged') = NamesIn(merged)
    BY <1>4, NamesAlike
  <2>2. NamesIn(merged)' = NamesIn(merged')
    BY DEF NamesIn, Labelled
  <2> QED BY <2>1, <2>2, <1>2 DEF NamesMerged, Unit
<1>16. StreamsListed'
  BY <1>2, <1>4, <1>9 DEF StreamsListed, D
<1>17. SchedulesListed'
  <2>1. Listed(corpus, parsed, E, merged.schedules)
    BY DEF SchedulesListed, E
  <2>2. Listed(corpus, parsed, E \cup {e}, WithBlock(merged.schedules, BlockAt(corpus, parsed, e)))
    BY <2>1, <1>7, <1>10, ListedGrows
  <2> QED BY <2>2, <1>2, <1>4, <1>7, <1>8 DEF SchedulesListed
<1>18. ProvenanceExact'
  <2> DEFINE R == DeclaredIn(corpus, parsed, D, E)
  <2>1. DeclaredIn(corpus, parsed, D, E \cup {e}) = R \cup (AsSchedule(s) \X {Current})
    <3>1. ScheduleAdds(corpus, parsed, D, E, e)
      BY BlockDeclared
    <3> QED BY <3>1, <1>7, <1>11 DEF BySchedule, ScheduleAdds
  <2>2. ProvIs(prov, R) /\ \A r \in R : r = <<r[1], r[2]>>
    BY DeclaredAre DEF ProvenanceExact, D, E
  <2> HIDE DEF R
  <2>3. ProvIs(Bumped(prov, AsSchedule(s), Current), R \cup (AsSchedule(s) \X {Current}))
    BY <2>2, ProvGrows
  <2>4. prov' = Bumped(prov, AsSchedule(s), Current)
    BY <1>3 DEF AsSchedule
  <2> QED BY <2>1, <2>3, <2>4, <1>2, <1>8, <1>9 DEF ProvenanceExact
<1>19. WarningsExact'
  <2>1. /\ Listed(corpus, parsed, D, merged.streams) /\ Warns(corpus, parsed, D, merged.streams, warnings)
        /\ Listed(corpus, parsed, E, merged.schedules)
    BY DEF StreamsListed, SchedulesListed, WarningsExact, D, E
  <2>2. Warns(corpus, parsed, D, merged.streams,
              Warned(warnings, Clashing(merged.schedules, BlockAt(corpus, parsed, e)), parsed[e[1]]))
    BY <2>1, <1>9, <1>10, <1>12, WarnsAgain
  <2> QED BY <2>2, <1>2, <1>3, <1>4, <1>7, <1>9, <1>11 DEF WarningsExact
<1>20. AnswerDrawn'
  BY <1>2 DEF AnswerDrawn
<1> QED BY <1>13, <1>14, <1>15, <1>16, <1>17, <1>18, <1>19, <1>20

\* The other steps leave the merged unit alone, and an answer is given once.
LEMMA OtherSteps ==
  ASSUME IInv, ParseFiles \/ Respond \/ UNCHANGED vars
  PROVE  IInv'
<1> USE DEF IInv
<1>1. corpus' = corpus /\ req' = req /\ parsed' = parsed /\ at' = at /\ merged' = merged
      /\ prov' = prov /\ warnings' = warnings
  BY DEF ParseFiles, Respond, vars
<1>2. Types' /\ InTurn' /\ NamesMerged'
  <2>1. Types'
    BY <1>1 DEF Types, Blocks, Current, Unit
  <2>2. InTurn'
    BY <1>1 DEF InTurn
  <2>3. NamesMerged'
    BY <1>1 DEF NamesMerged, Unit
  <2> QED BY <2>1, <2>2, <2>3
<1>3. /\ StreamPlaces' = StreamPlaces /\ SchedulePlaces' = SchedulePlaces
  BY <1>1 DEF StreamPlaces, SchedulePlaces, Blocks, Current, Unit
<1>4. StreamsListed' /\ SchedulesListed' /\ ProvenanceExact' /\ WarningsExact'
  BY <1>1, <1>3 DEF StreamsListed, SchedulesListed, ProvenanceExact, WarningsExact
<1>5. Merging' = Merging /\ Complete' = Complete
  BY <1>1 DEF Merging, Complete, Blocks, Current, Unit
<1>6. AnswerDrawn'
  <2>1. CASE ParseFiles
    BY <2>1 DEF ParseFiles, AnswerDrawn
  <2>2. CASE Respond
    <3>1. Complete
      BY <2>2 DEF Respond, Complete
    <3>2. Report' = Report
      BY <1>1 DEF Report, Overall, FileStatus, ErrorsIn, SchedulesFrom, JobsFrom, From, NodeEdges, Apart
    <3>3. \/ answer' = [status |-> "422"] \/ answer' = Report \/ answer' = [status |-> "500"]
      BY <2>2 DEF Respond
    <3>4. \/ answer'.status \in {"400", "422", "500"} \/ answer' = Report
      BY <3>3
    <3> QED BY <3>1, <3>2, <3>4, <1>5 DEF AnswerDrawn
  <2>3. CASE UNCHANGED vars
    <3>1. Report' = Report
      BY <1>1 DEF Report, Overall, FileStatus, ErrorsIn, SchedulesFrom, JobsFrom, From, NodeEdges, Apart
    <3> QED BY <2>3, <3>1, <1>5 DEF AnswerDrawn, vars
  <2> QED BY <2>1, <2>2, <2>3
<1> QED BY <1>2, <1>4, <1>6

\* In every reachable state the merged unit, the provenance and the warnings are of the
\* blocks that have been merged.
THEOREM Inductive == Spec => []IInv
<1>1. Init => IInv
  BY InitInvariant
<1>2. IInv /\ [Next]_vars => IInv'
  <2> SUFFICES ASSUME IInv, [Next]_vars PROVE IInv'
    OBVIOUS
  <2> QED BY NamesStep, StreamStep, ScheduleStep, OtherSteps DEF Next
<1> QED BY <1>1, <1>2, PTL DEF Spec

-----------------------------------------------------------------------------
(* What the report says, once every block has been merged.                 *)

\* The places D are those of all blocks of all files.
AllBlocks(D) ==
  /\ \A d \in D : /\ parsed[d[1]] \in Files
                  /\ BlockAt(corpus, parsed, d) \in Streams(Unit(parsed[d[1]]))
  /\ \A p \in Files : \A s \in Streams(Unit(p)) :
       \E d \in D : parsed[d[1]] = p /\ BlockAt(corpus, parsed, d) = s

\* When the answer is given, all blocks have been merged as streams and as schedules.
LEMMA Finished ==
  ASSUME IInv, Reported
  PROVE  /\ answer = Report /\ ToSet(parsed) = Files
         /\ SchedulePlaces = StreamPlaces /\ AllBlocks(StreamPlaces)
<1>1. answer = Report /\ ToSet(parsed) = Files /\ ~ Merging
  BY DEF IInv, AnswerDrawn, Reported, Complete, Files
<1>2. Ready(corpus, parsed)
  BY TypeFacts DEF IInv
<1>3. Len(parsed) \in Nat /\ DOMAIN parsed = 1..Len(parsed)
  BY <1>2, Elements DEF Ready
<1>4. parsed # <<>> => /\ Len(parsed) \in 1..Len(parsed) /\ Len(Blocks) \in Nat
                       /\ Blocks = BlocksOf(corpus, parsed, Len(parsed))
                       /\ DOMAIN Blocks = 1..Len(Blocks)
                       /\ at \in Nat /\ at > 2 * Len(Blocks)
  BY <1>1, TypeFacts DEF IInv, Merging
<1>5. parsed # <<>> => \A i \in DOMAIN BlocksOf(corpus, parsed, Len(parsed)) :
                         i < at /\ i < at - Len(Blocks)
  BY <1>4
<1>6. SchedulePlaces = StreamPlaces
  <2> DEFINE n == at
             m == at - Len(Blocks)
  <2>1. parsed # <<>> => \A i \in DOMAIN BlocksOf(corpus, parsed, Len(parsed)) : i < n <=> i < m
    BY <1>5
  <2> HIDE DEF n, m
  <2>2. PlacesTo(corpus, parsed, n) = PlacesTo(corpus, parsed, m)
    BY <1>2, <2>1, PlacesSame
  <2> QED BY <2>2 DEF StreamPlaces, SchedulePlaces, n, m
<1>7. ASSUME NEW d \in StreamPlaces
      PROVE  parsed[d[1]] \in Files /\ BlockAt(corpus, parsed, d) \in Streams(Unit(parsed[d[1]]))
  BY <1>1, <1>2, <1>7, PlaceHas DEF StreamPlaces, Unit
<1>8. ASSUME NEW p \in Files, NEW s \in Streams(Unit(p))
      PROVE  \E d \in StreamPlaces : parsed[d[1]] = p /\ BlockAt(corpus, parsed, d) = s
  <2>1. PICK k \in 1..Len(parsed) : parsed[k] = p
    BY <1>1, <1>2, <1>3, Elements DEF Ready
  <2>2. PICK i \in DOMAIN BlocksOf(corpus, parsed, k) : BlocksOf(corpus, parsed, k)[i] = s
    BY <2>1 DEF Streams, ToSet, BlocksOf, Unit
  <2>3. k < Len(parsed) \/ (k = Len(parsed) /\ parsed # <<>>)
    <3>1. Len(<<>>) = 0
      OBVIOUS
    <3>2. \A n \in Nat : k \in 1..n => (k < n \/ k = n) /\ n # 0
      OBVIOUS
    <3>3. (k < Len(parsed) \/ k = Len(parsed)) /\ Len(parsed) # 0
      BY <1>3, <3>2
    <3> QED BY <3>1, <3>3
  <2>4. k < Len(parsed) \/ i < at
    BY <2>3, <1>5
  <2>5. <<k, i>> \in StreamPlaces
    BY <2>4, PlacesAre DEF StreamPlaces
  <2> DEFINE d == <<k, i>>
  <2>6. parsed[d[1]] = p /\ BlockAt(corpus, parsed, d) = s
    BY <2>1, <2>2 DEF BlockAt
  <2> QED BY <2>5, <2>6
<1>9. AllBlocks(StreamPlaces)
  BY <1>7, <1>8 DEF AllBlocks
<1> QED BY <1>1, <1>6, <1>9

\* The entities of a unit: its names, and a stream, a schedule and jobs for each block.
LEMMA EntitiesAre ==
  ASSUME NEW u, NEW e
  PROVE  e \in EntitiesIn(u) <=>
           \/ e \in NamesIn(u)
           \/ \E s \in Streams(u) : e \in AsStream(s)
           \/ \E s \in Streams(u) : e \in AsSchedule(s)
<1>1. e \in {StreamNode(StreamId(s)) : s \in Streams(u)} <=>
        \E s \in Streams(u) : e = StreamNode(StreamId(s))
  OBVIOUS
<1>2. e \in {ScheduleNode(StreamId(s)) : s \in Streams(u)} <=>
        \E s \in Streams(u) : e = ScheduleNode(StreamId(s))
  OBVIOUS
<1>3. e \in {JobNode(JobId(j)) : j \in Jobs(u)} <=>
        \E s \in Streams(u) : e \in JobNodes(s)
  BY DEF Jobs, JobNodes
<1>4. \A s : /\ e \in AsStream(s) <=> e = StreamNode(StreamId(s)) \/ e \in JobNodes(s)
             /\ e \in AsSchedule(s) <=> e = ScheduleNode(StreamId(s)) \/ e \in JobNodes(s)
  BY DEF AsStream, AsSchedule
<1> QED BY <1>1, <1>2, <1>3, <1>4 DEF EntitiesIn

\* An entity has been declared by a path if the file there has it.
Having(e) == {p \in Files : e \in EntitiesIn(Unit(p))}
LEMMA DeclaredByAll ==
  ASSUME IInv, Reported, NEW e, NEW p
  PROVE  <<e, p>> \in DeclaredIn(corpus, parsed, StreamPlaces, SchedulePlaces) <=> p \in Having(e)
<1> DEFINE r == <<e, p>>
           D == StreamPlaces
<1>1. /\ ToSet(parsed) = Files /\ SchedulePlaces = D /\ AllBlocks(D)
  BY Finished
<1>2. r \in DeclaredIn(corpus, parsed, D, D) <=>
        \/ \E q \in Files : Named1(corpus, r, q)
        \/ \E d \in D : Stream1(corpus, parsed, r, d)
        \/ \E d \in D : Schedule1(corpus, parsed, r, d)
  BY <1>1, DeclaredAre
<1>3. \A q : Named1(corpus, r, q) <=> q = p /\ e \in NamesIn(Unit(q))
  BY DEF Named1, Unit
<1>4. \A d : /\ Stream1(corpus, parsed, r, d) <=>
                  parsed[d[1]] = p /\ e \in AsStream(BlockAt(corpus, parsed, d))
             /\ Schedule1(corpus, parsed, r, d) <=>
                  parsed[d[1]] = p /\ e \in AsSchedule(BlockAt(corpus, parsed, d))
  BY DEF Stream1, Schedule1, ByStream, BySchedule
<1> HIDE DEF r, D
<1>5. (\E d \in D : Stream1(corpus, parsed, r, d)) <=>
         p \in Files /\ \E s \in Streams(Unit(p)) : e \in AsStream(s)
  BY <1>1, <1>4 DEF AllBlocks
<1>6. (\E d \in D : Schedule1(corpus, parsed, r, d)) <=>
         p \in Files /\ \E s \in Streams(Unit(p)) : e \in AsSchedule(s)
  BY <1>1, <1>4 DEF AllBlocks
<1>7. p \in Having(e) <=> p \in Files /\ e \in EntitiesIn(Unit(p))
  BY DEF Having
<1> QED BY <1>1, <1>2, <1>3, <1>5, <1>6, <1>7, EntitiesAre DEF r, D

\* As many entries as elements, if there are no repetitions.
LEMMA Lengths ==
  ASSUME NEW s, IsSeq(s), IsInjective(s)
  PROVE  /\ Cardinality(ToSet(s)) = Len(s)
         /\ \A x : s = <<x>> <=> ToSet(s) = {x}
<1>1. Len(s) \in Nat /\ DOMAIN s = 1..Len(s)
  BY Elements
<1>2. IsFiniteSet(1..Len(s)) /\ Cardinality(1..Len(s)) = Len(s)
  <2> DEFINE n == Len(s)
  <2>1. n \in Nat
    BY <1>1
  <2> HIDE DEF n
  <2>2. IsFiniteSet(1..n) /\ Cardinality(1..n) = n
    BY <2>1, FS_Interval
  <2> QED BY <2>2 DEF n
<1>3. s \in [1..Len(s) -> ToSet(s)]
  BY <1>1 DEF IsSeq, ToSet
<1>4. s \in Bijection(1..Len(s), ToSet(s))
  BY <1>1, <1>3 DEF Bijection, Injection, Surjection, ToSet, IsInjective
<1>5. Cardinality(ToSet(s)) = Len(s)
  BY <1>2, <1>4, FS_Bijection DEF ExistsBijection
<1>6. ASSUME NEW x, s = <<x>> PROVE ToSet(s) = {x}
  BY <1>6 DEF ToSet
<1>7. ASSUME NEW x, ToSet(s) = {x} PROVE s = <<x>>
  <2>1. Len(s) = 1
    BY <1>5, <1>7, FS_Singleton
  <2>2. s[1] = x /\ s \in Seq({x})
    BY <1>7, <2>1, <1>1 DEF IsSeq, ToSet
  <2> QED BY <2>1, <2>2
<1> QED BY <1>5, <1>6, <1>7

\* The provenance has every entity of the files, with the files that have it.
LEMMA ProvenanceWhole ==
  ASSUME IInv, Reported
  PROVE  /\ \A e : e \in DOMAIN prov <=> \E p \in Files : e \in EntitiesIn(Unit(p))
         /\ \A e \in DOMAIN prov : /\ ToSet(prov[e]) = Having(e)
                                   /\ Len(prov[e]) = Cardinality(Having(e))
                                   /\ \A p : prov[e] = <<p>> <=> Having(e) = {p}
<1> DEFINE R == DeclaredIn(corpus, parsed, StreamPlaces, SchedulePlaces)
<1>1. ProvIs(prov, R)
  BY DEF IInv, ProvenanceExact
<1>2. \A r \in R : r = <<r[1], r[2]>>
  BY DeclaredAre
<1>3. \A e, p : <<e, p>> \in R <=> p \in Having(e)
  BY DeclaredByAll
<1> HIDE DEF R
<1>4. \A e : e \in DOMAIN prov <=> \E p : p \in Having(e)
  <2> SUFFICES ASSUME NEW e PROVE e \in DOMAIN prov <=> \E p : p \in Having(e)
    OBVIOUS
  <2>1. e \in DOMAIN prov <=> \E r \in R : e = r[1]
    BY <1>1 DEF ProvIs
  <2>2. (\E r \in R : e = r[1]) <=> \E p : <<e, p>> \in R
    BY <1>2
  <2> QED BY <2>1, <2>2, <1>3
<1>5. \A e : (\E p : p \in Having(e)) <=> \E p \in Files : e \in EntitiesIn(Unit(p))
  BY DEF Having
<1>6. ASSUME NEW e \in DOMAIN prov
      PROVE  /\ ToSet(prov[e]) = Having(e)
             /\ Len(prov[e]) = Cardinality(Having(e))
             /\ \A p : prov[e] = <<p>> <=> Having(e) = {p}
  <2>1. /\ IsSeq(prov[e]) /\ IsInjective(prov[e])
        /\ ToSet(prov[e]) = {f \in {r[2] : r \in R} : <<e, f>> \in R}
    BY <1>1 DEF ProvIs
  <2>2. \A f : <<e, f>> \in R => f \in {r[2] : r \in R}
    OBVIOUS
  <2>3. ToSet(prov[e]) = Having(e)
    BY <2>1, <2>2, <1>3
  <2> QED BY <2>1, <2>3, Lengths
<1> QED BY <1>4, <1>5, <1>6

\* The merged unit has a block for each block of a file, and nothing that no file has.
FromBlock(s) == \E p \in Files : \E o \in Streams(Unit(p)) :
                  s.ws = o.ws /\ s.name = o.name /\ s.follows = o.follows
IntoBlock(o) == \E s \in Streams(merged) : /\ StreamId(s) = StreamId(o)
                                           /\ \A j \in o.jobs : \E k \in s.jobs : JobId(k) = JobId(j)
LEMMA MergedHas ==
  ASSUME IInv, Reported
  PROVE  /\ \A s \in Streams(merged) : FromBlock(s)
         /\ \A s \in Streams(merged) : \A j \in s.jobs :
              /\ <<j.ws, j.stream>> = StreamId(s)
              /\ \E d \in StreamPlaces : IsFirst(corpus, parsed, StreamPlaces, j, d)
         /\ \A p \in Files : \A o \in Streams(Unit(p)) : IntoBlock(o)
<1> DEFINE D == StreamPlaces
<1>1. /\ \A i \in DOMAIN merged.streams : Made(corpus, parsed, D, merged.streams[i])
      /\ \A d \in D : Covers(merged.streams, BlockAt(corpus, parsed, d))
  BY DEF IInv, StreamsListed, Listed
<1>2. AllBlocks(D)
  BY Finished
<1>3. \A s : s \in Streams(merged) <=> \E i \in DOMAIN merged.streams : merged.streams[i] = s
  BY DEF Streams, ToSet
<1>4. \A s \in Streams(merged) : Made(corpus, parsed, D, s)
  BY <1>1, <1>3
<1> HIDE DEF D
<1>5. ASSUME NEW s \in Streams(merged) PROVE FromBlock(s)
  BY <1>2, <1>4, <1>5 DEF Made, AllBlocks, FromBlock
<1>6. ASSUME NEW p \in Files, NEW o \in Streams(Unit(p)) PROVE IntoBlock(o)
  <2>1. PICK d \in D : BlockAt(corpus, parsed, d) = o
    BY <1>2, <1>6 DEF AllBlocks
  <2>2. Covers(merged.streams, o)
    BY <1>1, <2>1
  <2> QED BY <1>3, <2>2 DEF Covers, IntoBlock
<1> QED BY <1>4, <1>5, <1>6 DEF Made, D

\* A job of the merged unit is one of a file, and each job of a file is among them.
LEMMA MergedJobs ==
  ASSUME IInv, Reported
  PROVE  /\ \A j \in Jobs(merged) :
              \E d \in StreamPlaces : IsFirst(corpus, parsed, StreamPlaces, j, d)
         /\ \A j \in Jobs(merged) : \E p \in Files : j \in Jobs(Unit(p))
         /\ \A p \in Files : \A j \in Jobs(Unit(p)) : \E k \in Jobs(merged) : JobId(k) = JobId(j)
<1>1. \A j \in Jobs(merged) : \E d \in StreamPlaces : IsFirst(corpus, parsed, StreamPlaces, j, d)
  BY MergedHas DEF Jobs
<1>2. ASSUME NEW j \in Jobs(merged) PROVE \E p \in Files : j \in Jobs(Unit(p))
  <2>1. PICK d \in StreamPlaces : IsFirst(corpus, parsed, StreamPlaces, j, d)
    BY <1>1
  <2>2. j \in BlockAt(corpus, parsed, d).jobs
    BY <2>1 DEF IsFirst
  <2> QED BY <2>2, Finished DEF AllBlocks, Jobs
<1>3. ASSUME NEW p \in Files, NEW j \in Jobs(Unit(p))
      PROVE  \E k \in Jobs(merged) : JobId(k) = JobId(j)
  <2>1. PICK o \in Streams(Unit(p)) : j \in o.jobs
    BY DEF Jobs
  <2>2. IntoBlock(o)
    BY MergedHas
  <2> QED BY <2>1, <2>2 DEF IntoBlock, Jobs
<1> QED BY <1>1, <1>2, <1>3

\* The entities of the merged unit are those of the files.
LEMMA MergedEntities ==
  ASSUME IInv, Reported, NEW e
  PROVE  e \in EntitiesIn(merged) <=> \E p \in Files : e \in EntitiesIn(Unit(p))
<1>1. e \in NamesIn(merged) <=> \E p \in Files : e \in NamesIn(Unit(p))
  BY Finished DEF IInv, NamesMerged
<1>2. ASSUME NEW s \in Streams(merged), e = StreamNode(StreamId(s)) \/ e = ScheduleNode(StreamId(s))
      PROVE  \E p \in Files : e \in EntitiesIn(Unit(p))
  <2>1. PICK p \in Files : \E o \in Streams(Unit(p)) : s.ws = o.ws /\ s.name = o.name
    BY MergedHas DEF FromBlock
  <2>2. PICK o \in Streams(Unit(p)) : s.ws = o.ws /\ s.name = o.name
    BY <2>1
  <2>3. StreamId(s) = StreamId(o)
    BY <2>2 DEF StreamId
  <2> QED BY <1>2, <2>3, EntitiesAre DEF AsStream, AsSchedule
<1>3. ASSUME NEW s \in Streams(merged), e \in JobNodes(s)
      PROVE  \E p \in Files : e \in EntitiesIn(Unit(p))
  <2>1. PICK j \in s.jobs : e = JobNode(JobId(j))
    BY <1>3 DEF JobNodes
  <2>2. j \in Jobs(merged)
    BY DEF Jobs
  <2>3. PICK p \in Files : j \in Jobs(Unit(p))
    BY <2>2, MergedJobs
  <2> QED BY <2>1, <2>3 DEF EntitiesIn
<1>4. ASSUME NEW p \in Files, NEW o \in Streams(Unit(p)), e \in AsStream(o) \/ e \in AsSchedule(o)
      PROVE  e \in EntitiesIn(merged)
  <2>1. PICK s \in Streams(merged) : /\ StreamId(s) = StreamId(o)
                                     /\ \A j \in o.jobs : \E k \in s.jobs : JobId(k) = JobId(j)
    BY MergedHas DEF IntoBlock
  <2>2. JobNodes(o) \subseteq JobNodes(s)
    BY <2>1 DEF JobNodes
  <2>3. e \in AsStream(s) \/ e \in AsSchedule(s)
    BY <1>4, <2>1, <2>2 DEF AsStream, AsSchedule
  <2> QED BY <2>3, EntitiesAre
<1>5. e \in EntitiesIn(merged) => \E p \in Files : e \in EntitiesIn(Unit(p))
  <2>1. ASSUME NEW s \in Streams(merged), e \in AsStream(s) \/ e \in AsSchedule(s)
        PROVE  \E p \in Files : e \in EntitiesIn(Unit(p))
    BY <1>2, <1>3, <2>1 DEF AsStream, AsSchedule
  <2>2. \A p \in Files : e \in NamesIn(Unit(p)) => e \in EntitiesIn(Unit(p))
    BY EntitiesAre
  <2> QED BY <1>1, <2>1, <2>2, EntitiesAre
<1>6. ASSUME NEW p \in Files, e \in EntitiesIn(Unit(p)) PROVE e \in EntitiesIn(merged)
  <2>1. \/ e \in NamesIn(Unit(p))
        \/ \E o \in Streams(Unit(p)) : e \in AsStream(o) \/ e \in AsSchedule(o)
    BY <1>6, EntitiesAre
  <2>2. e \in NamesIn(merged) => e \in EntitiesIn(merged)
    BY EntitiesAre
  <2> QED BY <1>1, <1>4, <2>1, <2>2
<1> QED BY <1>5, <1>6

\* Each job is as the first file that declares it has it.
LEMMA MergedFirst ==
  ASSUME IInv, Reported, NEW j \in Jobs(merged)
  PROVE  j \in FirstWith(JobId(j))
<1> DEFINE D == StreamPlaces
<1>1. /\ AllBlocks(D) /\ ToSet(parsed) = Files
  BY Finished
<1>2. Ready(corpus, parsed) /\ IsInjective(parsed)
  BY TypeFacts DEF IInv, Types
<1>3. DOMAIN parsed = 1..Len(parsed) /\ Len(parsed) \in Nat
  BY <1>2, Elements DEF Ready
<1>4. PICK d \in D : IsFirst(corpus, parsed, D, j, d)
  BY MergedJobs
<1>5. d[1] \in 1..Len(parsed) /\ \A e \in D : e[1] \in 1..Len(parsed)
  BY <1>2, PlaceHas DEF StreamPlaces
<1>6. PICK g \in DOMAIN req.paths :
        /\ parsed[d[1]] = req.paths[g]
        /\ \A h \in 1..(g - 1) : \E l \in 1..(d[1] - 1) : parsed[l] = req.paths[h]
  BY <1>3, <1>5 DEF IInv, InTurn
<1> HIDE DEF D
<1>7. j \in Jobs(Unit(req.paths[g]))
  BY <1>1, <1>4, <1>6 DEF AllBlocks, IsFirst, Jobs
<1>8. ASSUME NEW h \in 1..(g - 1), NEW k \in Jobs(Unit(req.paths[h])), JobId(k) = JobId(j)
      PROVE  FALSE
  <2>1. PICK l \in 1..(d[1] - 1) : parsed[l] = req.paths[h]
    BY <1>6
  <2>2. l \in DOMAIN parsed /\ l < d[1]
    BY <1>3, <1>5
  <2>3. parsed[l] \in Files
    BY <1>1, <2>2 DEF ToSet
  <2>4. PICK o \in Streams(Unit(parsed[l])) : k \in o.jobs
    BY <2>1 DEF Jobs
  <2>5. PICK e \in D : parsed[e[1]] = parsed[l] /\ BlockAt(corpus, parsed, e) = o
    BY <1>1, <2>3 DEF AllBlocks
  <2>6. e[1] = l
    BY <1>2, <1>3, <1>5, <2>2, <2>5 DEF IsInjective
  <2>7. e = d \/ Precedes(d, e)
    BY <1>4, <1>8, <2>4, <2>5 DEF IsFirst
  <2> QED BY <1>5, <2>2, <2>6, <2>7 DEF Precedes
<1> QED BY <1>6, <1>7, <1>8 DEF FirstWith

\* The merged unit has every entity of every file, each job as the first file that
\* declares it has it, and the report says of each entity which files share it.
THEOREM MergedExact == Spec => []MergedIsUnion
<1>1. IInv => MergedIsUnion
  <2> SUFFICES ASSUME IInv, Reported PROVE MergedIsUnion
    BY DEF MergedIsUnion
  <2>1. EntitiesIn(merged) = UNION {EntitiesIn(Unit(p)) : p \in Files}
    BY MergedEntities
  <2>2. \A j \in Jobs(merged) : j \in FirstWith(JobId(j))
    BY MergedFirst
  <2>3. answer = Report /\ ToSet(parsed) = Files
    BY Finished
  <2>4. ASSUME NEW e \in EntitiesIn(merged)
        PROVE  /\ e \in answer.shared <=> Cardinality(Having(e)) >= 2
               /\ \A p \in Files : e \in answer.only[p] <=> Having(e) = {p}
    <3>1. e \in DOMAIN prov
      BY MergedEntities, ProvenanceWhole
    <3>2. /\ Len(prov[e]) = Cardinality(Having(e))
          /\ \A p : prov[e] = <<p>> <=> Having(e) = {p}
      BY <3>1, ProvenanceWhole
    <3>3. answer.shared = {x \in DOMAIN prov : Len(prov[x]) >= 2}
      BY <2>3 DEF Report
    <3>4. \A p \in Files : answer.only[p] = {x \in DOMAIN prov : prov[x] = <<p>>}
      BY <2>3 DEF Report
    <3> QED BY <3>1, <3>2, <3>3, <3>4
  <2> QED BY <2>1, <2>2, <2>4 DEF MergedIsUnion, Having
<1> QED BY <1>1, Inductive, PTL

\* There is one warning for each job a file has otherwise than it was kept.
THEOREM WarningsOnce == Spec => []OneWarningPerDivergence
<1>1. IInv => OneWarningPerDivergence
  <2> SUFFICES ASSUME IInv, Reported PROVE OneWarningPerDivergence
    BY DEF OneWarningPerDivergence
  <2> DEFINE D == StreamPlaces
             W == {w \in [job : {JobId(j) : j \in Jobs(merged)}, path : Files] :
                     \E j \in Jobs(Unit(w.path)), k \in Jobs(merged) :
                       JobId(j) = w.job /\ JobId(k) = w.job /\ j.attrs # k.attrs}
  <2>1. Warns(corpus, parsed, D, merged.streams, warnings)
    BY DEF IInv, WarningsExact
  <2>2. AllBlocks(D)
    BY Finished
  <2>3. \A k : k \in Jobs(merged) <=> \E i \in DOMAIN merged.streams : k \in merged.streams[i].jobs
    BY DEF Jobs, Streams, ToSet
  <2> HIDE DEF D
  <2>4. ASSUME NEW w \in ToSet(warnings) PROVE w \in W
    <3>1. PICK d \in D, i \in DOMAIN merged.streams :
            \E j \in BlockAt(corpus, parsed, d).jobs, k \in merged.streams[i].jobs :
              Differ(j, k) /\ w = [job |-> JobId(k), path |-> parsed[d[1]]]
      BY <2>1, <2>4 DEF Warns
    <3>2. PICK j \in BlockAt(corpus, parsed, d).jobs, k \in merged.streams[i].jobs :
              Differ(j, k) /\ w = [job |-> JobId(k), path |-> parsed[d[1]]]
      BY <3>1
    <3>3. parsed[d[1]] \in Files /\ j \in Jobs(Unit(parsed[d[1]]))
      BY <2>2 DEF AllBlocks, Jobs
    <3>4. k \in Jobs(merged)
      BY <2>3
    <3>5. w \in [job : {JobId(x) : x \in Jobs(merged)}, path : Files]
      BY <3>2, <3>3, <3>4
    <3> QED BY <3>2, <3>3, <3>4, <3>5 DEF Differ
  <2>5. ASSUME NEW w \in W PROVE w \in ToSet(warnings)
    <3>1. w.path \in Files /\ w = [job |-> w.job, path |-> w.path]
      OBVIOUS
    <3>2. PICK j \in Jobs(Unit(w.path)), k \in Jobs(merged) :
            JobId(j) = w.job /\ JobId(k) = w.job /\ j.attrs # k.attrs
      OBVIOUS
    <3>3. PICK o \in Streams(Unit(w.path)) : j \in o.jobs
      BY DEF Jobs
    <3>4. PICK d \in D : parsed[d[1]] = w.path /\ BlockAt(corpus, parsed, d) = o
      BY <2>2, <3>1 DEF AllBlocks
    <3>5. PICK i \in DOMAIN merged.streams : k \in merged.streams[i].jobs
      BY <2>3
    <3>6. j \in BlockAt(corpus, parsed, d).jobs /\ Differ(j, k)
      BY <3>2, <3>3, <3>4 DEF Differ
    <3>7. [job |-> JobId(k), path |-> parsed[d[1]]] \in ToSet(warnings)
      BY <2>1, <3>5, <3>6 DEF Warns
    <3> QED BY <3>1, <3>2, <3>4, <3>7
  <2>6. ToSet(warnings) = W
    BY <2>4, <2>5
  <2>7. IsInjective(warnings)
    BY <2>1 DEF Warns
  <2> QED BY <2>6, <2>7 DEF OneWarningPerDivergence
<1> QED BY <1>1, Inductive, PTL

\* Sequences that are one after the same prefix are one.
LEMMA SamePrefix ==
  ASSUME NEW S, NEW h \in Seq(S), NEW t \in Seq(S), NEW u \in Seq(S), h \o t = h \o u
  PROVE  t = u
<1>1. /\ Len(h) \in Nat /\ Len(t) \in Nat /\ Len(u) \in Nat
      /\ Len(h \o t) = Len(h) + Len(t) /\ Len(h \o u) = Len(h) + Len(u)
  OBVIOUS
<1>2. Len(t) = Len(u)
  BY <1>1
<1>3. ASSUME NEW i \in 1..Len(t) PROVE t[i] = u[i]
  <2>1. (h \o t)[Len(h) + i] = t[i] /\ (h \o u)[Len(h) + i] = u[i]
    BY <1>1, <1>2
  <2> QED BY <2>1
<1> QED BY <1>1, <1>2, <1>3

\* An entity of one kind is none of another, and nodes of two jobs, or of two streams,
\* are two.
LEMMA NodesApart ==
  ASSUME NEW u
  PROVE  /\ \A j, k : JobNode(JobId(j)) = JobNode(JobId(k)) <=> JobId(j) = JobId(k)
         /\ \A s, t : ScheduleNode(StreamId(s)) = ScheduleNode(StreamId(t)) <=> StreamId(s) = StreamId(t)
         /\ \A j : JobNode(JobId(j)) \in EntitiesIn(u) <=> \E k \in Jobs(u) : JobId(k) = JobId(j)
         /\ \A s : ScheduleNode(StreamId(s)) \in EntitiesIn(u)
                     <=> \E t \in Streams(u) : StreamId(t) = StreamId(s)
<1>3. ASSUME NEW j, NEW k, JobNode(JobId(j)) = JobNode(JobId(k)) PROVE JobId(j) = JobId(k)
  <2> DEFINE S == {j.ws, j.stream, j.name, k.ws, k.stream, k.name, "job"}
             h == <<"job">>
             a == JobId(j)
             b == JobId(k)
  <2>1. h \in Seq(S)
    OBVIOUS
  <2>2. a \in Seq(S)
    BY DEF JobId
  <2>3. b \in Seq(S)
    BY DEF JobId
  <2> HIDE DEF S, h, a, b
  <2>4. h \o a = h \o b
    BY <1>3 DEF JobNode, Node, h, a, b
  <2>5. a = b
    BY <2>1, <2>2, <2>3, <2>4, SamePrefix
  <2> QED BY <2>5 DEF a, b
<1>4. ASSUME NEW s, NEW t, ScheduleNode(StreamId(s)) = ScheduleNode(StreamId(t))
      PROVE  StreamId(s) = StreamId(t)
  <2> DEFINE S == {s.ws, s.name, t.ws, t.name, "schedule"}
             h == <<"schedule">>
             a == StreamId(s)
             b == StreamId(t)
  <2>1. h \in Seq(S)
    OBVIOUS
  <2>2. a \in Seq(S)
    BY DEF StreamId
  <2>3. b \in Seq(S)
    BY DEF StreamId
  <2> HIDE DEF S, h, a, b
  <2>4. h \o a = h \o b
    BY <1>4 DEF ScheduleNode, Node, h, a, b
  <2>5. a = b
    BY <2>1, <2>2, <2>3, <2>4, SamePrefix
  <2> QED BY <2>5 DEF a, b
<1>5. /\ \A id : JobNode(id).label = "Job" /\ ScheduleNode(id).label = "Schedule"
                 /\ StreamNode(id).label = "JobStream"
      /\ \A e \in NamesIn(u) :
           e.label \in {"Workstation", "Calendar", "Prompt", "Resource", "EventRule"}
  BY DEF JobNode, ScheduleNode, StreamNode, Node, NamesIn, Labelled, NameNode
<1>6. ASSUME NEW j
      PROVE  JobNode(JobId(j)) \in EntitiesIn(u) <=> \E k \in Jobs(u) : JobId(k) = JobId(j)
  <2>1. JobNode(JobId(j)) \in EntitiesIn(u) <=> JobNode(JobId(j)) \in {JobNode(JobId(k)) : k \in Jobs(u)}
    BY <1>5 DEF EntitiesIn
  <2> QED BY <1>3, <2>1
<1>7. ASSUME NEW s
      PROVE  ScheduleNode(StreamId(s)) \in EntitiesIn(u) <=> \E t \in Streams(u) : StreamId(t) = StreamId(s)
  <2>1. ScheduleNode(StreamId(s)) \in EntitiesIn(u)
          <=> ScheduleNode(StreamId(s)) \in {ScheduleNode(StreamId(t)) : t \in Streams(u)}
    BY <1>5 DEF EntitiesIn
  <2> QED BY <1>4, <2>1
<1> QED BY <1>3, <1>4, <1>6, <1>7

\* A file has finitely many jobs.
LEMMA JobsFinite ==
  ASSUME NEW c \in Corpora, NEW p \in DOMAIN c
  PROVE  IsFiniteSet(Jobs(c[p].unit)) /\ IsSeq(c[p].unit.streams)
<1> DEFINE u == c[p].unit
           S == Streams(u)
           J == {s.jobs : s \in S}
           n == Len(u.streams)
<1>1. u.streams \in Seq(S) /\ \A s \in S : IsFiniteSet(s.jobs)
  BY CorporaAssumption
<1>2. IsSeq(u.streams)
  BY <1>1 DEF IsSeq, Streams
<1>3. n \in Nat /\ u.streams \in [1..n -> S]
  <2> HIDE DEF S
  <2> QED BY <1>1
<1>4. u.streams \in Surjection(1..n, S)
  BY <1>3 DEF Surjection, Streams, ToSet
<1> HIDE DEF n
<1>5. IsFiniteSet(1..n)
  BY <1>3, FS_Interval
<1> HIDE DEF S
<1>6. IsFiniteSet(S)
  BY <1>4, <1>5, FS_Surjection
<1>7. IsFiniteSet(J)
  <2> DEFINE f == [s \in S |-> s.jobs]
  <2>1. f \in Surjection(S, J)
    BY DEF Surjection
  <2> HIDE DEF f, J
  <2> QED BY <1>6, <2>1, FS_Surjection
<1>8. \A T \in J : IsFiniteSet(T)
  BY <1>1
<1>9. IsFiniteSet(UNION J)
  <2> HIDE DEF J
  <2> QED BY <1>7, <1>8, FS_UNION
<1> QED BY <1>2, <1>9 DEF Jobs, S

\* Of the jobs a file lists there are at least as many as of their nodes, and as many
\* if it has one block for a stream.
LEMMA JobsCounted ==
  ASSUME NEW c \in Corpora, NEW p \in DOMAIN c
  PROVE  LET u == c[p].unit
             ids == [i \in DOMAIN u.streams |-> ScheduleNode(StreamId(u.streams[i]))]
             nodes == {JobNode(JobId(j)) : j \in Jobs(u)}
         IN /\ Cardinality(nodes) <= Cardinality(JobsListed(u))
            /\ IsInjective(ids) => Cardinality(nodes) = Cardinality(JobsListed(u))
<1> DEFINE u == c[p].unit
           ids == [i \in DOMAIN u.streams |-> ScheduleNode(StreamId(u.streams[i]))]
           A == JobsListed(u)
           B == {JobNode(JobId(j)) : j \in Jobs(u)}
           f == [x \in A |-> JobNode(JobId(x[2]))]
<1>1. DOMAIN u.streams = 1..Len(u.streams) /\ Len(u.streams) \in Nat
  BY JobsFinite, Elements
<1>2. \A i \in DOMAIN u.streams : u.streams[i] \in Streams(u)
  BY DEF Streams, ToSet
<1>3. \A x \in A : /\ x = <<x[1], x[2]>> /\ x[1] \in DOMAIN u.streams
                   /\ x[2] \in u.streams[x[1]].jobs /\ x[2] \in Jobs(u)
  BY <1>2 DEF JobsListed, Jobs
<1>4. \A j \in Jobs(u) : \E i \in DOMAIN u.streams : <<i, j>> \in A
  BY DEF Jobs, Streams, ToSet, JobsListed
<1>5. IsFiniteSet(A)
  <2>1. IsFiniteSet(1..Len(u.streams)) /\ IsFiniteSet(Jobs(u))
    BY <1>1, JobsFinite, FS_Interval
  <2>2. A \subseteq (1..Len(u.streams)) \X Jobs(u)
    BY <1>1, <1>3
  <2> HIDE DEF A
  <2> QED BY <2>1, <2>2, FS_Product, FS_Subset
<1>6. f \in Surjection(A, B)
  <2>1. \A x \in A : f[x] \in B
    BY <1>3
  <2>2. ASSUME NEW b \in B PROVE \E x \in A : f[x] = b
    <3>1. PICK j \in Jobs(u) : b = JobNode(JobId(j))
      OBVIOUS
    <3>2. PICK i \in DOMAIN u.streams : <<i, j>> \in A
      BY <1>4
    <3> QED BY <3>1, <3>2
  <2> HIDE DEF A, B
  <2> QED BY <2>1, <2>2 DEF Surjection
<1>7. ASSUME IsInjective(ids) PROVE f \in Injection(A, B)
  <2>1. ASSUME NEW x \in A, NEW y \in A, f[x] = f[y] PROVE x = y
    <3>1. JobId(x[2]) = JobId(y[2])
      BY <2>1, NodesApart
    <3>2. /\ StreamId(u.streams[x[1]]) = <<x[2].ws, x[2].stream>>
          /\ StreamId(u.streams[y[1]]) = <<y[2].ws, y[2].stream>>
      BY <1>2, <1>3, CorporaAssumption
    <3>3. ids[x[1]] = ids[y[1]]
      BY <1>3, <3>1, <3>2 DEF JobId
    <3>4. x[1] = y[1]
      BY <1>3, <1>7, <3>3 DEF IsInjective
    <3>5. x[2] = y[2]
      BY <1>2, <1>3, <3>1, <3>4, CorporaAssumption
    <3> QED BY <1>3, <3>4, <3>5
  <2> HIDE DEF A, B, ids
  <2> QED BY <1>6, <2>1 DEF Injection, IsInjective, Surjection
<1> HIDE DEF A, B, f, ids
<1>8. /\ Cardinality(B) <= Cardinality(A)
      /\ f \in Injection(A, B) => Cardinality(B) = Cardinality(A)
  BY <1>5, <1>6, FS_Surjection
<1> QED BY <1>7, <1>8 DEF A, B, ids, u

\* A sequence without repetitions has as many elements as places.
LEMMA ElementsCounted ==
  ASSUME NEW n \in Nat, NEW ids, DOMAIN ids = 1..n, ids = [i \in 1..n |-> ids[i]], IsInjective(ids)
  PROVE  Cardinality(ToSet(ids)) = n
<1>1. ids \in Bijection(1..n, ToSet(ids))
  BY DEF Bijection, Injection, Surjection, IsInjective, ToSet
<1>2. ExistsBijection(1..n, ToSet(ids))
  BY <1>1 DEF ExistsBijection
<1> QED BY <1>2, FS_CardinalityType, FS_CountingElements

\* What the report counts for a file is what the file has.
LEMMA FromIsOwn ==
  ASSUME IInv, Reported, NEW p \in Files
  PROVE  /\ SchedulesFrom(p) = {ScheduleNode(StreamId(s)) : s \in Streams(Unit(p))}
         /\ JobsFrom(p) = {JobNode(JobId(j)) : j \in Jobs(Unit(p))}
<1>1. ASSUME NEW nodes, NEW n \in nodes
      PROVE  n \in From(p, nodes) <=> n \in EntitiesIn(Unit(p))
  <2>1. n \in EntitiesIn(Unit(p)) => n \in DOMAIN prov
    BY ProvenanceWhole
  <2>2. n \in DOMAIN prov => (p \in ToSet(prov[n]) <=> n \in EntitiesIn(Unit(p)))
    BY ProvenanceWhole DEF Having
  <2> QED BY <2>1, <2>2 DEF From
<1>2. \A nodes : From(p, nodes) \subseteq nodes
  BY DEF From
<1>3. SchedulesFrom(p) = {ScheduleNode(StreamId(s)) : s \in Streams(Unit(p))}
  <2> DEFINE N == {ScheduleNode(StreamId(s)) : s \in Streams(merged)}
             M == {ScheduleNode(StreamId(s)) : s \in Streams(Unit(p))}
  <2>1. \A n \in N : n \in EntitiesIn(Unit(p)) => n \in M
    BY NodesApart
  <2>2. ASSUME NEW o \in Streams(Unit(p))
        PROVE  /\ ScheduleNode(StreamId(o)) \in N
               /\ ScheduleNode(StreamId(o)) \in EntitiesIn(Unit(p))
    <3>1. \E s \in Streams(merged) : StreamId(s) = StreamId(o)
      BY MergedHas DEF IntoBlock
    <3> QED BY <3>1, NodesApart
  <2>3. \A n \in M : n \in N /\ n \in EntitiesIn(Unit(p))
    BY <2>2
  <2> HIDE DEF N, M
  <2>4. From(p, N) = M
    BY <1>1, <1>2, <2>1, <2>3
  <2> QED BY <2>4 DEF N, M, SchedulesFrom
<1>4. JobsFrom(p) = {JobNode(JobId(j)) : j \in Jobs(Unit(p))}
  <2> DEFINE N == {JobNode(JobId(j)) : j \in Jobs(merged)}
             M == {JobNode(JobId(j)) : j \in Jobs(Unit(p))}
  <2>1. \A n \in N : n \in EntitiesIn(Unit(p)) => n \in M
    BY NodesApart
  <2>2. ASSUME NEW j \in Jobs(Unit(p))
        PROVE  JobNode(JobId(j)) \in N /\ JobNode(JobId(j)) \in EntitiesIn(Unit(p))
    <3>1. \E k \in Jobs(merged) : JobId(k) = JobId(j)
      BY MergedJobs
    <3> QED BY <3>1, NodesApart
  <2>3. \A n \in M : n \in N /\ n \in EntitiesIn(Unit(p))
    BY <2>2
  <2> HIDE DEF N, M
  <2>4. From(p, N) = M
    BY <1>1, <1>2, <2>1, <2>3
  <2> QED BY <2>4 DEF N, M, JobsFrom
<1> QED BY <1>3, <1>4

\* A sequence is the empty one just if it has no elements.
LEMMA NoneIsEmpty ==
  ASSUME NEW q, IsSeq(q)
  PROVE  q = <<>> <=> DOMAIN q = {}
<1> DEFINE S == ToSet(q)
<1>0. q \in Seq(S)
  BY DEF IsSeq
<1> HIDE DEF S
<1>1. Len(<<>>) = 0
  BY EmptySeq
<1>2. q # <<>> => Len(q) \in Nat \ {0}
  BY <1>0, EmptySeq
<1>3. DOMAIN q = 1..Len(q) /\ Len(q) \in Nat
  BY Elements
<1>4. Len(q) # 0 => 1 \in DOMAIN q
  BY <1>3
<1>5. Len(q) = 0 => DOMAIN q = {}
  BY <1>3
<1>6. q # <<>> => Len(q) # 0
  BY <1>2
<1>7. q = <<>> => Len(q) = 0
  BY <1>1
<1> QED BY <1>4, <1>5, <1>6, <1>7

\* Two files are at odds over a job just if there is a warning: if their declarations
\* of it differ, one of them differs from the one that was kept.
LEMMA WarnedIfAtOdds ==
  ASSUME IInv, Reported, OneWarningPerDivergence
  PROVE  warnings # <<>> <=>
           \E p, q \in Files : \E j \in Jobs(Unit(p)), k \in Jobs(Unit(q)) :
             JobId(j) = JobId(k) /\ j.attrs # k.attrs
<1> DEFINE W == {w \in [job : {JobId(j) : j \in Jobs(merged)}, path : Files] :
                   \E j \in Jobs(Unit(w.path)), k \in Jobs(merged) :
                     JobId(j) = w.job /\ JobId(k) = w.job /\ j.attrs # k.attrs}
<1>1. ToSet(warnings) = W
  BY DEF OneWarningPerDivergence
<1>2. warnings # <<>> <=> W # {}
  <2>1. IsSeq(warnings)
    BY DEF IInv, WarningsExact, Warns
  <2>2. warnings = <<>> <=> DOMAIN warnings = {}
    BY <2>1, NoneIsEmpty
  <2>3. ToSet(warnings) = {} <=> DOMAIN warnings = {}
    BY DEF ToSet
  <2> QED BY <1>1, <2>2, <2>3
<1>3. ASSUME NEW w \in W
      PROVE  \E p, q \in Files : \E j \in Jobs(Unit(p)), k \in Jobs(Unit(q)) :
               JobId(j) = JobId(k) /\ j.attrs # k.attrs
  <2>1. PICK j \in Jobs(Unit(w.path)), k \in Jobs(merged) : JobId(j) = JobId(k) /\ j.attrs # k.attrs
    OBVIOUS
  <2>2. k \in FirstWith(JobId(k))
    BY <2>1, MergedFirst
  <2>3. PICK i \in DOMAIN req.paths : k \in Jobs(Unit(req.paths[i]))
    BY <2>2 DEF FirstWith
  <2>4. req.paths[i] \in Files /\ w.path \in Files
    BY DEF Files, ToSet
  <2> QED BY <2>1, <2>3, <2>4
<1>4. ASSUME NEW p \in Files, NEW q \in Files, NEW j \in Jobs(Unit(p)), NEW k \in Jobs(Unit(q)),
             JobId(j) = JobId(k), j.attrs # k.attrs
      PROVE  W # {}
  <2>1. PICK m \in Jobs(merged) : JobId(m) = JobId(j)
    <3>1. ToSet(parsed) = Files
      BY Finished
    <3> QED BY <3>1, MergedJobs
  <2>2. CASE j.attrs # m.attrs
    <3>1. [job |-> JobId(j), path |-> p] \in W
      BY <2>1, <2>2
    <3> QED BY <3>1
  <2>3. CASE k.attrs # m.attrs
    <3>1. [job |-> JobId(j), path |-> q] \in W
      BY <1>4, <2>1, <2>3
    <3> QED BY <3>1
  <2> QED BY <1>4, <2>2, <2>3
<1> HIDE DEF W
<1> QED BY <1>2, <1>3, <1>4

\* Each file is reported as POST /parse of it alone reports it, and the whole is "ok"
\* just if no file has errors and none are at odds.
THEOREM StatusesExact == Spec => []StatusesAgree
<1>1. IInv /\ OneWarningPerDivergence => StatusesAgree
  <2> SUFFICES ASSUME IInv, OneWarningPerDivergence, Reported PROVE StatusesAgree
    BY DEF StatusesAgree
  <2>1. answer = Report /\ ToSet(parsed) = Files
    BY Finished
  <2>2. \A p \in Files : p \in ErrorsIn <=> corpus[p].errors
    BY <2>1 DEF ErrorsIn
  <2>3. ASSUME NEW p \in Files
        PROVE  LET merging == answer.files[p]
                   alone == ParseReport(p)
               IN /\ merging.status = alone.status
                  /\ merging.schedules = ToSet(alone.schedules)
                  /\ merging.jobs <= alone.jobs
                  /\ IsInjective(alone.schedules) =>
                       /\ Cardinality(merging.schedules) = Len(alone.schedules)
                       /\ merging.jobs = alone.jobs
    <3> DEFINE u == Unit(p)
               ids == [i \in DOMAIN u.streams |-> ScheduleNode(StreamId(u.streams[i]))]
               N == {ScheduleNode(StreamId(s)) : s \in Streams(u)}
               M == {JobNode(JobId(j)) : j \in Jobs(u)}
    <3>1. answer.files[p] = [status |-> FileStatus(p), jobs |-> Cardinality(JobsFrom(p)),
                             schedules |-> SchedulesFrom(p)]
      BY <2>1 DEF Report
    <3>2. SchedulesFrom(p) = N /\ JobsFrom(p) = M
      BY FromIsOwn
    <3>3. N = {} => M = {}
      BY DEF Jobs
    <3>4. p \in DOMAIN corpus /\ corpus \in Corpora
      BY DEF IInv, Types, Files
    <3>5. IsSeq(u.streams)
      BY <3>4, JobsFinite DEF Unit
    <3>6. DOMAIN u.streams = 1..Len(u.streams) /\ Len(u.streams) \in Nat
      BY <3>5, Elements
    <3>7. ToSet(ids) = N
      BY DEF Streams, ToSet
    <3>8. N = {} <=> u.streams = <<>>
      <4>1. u.streams = <<>> <=> DOMAIN u.streams = {}
        BY <3>5, NoneIsEmpty
      <4>2. N = {} <=> DOMAIN u.streams = {}
        BY DEF Streams, ToSet
      <4> HIDE DEF u, N
      <4> QED BY <4>1, <4>2
    <3>9. Len(ids) = Len(u.streams)
      BY <3>6
    <3>10. IsInjective(ids) => Cardinality(ToSet(ids)) = Len(ids)
      <4>1. DOMAIN ids = 1..Len(u.streams) /\ ids = [i \in 1..Len(u.streams) |-> ids[i]]
        BY <3>6
      <4> HIDE DEF ids
      <4> QED BY <3>6, <3>9, <4>1, ElementsCounted
    <3>11. /\ Cardinality(M) <= Cardinality(JobsListed(u))
           /\ IsInjective(ids) => Cardinality(M) = Cardinality(JobsListed(u))
      BY <3>4, JobsCounted DEF Unit
    <3>12. ParseReport(p) =
             [status |-> IF ~ corpus[p].errors THEN "ok" ELSE IF u.streams # <<>> THEN "partial" ELSE "failed",
              schedules |-> ids, jobs |-> Cardinality(JobsListed(u))]
      BY DEF ParseReport
    <3> HIDE DEF N, M, ids, u
    <3>13. FileStatus(p) = IF ~ corpus[p].errors THEN "ok" ELSE IF u.streams # <<>> THEN "partial" ELSE "failed"
      BY <2>2, <3>2, <3>3, <3>8 DEF FileStatus
    <3> QED BY <3>1, <3>2, <3>7, <3>10, <3>11, <3>12, <3>13
  <2>4. answer.status = "ok" <=>
          \A p, q \in Files :
            /\ ~ corpus[p].errors
            /\ \A j \in Jobs(Unit(p)), k \in Jobs(Unit(q)) : JobId(j) = JobId(k) => j.attrs = k.attrs
    <3>1. answer.status = Overall
      BY <2>1 DEF Report
    <3>2. Overall = "ok" <=> ErrorsIn = {} /\ warnings = <<>>
      <4>1. (\E p \in ToSet(parsed) : FileStatus(p) = "failed") => ErrorsIn # {}
        BY DEF FileStatus
      <4> QED BY <4>1 DEF Overall
    <3>3. ErrorsIn = {} <=> \A p \in Files : ~ corpus[p].errors
      BY <2>1, <2>2 DEF ErrorsIn
    <3>4. warnings = <<>> <=>
            \A p, q \in Files : \A j \in Jobs(Unit(p)), k \in Jobs(Unit(q)) :
              JobId(j) = JobId(k) => j.attrs = k.attrs
      BY WarnedIfAtOdds
    <3> QED BY <3>1, <3>2, <3>3, <3>4
  <2> QED BY <2>3, <2>4 DEF StatusesAgree
<1> QED BY <1>1, Inductive, WarningsOnce, PTL

-----------------------------------------------------------------------------
(* The dependencies no file resolves by itself.                            *)

\* A set of indices has a greatest, which CHOOSE takes.
LEMMA MaxIs ==
  ASSUME NEW n \in Nat, NEW I, I \subseteq 1..n, I # {}
  PROVE  Max(I) \in I
<1> DEFINE T == {n - i : i \in I}
<1>1. T \subseteq Nat /\ T # {}
  <2>1. \A i \in I : i \in Nat /\ i <= n
    OBVIOUS
  <2>2. \A i \in I : n - i \in Nat
    BY <2>1
  <2>3. T \subseteq Nat
    BY <2>2
  <2>4. T # {}
    OBVIOUS
  <2> QED BY <2>3, <2>4
<1>2. PICK d \in T : \A e \in T : <<e, d>> \notin OpToRel(<, Nat)
  BY <1>1, NatLessThanWellFounded, WFMin
<1>3. PICK i \in I : d = n - i
  OBVIOUS
<1>4. ASSUME NEW k \in I PROVE i >= k
  <2>1. n - k \in T /\ n - k \in Nat /\ d \in Nat
    BY <1>1
  <2>2. ~ (n - k < d)
    BY <1>2, <2>1 DEF OpToRel
  <2>3. i \in Nat /\ k \in Nat
    OBVIOUS
  <2> QED BY <1>3, <2>2, <2>3
<1> QED BY <1>3, <1>4 DEF Max

\* The stream an internal name is looked up in is one of the same id.
LEMMA InStreamIs ==
  ASSUME NEW u, IsSeq(u.streams), NEW s \in Streams(u)
  PROVE  \E t \in Streams(u) : StreamId(t) = StreamId(s) /\ InStream(u, s) = t.jobs
<1> DEFINE I == {i \in 1..Len(u.streams) : StreamId(u.streams[i]) = StreamId(s)}
<1>1. Len(u.streams) \in Nat /\ DOMAIN u.streams = 1..Len(u.streams)
  BY Elements
<1>2. I # {} /\ I \subseteq 1..Len(u.streams)
  BY <1>1 DEF Streams, ToSet
<1>3. InStream(u, s) = u.streams[Max(I)].jobs
  BY <1>2 DEF InStream, SelectLastInSeq
<1>4. Max(I) \in I
  <2> HIDE DEF I
  <2> QED BY <1>1, <1>2, MaxIs
<1>5. u.streams[Max(I)] \in Streams(u) /\ StreamId(u.streams[Max(I)]) = StreamId(s)
  BY <1>1, <1>4 DEF Streams, ToSet
<1> QED BY <1>3, <1>5

\* A name is looked up in a stream of that name, if there is one.
LEMMA ScheduleNamedIs ==
  ASSUME NEW u, IsSeq(u.streams), NEW name
  PROVE  /\ \A id \in ScheduleNamed(u, name) : \E t \in Streams(u) : t.name = name /\ StreamId(t) = id
         /\ (\E t \in Streams(u) : t.name = name) => ScheduleNamed(u, name) # {}
<1> DEFINE I == {i \in 1..Len(u.streams) : u.streams[i].name = name}
<1>1. Len(u.streams) \in Nat /\ DOMAIN u.streams = 1..Len(u.streams)
  BY Elements
<1>2. CASE I = {}
  <2>1. ScheduleNamed(u, name) = {}
    BY <1>2 DEF ScheduleNamed, SelectLastInSeq
  <2>2. ~ \E t \in Streams(u) : t.name = name
    BY <1>1, <1>2 DEF Streams, ToSet
  <2> QED BY <2>1, <2>2
<1>3. CASE I # {}
  <2>1. Max(I) \in I
    <3>1. I \subseteq 1..Len(u.streams)
      OBVIOUS
    <3> HIDE DEF I
    <3> QED BY <1>1, <1>3, <3>1, MaxIs
  <2>2. Max(I) # 0
    BY <2>1
  <2>3. ScheduleNamed(u, name) = {StreamId(u.streams[Max(I)])}
    BY <1>3, <2>2 DEF ScheduleNamed, SelectLastInSeq
  <2>4. u.streams[Max(I)] \in Streams(u) /\ u.streams[Max(I)].name = name
    BY <1>1, <2>1 DEF Streams, ToSet
  <2> HIDE DEF I
  <2> QED BY <2>3, <2>4
<1> QED BY <1>2, <1>3

\* A "follows" edge of a unit, by the job that makes the reference.
JobEdge(u, e) ==
  \E s \in Streams(u) : \E j \in s.jobs : \E r \in j.follows : \E t \in Target(u, s, r) :
    e = <<JobNode(JobId(j)), JobNode(t)>>
StreamEdge(u, e) ==
  \E s \in Streams(u) : \E f \in s.follows :
    \E a \in ScheduleNamed(u, s.name), b \in ScheduleNamed(u, f) :
      e = <<ScheduleNode(a), ScheduleNode(b)>>
LEMMA NodeEdgesAre ==
  ASSUME NEW u, NEW e
  PROVE  e \in NodeEdges(u) <=> JobEdge(u, e) \/ StreamEdge(u, e)
<1>1. ASSUME NEW s \in Streams(u), NEW j \in s.jobs, NEW r \in j.follows, NEW t \in Target(u, s, r)
      PROVE  <<JobId(j), t>> \in Edges(u, "follows")
  <2> DEFINE x == [in |-> s, by |-> j, ref |-> r]
  <2>1. x \in References(u, "follows")
    BY DEF References
  <2>2. <<JobId(x.by), t>> \in {<<JobId(x.by), y>> : y \in Target(u, x.in, x.ref)}
    OBVIOUS
  <2> HIDE DEF x
  <2>3. <<JobId(x.by), t>> \in Edges(u, "follows")
    BY <2>1, <2>2 DEF Edges
  <2> QED BY <2>3 DEF x
<1>2. ASSUME NEW p \in Edges(u, "follows")
      PROVE  \E s \in Streams(u) : \E j \in s.jobs : \E r \in j.follows : \E t \in Target(u, s, r) :
               p = <<JobId(j), t>>
  <2>1. PICK x \in References(u, "follows") : p \in {<<JobId(x.by), y>> : y \in Target(u, x.in, x.ref)}
    BY DEF Edges
  <2>2. PICK y \in Target(u, x.in, x.ref) : p = <<JobId(x.by), y>>
    BY <2>1
  <2>3. PICK s \in Streams(u) : x \in UNION {{[in |-> s, by |-> j, ref |-> r] : r \in j.follows} : j \in s.jobs}
    BY DEF References
  <2>4. PICK j \in s.jobs : x \in {[in |-> s, by |-> j, ref |-> r] : r \in j.follows}
    BY <2>3
  <2>5. PICK r \in j.follows : x = [in |-> s, by |-> j, ref |-> r]
    BY <2>4
  <2>6. x.in = s /\ x.by = j /\ x.ref = r
    BY <2>5
  <2> QED BY <2>2, <2>6
<1>3. ASSUME NEW p \in Edges(u, "follows"), e = <<JobNode(p[1]), JobNode(p[2])>> PROVE JobEdge(u, e)
  <2>1. PICK s \in Streams(u) : \E j \in s.jobs : \E r \in j.follows : \E t \in Target(u, s, r) :
               p = <<JobId(j), t>>
    BY <1>2
  <2>2. PICK j \in s.jobs : \E r \in j.follows : \E t \in Target(u, s, r) : p = <<JobId(j), t>>
    BY <2>1
  <2>3. PICK r \in j.follows : \E t \in Target(u, s, r) : p = <<JobId(j), t>>
    BY <2>2
  <2>4. PICK t \in Target(u, s, r) : p = <<JobId(j), t>>
    BY <2>3
  <2>5. e = <<JobNode(JobId(j)), JobNode(t)>>
    BY <1>3, <2>4
  <2> QED BY <2>5 DEF JobEdge
<1>4. ASSUME JobEdge(u, e) PROVE \E p \in Edges(u, "follows") : e = <<JobNode(p[1]), JobNode(p[2])>>
  <2>1. PICK s \in Streams(u) : \E j \in s.jobs : \E r \in j.follows : \E t \in Target(u, s, r) :
               e = <<JobNode(JobId(j)), JobNode(t)>>
    BY <1>4 DEF JobEdge
  <2>2. PICK j \in s.jobs : \E r \in j.follows : \E t \in Target(u, s, r) :
               e = <<JobNode(JobId(j)), JobNode(t)>>
    BY <2>1
  <2>3. PICK r \in j.follows : \E t \in Target(u, s, r) : e = <<JobNode(JobId(j)), JobNode(t)>>
    BY <2>2
  <2>4. PICK t \in Target(u, s, r) : e = <<JobNode(JobId(j)), JobNode(t)>>
    BY <2>3
  <2>5. <<JobId(j), t>> \in Edges(u, "follows")
    BY <1>1
  <2> QED BY <2>4, <2>5
<1>5. \A p : p \in ScheduleEdges(u) <=>
        \E s \in Streams(u) : \E f \in s.follows :
          \E a \in ScheduleNamed(u, s.name), b \in ScheduleNamed(u, f) : p = <<a, b>>
  BY DEF ScheduleEdges
<1>6. ASSUME NEW p \in ScheduleEdges(u), e = <<ScheduleNode(p[1]), ScheduleNode(p[2])>>
      PROVE  StreamEdge(u, e)
  <2>1. PICK s \in Streams(u) : \E f \in s.follows :
          \E a \in ScheduleNamed(u, s.name), b \in ScheduleNamed(u, f) : p = <<a, b>>
    BY <1>5
  <2>2. PICK f \in s.follows : \E a \in ScheduleNamed(u, s.name), b \in ScheduleNamed(u, f) : p = <<a, b>>
    BY <2>1
  <2>3. PICK a \in ScheduleNamed(u, s.name), b \in ScheduleNamed(u, f) : p = <<a, b>>
    BY <2>2
  <2>4. e = <<ScheduleNode(a), ScheduleNode(b)>>
    BY <1>6, <2>3
  <2> QED BY <2>4 DEF StreamEdge
<1>7. ASSUME StreamEdge(u, e)
      PROVE  \E p \in ScheduleEdges(u) : e = <<ScheduleNode(p[1]), ScheduleNode(p[2])>>
  <2>1. PICK s \in Streams(u) : \E f \in s.follows :
          \E a \in ScheduleNamed(u, s.name), b \in ScheduleNamed(u, f) :
            e = <<ScheduleNode(a), ScheduleNode(b)>>
    BY <1>7 DEF StreamEdge
  <2>2. PICK f \in s.follows : \E a \in ScheduleNamed(u, s.name), b \in ScheduleNamed(u, f) :
            e = <<ScheduleNode(a), ScheduleNode(b)>>
    BY <2>1
  <2>3. PICK a \in ScheduleNamed(u, s.name), b \in ScheduleNamed(u, f) :
            e = <<ScheduleNode(a), ScheduleNode(b)>>
    BY <2>2
  <2>4. <<a, b>> \in ScheduleEdges(u)
    BY <1>5
  <2> QED BY <2>3, <2>4
<1>8. e \in NodeEdges(u) <=>
        \/ \E p \in Edges(u, "follows") : e = <<JobNode(p[1]), JobNode(p[2])>>
        \/ \E p \in ScheduleEdges(u) : e = <<ScheduleNode(p[1]), ScheduleNode(p[2])>>
  BY DEF NodeEdges
<1> QED BY <1>3, <1>4, <1>6, <1>7, <1>8

\* A job a reference resolves to is one of the unit.
LEMMA TargetHas ==
  ASSUME NEW u, IsSeq(u.streams), NEW s \in Streams(u), NEW r, NEW t \in Target(u, s, r)
  PROVE  \E j \in Jobs(u) : JobId(j) = t
<1>1. PICK v \in Streams(u) : InStream(u, s) = v.jobs
  BY InStreamIs
<1>2. \A j \in InStream(u, s) : j \in Jobs(u)
  BY <1>1 DEF Jobs
<1>3. CASE r.scope = "external"
  BY <1>3 DEF Target
<1>4. CASE r.scope # "external"
  BY <1>2, <1>4 DEF Target
<1> QED BY <1>3, <1>4

\* Both ends of an edge are entities of the unit.
LEMMA EdgeEnds ==
  ASSUME NEW u, IsSeq(u.streams), NEW e \in NodeEdges(u)
  PROVE  e[1] \in EntitiesIn(u) /\ e[2] \in EntitiesIn(u)
<1>1. CASE JobEdge(u, e)
  <2>1. PICK s \in Streams(u) : \E j \in s.jobs : \E r \in j.follows : \E t \in Target(u, s, r) :
           e = <<JobNode(JobId(j)), JobNode(t)>>
    BY <1>1 DEF JobEdge
  <2>2. PICK j \in s.jobs : \E r \in j.follows : \E t \in Target(u, s, r) :
           e = <<JobNode(JobId(j)), JobNode(t)>>
    BY <2>1
  <2>3. PICK r \in j.follows : \E t \in Target(u, s, r) : e = <<JobNode(JobId(j)), JobNode(t)>>
    BY <2>2
  <2>4. PICK t \in Target(u, s, r) : e = <<JobNode(JobId(j)), JobNode(t)>>
    BY <2>3
  <2>5. PICK k \in Jobs(u) : JobId(k) = t
    BY TargetHas
  <2>6. j \in Jobs(u)
    BY DEF Jobs
  <2>7. JobNode(JobId(j)) \in EntitiesIn(u) /\ JobNode(JobId(k)) \in EntitiesIn(u)
    BY <2>6 DEF EntitiesIn
  <2> QED BY <2>4, <2>5, <2>7
<1>2. CASE StreamEdge(u, e)
  <2>1. PICK a, b, f, g : /\ a \in ScheduleNamed(u, f) /\ b \in ScheduleNamed(u, g)
                          /\ e = <<ScheduleNode(a), ScheduleNode(b)>>
    BY <1>2 DEF StreamEdge
  <2>2. PICK s \in Streams(u), t \in Streams(u) : StreamId(s) = a /\ StreamId(t) = b
    BY <2>1, ScheduleNamedIs
  <2>3. ScheduleNode(StreamId(s)) \in EntitiesIn(u) /\ ScheduleNode(StreamId(t)) \in EntitiesIn(u)
    BY DEF EntitiesIn
  <2> QED BY <2>1, <2>2, <2>3
<1> QED BY <1>1, <1>2, NodeEdgesAre

\* What files that agree have in common, and with the merged unit.
OwnBlocks(u) == \A s \in Streams(u) : OwnJobs(s)
EachOnce(u) == \A s, t \in Streams(u) : StreamId(s) = StreamId(t) => s = t
OneForName(u) == \A s, t \in Streams(u) : s.name = t.name => StreamId(s) = StreamId(t)
JobsAlike(u, v) == \A j \in Jobs(u), k \in Jobs(v) : JobId(j) = JobId(k) => j.follows = k.follows
StreamsAlike(u, v) == \A s \in Streams(u), t \in Streams(v) :
                        s.name = t.name => StreamId(s) = StreamId(t) /\ s.follows = t.follows

\* Then an edge between jobs of one unit is one of the other if that has both jobs, ...
LEMMA JobEdgeIn ==
  ASSUME NEW u, NEW v, IsSeq(u.streams), IsSeq(v.streams), OwnBlocks(u), OwnBlocks(v),
         EachOnce(v), JobsAlike(u, v),
         NEW s \in Streams(u), NEW j \in s.jobs, NEW r \in j.follows, NEW t \in Target(u, s, r),
         \E k \in Jobs(v) : JobId(k) = JobId(j), \E k \in Jobs(v) : JobId(k) = t
  PROVE  JobEdge(v, <<JobNode(JobId(j)), JobNode(t)>>)
<1>1. PICK k \in Jobs(v) : JobId(k) = JobId(j)
  OBVIOUS
<1>2. PICK m \in Jobs(v) : JobId(m) = t
  OBVIOUS
<1>3. PICK o \in Streams(v) : k \in o.jobs
  BY DEF Jobs
<1>4. j \in Jobs(u)
  BY DEF Jobs
<1>5. r \in k.follows
  BY <1>1, <1>4 DEF JobsAlike
<1>6. t \in Target(v, o, r)
  <2>1. CASE r.scope = "external"
    <3>1. t = <<r.ws, r.stream, r.job>>
      BY <2>1 DEF Target
    <3> QED BY <1>2, <2>1, <3>1 DEF Target
  <2>2. CASE r.scope # "external"
    <3>1. PICK x \in InStream(u, s) : x.name = r.job /\ JobId(x) = t
      BY <2>2 DEF Target
    <3>2. PICK w \in Streams(u) : StreamId(w) = StreamId(s) /\ x \in w.jobs
      BY InStreamIs
    <3>3. StreamId(s) = <<j.ws, j.stream>> /\ StreamId(w) = <<x.ws, x.stream>>
      BY <3>2 DEF OwnBlocks, OwnJobs
    <3>4. PICK q \in Streams(v) : m \in q.jobs
      BY DEF Jobs
    <3>5. StreamId(o) = <<k.ws, k.stream>> /\ StreamId(q) = <<m.ws, m.stream>>
      BY <1>3, <3>4 DEF OwnBlocks, OwnJobs
    <3>6. k.ws = j.ws /\ k.stream = j.stream /\ m.ws = x.ws /\ m.stream = x.stream /\ m.name = x.name
      BY <1>1, <1>2, <3>1 DEF JobId
    <3>7. StreamId(q) = StreamId(o)
      BY <3>2, <3>3, <3>5, <3>6
    <3>8. PICK z \in Streams(v) : StreamId(z) = StreamId(o) /\ InStream(v, o) = z.jobs
      BY InStreamIs
    <3>9. z = q
      BY <3>7, <3>8 DEF EachOnce
    <3>10. m \in InStream(v, o) /\ m.name = r.job
      BY <3>1, <3>4, <3>6, <3>8, <3>9
    <3> QED BY <1>2, <2>2, <3>10 DEF Target
  <2> QED BY <2>1, <2>2
<1>7. <<JobNode(JobId(j)), JobNode(t)>> = <<JobNode(JobId(k)), JobNode(t)>>
  BY <1>1
<1> QED BY <1>3, <1>5, <1>6, <1>7 DEF JobEdge

\* ... and one between streams if it has both streams.
LEMMA StreamEdgeIn ==
  ASSUME NEW u, NEW v, IsSeq(u.streams), IsSeq(v.streams), OneForName(v), StreamsAlike(u, v),
         NEW s \in Streams(u), NEW f \in s.follows,
         NEW a \in ScheduleNamed(u, s.name), NEW b \in ScheduleNamed(u, f),
         \E x \in Streams(v) : StreamId(x) = a, \E y \in Streams(v) : StreamId(y) = b
  PROVE  StreamEdge(v, <<ScheduleNode(a), ScheduleNode(b)>>)
<1>1. PICK x \in Streams(v) : StreamId(x) = a
  OBVIOUS
<1>2. PICK y \in Streams(v) : StreamId(y) = b
  OBVIOUS
<1>3. PICK t \in Streams(u) : t.name = s.name /\ StreamId(t) = a
  BY ScheduleNamedIs
<1>4. PICK w \in Streams(u) : w.name = f /\ StreamId(w) = b
  BY ScheduleNamedIs
<1>5. x.name = s.name /\ y.name = f
  BY <1>1, <1>2, <1>3, <1>4 DEF StreamId
<1>6. f \in x.follows
  BY <1>5 DEF StreamsAlike
<1>7. ASSUME NEW z \in Streams(v) PROVE StreamId(z) \in ScheduleNamed(v, z.name)
  <2>1. ScheduleNamed(v, z.name) # {}
    BY ScheduleNamedIs
  <2>2. PICK id \in ScheduleNamed(v, z.name) : TRUE
    BY <2>1
  <2>3. PICK q \in Streams(v) : q.name = z.name /\ StreamId(q) = id
    BY ScheduleNamedIs
  <2>4. StreamId(q) = StreamId(z)
    BY <2>3 DEF OneForName
  <2> QED BY <2>2, <2>3, <2>4
<1>8. a \in ScheduleNamed(v, x.name) /\ b \in ScheduleNamed(v, f)
  BY <1>1, <1>2, <1>5, <1>7
<1> QED BY <1>6, <1>8 DEF StreamEdge

\* So the edges of one unit whose ends the other has are edges of that.
Carries(u, v) ==
  \A e \in NodeEdges(u) : e[1] \in EntitiesIn(v) /\ e[2] \in EntitiesIn(v) => e \in NodeEdges(v)
LEMMA EdgesIn ==
  ASSUME NEW u, NEW v, IsSeq(u.streams), IsSeq(v.streams), OwnBlocks(u), OwnBlocks(v),
         EachOnce(v), OneForName(v), JobsAlike(u, v), StreamsAlike(u, v)
  PROVE  Carries(u, v)
<1> SUFFICES ASSUME NEW e \in NodeEdges(u), e[1] \in EntitiesIn(v), e[2] \in EntitiesIn(v)
             PROVE  e \in NodeEdges(v)
  BY DEF Carries
<1>1. CASE JobEdge(u, e)
  <2>1. PICK s \in Streams(u) : \E j \in s.jobs : \E r \in j.follows : \E t \in Target(u, s, r) :
           e = <<JobNode(JobId(j)), JobNode(t)>>
    BY <1>1 DEF JobEdge
  <2>2. PICK j \in s.jobs : \E r \in j.follows : \E t \in Target(u, s, r) :
           e = <<JobNode(JobId(j)), JobNode(t)>>
    BY <2>1
  <2>3. PICK r \in j.follows : \E t \in Target(u, s, r) : e = <<JobNode(JobId(j)), JobNode(t)>>
    BY <2>2
  <2>4. PICK t \in Target(u, s, r) : e = <<JobNode(JobId(j)), JobNode(t)>>
    BY <2>3
  <2>5. PICK k \in Jobs(u) : JobId(k) = t
    BY TargetHas
  <2>6. JobNode(JobId(j)) \in EntitiesIn(v) /\ JobNode(JobId(k)) \in EntitiesIn(v)
    BY <2>4, <2>5
  <2>7. (\E m \in Jobs(v) : JobId(m) = JobId(j)) /\ (\E m \in Jobs(v) : JobId(m) = t)
    BY <2>5, <2>6, NodesApart
  <2>8. JobEdge(v, e)
    BY <2>4, <2>7, JobEdgeIn
  <2> QED BY <2>8, NodeEdgesAre
<1>2. CASE StreamEdge(u, e)
  <2>1. PICK s \in Streams(u) : \E f \in s.follows :
          \E a \in ScheduleNamed(u, s.name), b \in ScheduleNamed(u, f) :
            e = <<ScheduleNode(a), ScheduleNode(b)>>
    BY <1>2 DEF StreamEdge
  <2>2. PICK f \in s.follows : \E a \in ScheduleNamed(u, s.name), b \in ScheduleNamed(u, f) :
            e = <<ScheduleNode(a), ScheduleNode(b)>>
    BY <2>1
  <2>3. PICK a \in ScheduleNamed(u, s.name), b \in ScheduleNamed(u, f) :
            e = <<ScheduleNode(a), ScheduleNode(b)>>
    BY <2>2
  <2>4. PICK x \in Streams(u), y \in Streams(u) : StreamId(x) = a /\ StreamId(y) = b
    BY ScheduleNamedIs
  <2>5. ScheduleNode(StreamId(x)) \in EntitiesIn(v) /\ ScheduleNode(StreamId(y)) \in EntitiesIn(v)
    BY <2>3, <2>4
  <2>6. (\E z \in Streams(v) : StreamId(z) = a) /\ (\E z \in Streams(v) : StreamId(z) = b)
    BY <2>4, <2>5, NodesApart
  <2>7. StreamEdge(v, e)
    BY <2>3, <2>6, StreamEdgeIn
  <2> QED BY <2>7, NodeEdgesAre
<1> QED BY <1>1, <1>2, NodeEdgesAre

\* The files, and the merged unit, have blocks with jobs of their own.
LEMMA UnitsAre ==
  ASSUME IInv, Reported
  PROVE  /\ \A p \in Files : IsSeq(Unit(p).streams) /\ OwnBlocks(Unit(p))
         /\ IsSeq(merged.streams) /\ OwnBlocks(merged) /\ EachOnce(merged)
<1>1. \A p \in Files : p \in DOMAIN corpus /\ corpus \in Corpora
  BY DEF IInv, Types, Files
<1>2. \A p \in Files : IsSeq(Unit(p).streams) /\ OwnBlocks(Unit(p))
  <2>1. \A p \in Files : IsSeq(Unit(p).streams)
    BY <1>1, JobsFinite DEF Unit
  <2>2. \A p \in Files : OwnBlocks(Unit(p))
    BY <1>1, CorporaAssumption DEF Unit, OwnBlocks, OwnJobs
  <2> QED BY <2>1, <2>2
<1>3. IsSeq(merged.streams)
  BY DEF IInv, StreamsListed, Listed
<1>4. OwnBlocks(merged)
  BY MergedHas DEF OwnBlocks, OwnJobs
<1>5. EachOnce(merged)
  <2>1. \A i, k \in DOMAIN merged.streams :
          StreamId(merged.streams[i]) = StreamId(merged.streams[k]) => i = k
    BY DEF IInv, StreamsListed, Listed
  <2> QED BY <2>1 DEF EachOnce, Streams, ToSet
<1> QED BY <1>2, <1>3, <1>4, <1>5

\* Each block of the merged unit is of a file, so what files agree on it has too.
LEMMA UnitsAgree ==
  ASSUME IInv, Reported, Agree, NEW p \in Files
  PROVE  /\ EachOnce(Unit(p)) /\ OneForName(Unit(p)) /\ OneForName(merged)
         /\ JobsAlike(Unit(p), merged) /\ JobsAlike(merged, Unit(p))
         /\ StreamsAlike(Unit(p), merged) /\ StreamsAlike(merged, Unit(p))
<1>1. EachOnce(Unit(p))
  <2> DEFINE ids == [i \in DOMAIN Unit(p).streams |-> StreamId(Unit(p).streams[i])]
  <2>1. \A i, k \in DOMAIN ids : ids[i] = ids[k] => i = k
    BY DEF Agree, IsInjective
  <2>2. \A i, k \in DOMAIN Unit(p).streams :
          StreamId(Unit(p).streams[i]) = StreamId(Unit(p).streams[k]) => i = k
    BY <2>1
  <2> QED BY <2>2 DEF EachOnce, Streams, ToSet
<1>2. OneForName(Unit(p))
  BY DEF Agree, OneForName
<1>3. ASSUME NEW s \in Streams(merged), NEW q \in Files, NEW t \in Streams(Unit(q)), s.name = t.name
      PROVE  StreamId(s) = StreamId(t) /\ s.follows = t.follows
  <2>1. PICK h \in Files : \E o \in Streams(Unit(h)) :
          s.ws = o.ws /\ s.name = o.name /\ s.follows = o.follows
    BY MergedHas DEF FromBlock
  <2>2. PICK o \in Streams(Unit(h)) : s.ws = o.ws /\ s.name = o.name /\ s.follows = o.follows
    BY <2>1
  <2>3. StreamsAlike(Unit(h), Unit(q))
    BY DEF Agree, StreamsAlike
  <2>4. StreamId(o) = StreamId(t) /\ o.follows = t.follows
    BY <1>3, <2>2, <2>3 DEF StreamsAlike
  <2> QED BY <2>2, <2>4 DEF StreamId
<1>4. StreamsAlike(Unit(p), merged) /\ StreamsAlike(merged, Unit(p))
  BY <1>3 DEF StreamsAlike
<1>5. OneForName(merged)
  <2> SUFFICES ASSUME NEW s \in Streams(merged), NEW t \in Streams(merged), s.name = t.name
               PROVE  StreamId(s) = StreamId(t)
    BY DEF OneForName
  <2>1. PICK h \in Files : \E o \in Streams(Unit(h)) :
          t.ws = o.ws /\ t.name = o.name /\ t.follows = o.follows
    BY MergedHas DEF FromBlock
  <2>2. PICK o \in Streams(Unit(h)) : t.ws = o.ws /\ t.name = o.name
    BY <2>1
  <2>3. StreamId(s) = StreamId(o)
    BY <1>3, <2>2
  <2> QED BY <2>2, <2>3 DEF StreamId
<1>6. ASSUME NEW j \in Jobs(merged), NEW k \in Jobs(Unit(p)), JobId(j) = JobId(k)
      PROVE  j.follows = k.follows
  <2>1. PICK q \in Files : j \in Jobs(Unit(q))
    BY MergedJobs
  <2> QED BY <1>6, <2>1 DEF Agree
<1>7. JobsAlike(Unit(p), merged) /\ JobsAlike(merged, Unit(p))
  BY <1>6 DEF JobsAlike
<1> QED BY <1>1, <1>2, <1>4, <1>5, <1>7

\* A dependency reported as cross-file is one no file resolves by itself, and of files
\* that agree all of those are reported, and none a file has is lost.
THEOREM CrossingExact == Spec => []CrossFileExact
<1>1. IInv => CrossFileExact
  <2> SUFFICES ASSUME IInv, Reported PROVE CrossFileExact
    BY DEF CrossFileExact
  <2> DEFINE solo == UNION {NodeEdges(Unit(p)) : p \in Files}
  <2>1. answer.crossing = {e \in NodeEdges(merged) : Apart(e[1], e[2])}
    BY Finished DEF Report
  <2>2. \A e : e \in solo <=> \E p \in Files : e \in NodeEdges(Unit(p))
    OBVIOUS
  <2>3. ASSUME NEW p \in Files, NEW e \in NodeEdges(Unit(p))
        PROVE  ~ Apart(e[1], e[2]) /\ e[1] \in EntitiesIn(Unit(p)) /\ e[2] \in EntitiesIn(Unit(p))
    <3>1. e[1] \in EntitiesIn(Unit(p)) /\ e[2] \in EntitiesIn(Unit(p))
      BY UnitsAre, EdgeEnds
    <3>2. e[1] \in DOMAIN prov /\ e[2] \in DOMAIN prov
      BY <3>1, ProvenanceWhole
    <3>3. p \in ToSet(prov[e[1]]) /\ p \in ToSet(prov[e[2]])
      BY <3>1, <3>2, ProvenanceWhole DEF Having
    <3> QED BY <3>1, <3>3 DEF Apart
  <2>4. ASSUME NEW e \in NodeEdges(merged), ~ Apart(e[1], e[2])
        PROVE  \E p \in Files : e[1] \in EntitiesIn(Unit(p)) /\ e[2] \in EntitiesIn(Unit(p))
    <3>1. e[1] \in EntitiesIn(merged) /\ e[2] \in EntitiesIn(merged)
      BY UnitsAre, EdgeEnds
    <3>2. e[1] \in DOMAIN prov /\ e[2] \in DOMAIN prov
      BY <3>1, MergedEntities, ProvenanceWhole
    <3>3. PICK p : p \in ToSet(prov[e[1]]) /\ p \in ToSet(prov[e[2]])
      BY <2>4 DEF Apart
    <3>4. p \in Having(e[1]) /\ p \in Having(e[2])
      BY <3>2, <3>3, ProvenanceWhole
    <3> QED BY <3>4 DEF Having
  <2> HIDE DEF solo
  <2>5. answer.crossing \cap solo = {}
    BY <2>1, <2>2, <2>3
  <2>6. ASSUME Agree PROVE answer.crossing = NodeEdges(merged) \ solo /\ solo \subseteq NodeEdges(merged)
    <3>1. ASSUME NEW p \in Files PROVE Carries(merged, Unit(p)) /\ Carries(Unit(p), merged)
      <4>1. /\ IsSeq(Unit(p).streams) /\ OwnBlocks(Unit(p)) /\ IsSeq(merged.streams)
            /\ OwnBlocks(merged) /\ EachOnce(merged)
        BY UnitsAre
      <4>2. /\ EachOnce(Unit(p)) /\ OneForName(Unit(p)) /\ OneForName(merged)
            /\ JobsAlike(Unit(p), merged) /\ JobsAlike(merged, Unit(p))
            /\ StreamsAlike(Unit(p), merged) /\ StreamsAlike(merged, Unit(p))
        BY <2>6, UnitsAgree
      <4> QED BY <4>1, <4>2, EdgesIn
    <3>2. ASSUME NEW e \in NodeEdges(merged), e \notin solo PROVE Apart(e[1], e[2])
      BY <2>2, <2>4, <3>1, <3>2 DEF Carries
    <3>3. ASSUME NEW e \in solo PROVE e \in NodeEdges(merged)
      <4>1. PICK p \in Files : e \in NodeEdges(Unit(p))
        BY <2>2, <3>3
      <4>2. e[1] \in EntitiesIn(merged) /\ e[2] \in EntitiesIn(merged)
        BY <2>3, <4>1, MergedEntities
      <4> QED BY <3>1, <4>1, <4>2 DEF Carries
    <3>4. \A e : e \in answer.crossing <=> e \in NodeEdges(merged) /\ e \notin solo
      BY <2>1, <2>5, <3>2
    <3> QED BY <3>3, <3>4
  <2> QED BY <2>5, <2>6 DEF CrossFileExact, solo
<1> QED BY <1>1, Inductive, PTL
=============================================================================
