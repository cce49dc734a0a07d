-------------------------- MODULE FileDelete_proofs --------------------------
(***************************************************************************)
(* For any number of concurrent single and bulk deletes over any graph:    *)
(* every item of a batch is settled, a file answered as deleted is gone    *)
(* under each of its labels, no listed file is answered 404 while Neo4j    *)
(* answers, and no shared node is taken.                                   *)
(*                                                                         *)
(* A delete decides in one transaction by what it read in an earlier one.  *)
(* What carries the proofs is that the graph only shrinks, so that what a  *)
(* delete knows to be absent stays absent (Knows).                         *)
(***************************************************************************)
EXTENDS FileDelete, FiniteSetTheorems, TLAPS

\* No file of the source has the id, under any of its labels.
Gone(nodes, source, id) == \A l \in FileLabels(source) : Node(l, id) \notin nodes

\* What deletes leave of a graph is a graph of the same kind.
GraphOK ==
  /\ IsFiniteSet(graph.nodes)
  /\ \A e \in graph.edges : e.from \in graph.nodes /\ e.to \in graph.nodes
  /\ \A n \in graph.nodes : n = Node(n.label, n.id)
  /\ \A m, n \in graph.nodes : m.id = n.id /\ m.label = "Schedule" => n.label = "Schedule"

\* A delete under way has an item to settle; past the label lookup it has one of the
\* file's labels, and the file has no other.
Knows(d) ==
  /\ pc[d] # "answered" => Len(results[d]) < Len(req[d].items)
  /\ pc[d] = "answered" =>
       /\ Len(results[d]) = Len(req[d].items)
       /\ req[d].bulk => http[d] = 200
       /\ ~ req[d].bulk => http[d] = Status(results[d][1].why)
  /\ pc[d] \in {"exists", "walk"} =>
       Item(d).source \in Sources /\ label[d] \in FileLabels(Item(d).source)
  /\ pc[d] = "walk" \/ (pc[d] = "exists" /\ ~ faults) =>
       \A l \in FileLabels(Item(d).source) \ {label[d]} : Node(l, Item(d).id) \notin graph.nodes

\* What a result says of its item, for good.
Says(nodes, result, item) ==
  /\ (result.why = "unknown source") <=> (item.source \notin Sources)
  /\ result.deleted => Gone(nodes, item.source, item.id)
  /\ result.why = "missing" /\ ~ faults => Gone(nodes, item.source, item.id)

IInv ==
  /\ TypeOK /\ GraphOK
  /\ \A d \in Deletes : Knows(d)
  /\ \A d \in Deletes : \A i \in 1..Len(results[d]) : Says(graph.nodes, results[d][i], req[d].items[i])

-----------------------------------------------------------------------------
(* The pieces.                                                             *)

\* A file has one label, or for TWS one of two; none is shared.
LEMMA LabelFacts ==
  /\ Sources = {"tableau", "qlikview", "spark", "tws"}
  /\ \A s \in Sources : /\ FileLabel[s] \in FileLabels(s)
                        /\ s # "tws" => FileLabels(s) = {FileLabel[s]}
                        /\ \A l \in FileLabels(s) : l \notin Shared
  /\ FileLabels("tws") = {"TwsFile", "Schedule"} /\ FileLabel["tws"] = "TwsFile"
  /\ \A s \in Sources : FileLabels(s) \subseteq {FileLabel[t] : t \in Sources} \cup {"Schedule"}
BY DEF Sources, FileLabel, FileLabels, Shared

\* A delete that does not move keeps what it knows while the graph shrinks.
LEMMA KnowsStays ==
  ASSUME NEW e \in Deletes, Knows(e), UNCHANGED <<req, faults>>, results'[e] = results[e],
         pc'[e] = pc[e], http'[e] = http[e], label'[e] = label[e],
         graph'.nodes \subseteq graph.nodes
  PROVE  Knows(e)'
<1>1. Item(e)' = Item(e)
  BY DEF Item
<1>2. (pc[e] # "answered" => Len(results[e]) < Len(req[e].items))'
  BY DEF Knows
<1>3. ASSUME pc'[e] = "answered"
      PROVE  /\ Len(results'[e]) = Len(req'[e].items)
             /\ req'[e].bulk => http'[e] = 200
             /\ ~ req'[e].bulk => http'[e] = Status(results'[e][1].why)
  <2>1. /\ Len(results[e]) = Len(req[e].items)
        /\ req[e].bulk => http[e] = 200
        /\ ~ req[e].bulk => http[e] = Status(results[e][1].why)
    BY <1>3 DEF Knows
  <2> QED
    BY <2>1
<1>4. (pc[e] \in {"exists", "walk"} =>
         Item(e).source \in Sources /\ label[e] \in FileLabels(Item(e).source))'
  BY <1>1 DEF Knows
<1>5. (pc[e] = "walk" \/ (pc[e] = "exists" /\ ~ faults) =>
         \A l \in FileLabels(Item(e).source) \ {label[e]} : Node(l, Item(e).id) \notin graph.nodes)'
  BY <1>1 DEF Knows
<1> QED
  BY <1>2, <1>3, <1>4, <1>5 DEF Knows

\* Settling touches one delete: its result is appended, and it is answered once it
\* has settled its last item.
LEMMA SettleEffect ==
  ASSUME IInv, NEW d \in Deletes, NEW r \in Result, Settle(d, r.deleted, r.nodes, r.why)
  PROVE  /\ results' \in [Deletes -> Seq(Result)]
         /\ pc' \in [Deletes -> {"resolve", "exists", "walk", "answered"}]
         /\ http' \in [Deletes -> {0, 200, 400, 404, 500}]
         /\ \A e \in Deletes \ {d} :
              results'[e] = results[e] /\ pc'[e] = pc[e] /\ http'[e] = http[e]
         /\ Len(results'[d]) = Len(results[d]) + 1 /\ Len(results[d]) \in Nat
         /\ \A i \in 1..Len(results[d]) : results'[d][i] = results[d][i]
         /\ results'[d][Len(results[d]) + 1] = r
         /\ Len(results[d]) + 1 = Len(req[d].items) =>
              /\ pc'[d] = "answered"
              /\ req[d].bulk => http'[d] = 200
              /\ ~ req[d].bulk => http'[d] = Status(r.why)
         /\ Len(results[d]) + 1 # Len(req[d].items) => pc'[d] = "resolve"
<1> DEFINE all == Append(results[d], r)
<1>1. results[d] \in Seq(Result) /\ results \in [Deletes -> Seq(Result)]
  BY DEF IInv, TypeOK
<1>2. /\ all \in Seq(Result) /\ Len(all) = Len(results[d]) + 1 /\ Len(results[d]) \in Nat
      /\ \A i \in 1..Len(results[d]) : all[i] = results[d][i]
      /\ all[Len(results[d]) + 1] = r
  BY <1>1
<1>3. r = [deleted |-> r.deleted, nodes |-> r.nodes, why |-> r.why]
  BY DEF Result
<1>4. /\ results' = [results EXCEPT ![d] = all]
      /\ pc' = [pc EXCEPT ![d] =
                  IF Len(all) = Len(req[d].items) THEN "answered" ELSE "resolve"]
      /\ http' = [http EXCEPT ![d] =
                  IF ~ (Len(all) = Len(req[d].items)) THEN 0
                  ELSE IF req[d].bulk THEN 200 ELSE Status(r.why)]
  BY <1>3 DEF Settle
<1>5. /\ results' \in [Deletes -> Seq(Result)] /\ results'[d] = all
      /\ \A e \in Deletes \ {d} : results'[e] = results[e]
  BY <1>1, <1>2, <1>4
<1>6. Status(r.why) \in {200, 400, 404, 500}
  BY DEF Status
<1>7. /\ pc' \in [Deletes -> {"resolve", "exists", "walk", "answered"}]
      /\ \A e \in Deletes \ {d} : pc'[e] = pc[e]
      /\ pc'[d] = IF Len(all) = Len(req[d].items) THEN "answered" ELSE "resolve"
  BY <1>4 DEF IInv, TypeOK
<1>8. /\ http' \in [Deletes -> {0, 200, 400, 404, 500}]
      /\ \A e \in Deletes \ {d} : http'[e] = http[e]
      /\ Len(all) = Len(req[d].items) /\ req[d].bulk => http'[d] = 200
      /\ Len(all) = Len(req[d].items) /\ ~ req[d].bulk => http'[d] = Status(r.why)
  <2>1. http \in [Deletes -> {0, 200, 400, 404, 500}]
    BY DEF IInv, TypeOK
  <2> QED
    BY <1>4, <1>6, <2>1
<1> QED
  BY <1>2, <1>5, <1>7, <1>8

\* A step that settles an item and at most takes nodes away keeps the invariant, if
\* what it says of the item is true afterwards.
LEMMA SettleInv ==
  ASSUME IInv, NEW d \in Deletes, pc[d] # "answered",
         NEW r \in Result, Settle(d, r.deleted, r.nodes, r.why),
         UNCHANGED <<faults, req, label>>, GraphOK', graph'.nodes \subseteq graph.nodes,
         Says(graph'.nodes, r, Item(d))
  PROVE  IInv'
<1> DEFINE n == Len(results[d])
<1>1. /\ results' \in [Deletes -> Seq(Result)]
      /\ pc' \in [Deletes -> {"resolve", "exists", "walk", "answered"}]
      /\ http' \in [Deletes -> {0, 200, 400, 404, 500}]
      /\ \A e \in Deletes \ {d} :
           results'[e] = results[e] /\ pc'[e] = pc[e] /\ http'[e] = http[e]
      /\ Len(results'[d]) = n + 1 /\ n \in Nat
      /\ \A i \in 1..n : results'[d][i] = results[d][i]
      /\ results'[d][n + 1] = r
      /\ n + 1 = Len(req[d].items) => /\ pc'[d] = "answered"
                                      /\ req[d].bulk => http'[d] = 200
                                      /\ ~ req[d].bulk => http'[d] = Status(r.why)
      /\ n + 1 # Len(req[d].items) => pc'[d] = "resolve"
  BY SettleEffect
<1> HIDE DEF n
<1>2. n < Len(req[d].items) /\ Len(req[d].items) \in Nat \ {0}
      /\ (~ req[d].bulk => Len(req[d].items) = 1)
  <2>1. Knows(d) /\ req[d] \in Requests
    BY DEF IInv, TypeOK
  <2> QED
    BY <2>1, RequestsAssumption DEF Knows, n
<1>3. ASSUME NEW source, NEW id, Gone(graph.nodes, source, id) PROVE Gone(graph'.nodes, source, id)
  BY <1>3 DEF Gone
<1>4. TypeOK'
  <2>1. \A e \in Deletes : Len(results'[e]) <= Len(req[e].items)
    <3>1. Len(results'[d]) <= Len(req[d].items)
      BY <1>1, <1>2
    <3>2. \A e \in Deletes \ {d} : Len(results[e]) <= Len(req[e].items)
      BY DEF IInv, TypeOK
    <3> QED
      BY <1>1, <3>1, <3>2
  <2>2. /\ faults' \in BOOLEAN /\ req' \in [Deletes -> Requests]
        /\ label' \in [Deletes -> {FileLabel[s] : s \in Sources} \cup {"Schedule", "unknown"}]
    BY DEF IInv, TypeOK
  <2>3. \A e \in graph'.edges : e.from \in graph'.nodes /\ e.to \in graph'.nodes
    BY DEF GraphOK
  <2> QED
    BY <1>1, <2>1, <2>2, <2>3 DEF TypeOK
<1>5. ASSUME NEW e \in Deletes PROVE Knows(e)'
  <2>1. CASE e = d
    <3>1. CASE n + 1 = Len(req[d].items)
      <4>1. /\ pc'[d] = "answered" /\ Len(results'[d]) = Len(req'[d].items)
            /\ req'[d].bulk => http'[d] = 200
        BY <1>1, <3>1
      <4>2. ~ req'[d].bulk => http'[d] = Status(results'[d][1].why)
        <5>1. ASSUME ~ req[d].bulk PROVE n + 1 = 1
          BY <1>1, <1>2, <3>1, <5>1
        <5> QED
          BY <1>1, <3>1, <5>1
      <4> QED
        BY <2>1, <4>1, <4>2 DEF Knows, Status
    <3>2. CASE n + 1 # Len(req[d].items)
      <4>1. pc'[d] = "resolve" /\ Len(results'[d]) < Len(req'[d].items)
        BY <1>1, <1>2, <3>2
      <4> QED
        BY <2>1, <4>1 DEF Knows
    <3> QED
      BY <3>1, <3>2
  <2>2. CASE e # d
    <3>1. results'[e] = results[e] /\ pc'[e] = pc[e] /\ http'[e] = http[e]
      BY <1>1, <2>2
    <3> QED
      BY <3>1, KnowsStays DEF IInv
  <2> QED
    BY <2>1, <2>2
<1>6. ASSUME NEW e \in Deletes, NEW i \in 1..Len(results'[e])
      PROVE Says(graph.nodes, results[e][i], req[e].items[i])'
  <2>1. CASE e = d /\ i = n + 1
    <3>1. req'[e].items[i] = Item(d) /\ results'[e][i] = r
      BY <1>1, <2>1 DEF Item, n
    <3> QED
      BY <3>1 DEF Says
  <2>2. CASE ~ (e = d /\ i = n + 1)
    <3>1. i \in 1..Len(results[e]) /\ results'[e][i] = results[e][i]
      <4>1. CASE e = d
        <5>1. i \in 1..(n + 1) /\ i # n + 1 /\ n \in Nat
          BY <1>1, <2>2, <4>1
        <5>2. i \in 1..n
          BY <5>1
        <5> QED
          BY <1>1, <4>1, <5>2 DEF n
      <4>2. CASE e # d
        BY <1>1, <4>2
      <4> QED
        BY <4>1, <4>2
    <3>2. Says(graph.nodes, results[e][i], req[e].items[i])
      BY <3>1 DEF IInv
    <3>3. Says(graph'.nodes, results[e][i], req[e].items[i])
      BY <1>3, <3>2 DEF Says
    <3> QED
      BY <3>1, <3>3 DEF Says
  <2> QED
    BY <2>1, <2>2
<1> QED
  BY <1>4, <1>5, <1>6 DEF IInv

-----------------------------------------------------------------------------
(* Init and the actions.                                                   *)

\* Nothing is settled, nothing known.
LEMMA InitInv == Init => IInv
<1> SUFFICES ASSUME Init PROVE IInv
  OBVIOUS
<1>1. GraphOK
  BY GraphsAssumption DEF Init, GraphOK
<1>2. TypeOK
  BY RequestsAssumption, <1>1 DEF Init, TypeOK, GraphOK
<1>3. \A d \in Deletes : Knows(d)
  BY RequestsAssumption DEF Init, Knows
<1>4. \A d \in Deletes : Len(results[d]) = 0
  BY DEF Init
<1> QED
  BY <1>1, <1>2, <1>3, <1>4 DEF IInv

\* The label looked up is one of the file's, and while Neo4j answers the file has no
\* other: the id of a schedule is no other node's.
LEMMA LabelsRight ==
  ASSUME GraphOK, NEW source \in Sources, NEW id, NEW l \in Labels(source, id)
  PROVE  /\ l \in FileLabels(source)
         /\ ~ faults => \A k \in FileLabels(source) \ {l} : Node(k, id) \notin graph.nodes
<1>1. CASE source # "tws"
  BY <1>1, LabelFacts DEF Labels
<1>2. CASE source = "tws"
  <2> DEFINE found == {n.label : n \in {m \in graph.nodes : m.id = id}}
  <2>1. l \in {"TwsFile", "Schedule"}
    BY <1>2, LabelFacts DEF Labels
  <2>2. \A k : Node(k, id) \in graph.nodes => k \in found
    BY DEF Node
  <2>3. "Schedule" \in found => found = {"Schedule"}
    BY DEF GraphOK
  <2>4. ~ faults => (l = "Schedule" => found = {"Schedule"}) /\ (l = "TwsFile" => "Schedule" \notin found)
    BY <1>2, <2>3, LabelFacts DEF Labels
  <2> QED
    BY <1>2, <2>1, <2>2, <2>4, LabelFacts
<1> QED
  BY <1>1, <1>2

\* The label lookup, or the end of an item of no known source.
LEMMA ResolveInv == ASSUME IInv, NEW d \in Deletes, ResolveLabel(d) PROVE IInv'
<1>1. GraphOK' /\ graph' = graph /\ req' = req /\ faults' = faults
  BY DEF ResolveLabel, IInv, GraphOK
<1>2. CASE Item(d).source \notin Sources /\ Settle(d, FALSE, 0, "unknown source") /\ UNCHANGED label
  <2> DEFINE r == [deleted |-> FALSE, nodes |-> 0, why |-> "unknown source"]
  <2>1. r \in Result /\ Settle(d, r.deleted, r.nodes, r.why)
    BY <1>2 DEF Result, Whys
  <2>2. Says(graph'.nodes, r, Item(d))
    BY <1>2 DEF Says
  <2>3. pc[d] # "answered"
    BY DEF ResolveLabel
  <2> HIDE DEF r
  <2> QED
    BY <1>1, <1>2, <2>1, <2>2, <2>3, SettleInv
<1>3. CASE /\ Item(d).source \in Sources
           /\ \E l \in Labels(Item(d).source, Item(d).id) : label' = [label EXCEPT ![d] = l]
           /\ pc' = [pc EXCEPT ![d] = "exists"]
           /\ UNCHANGED <<results, http>>
  <2>1. PICK l \in Labels(Item(d).source, Item(d).id) : label' = [label EXCEPT ![d] = l]
    BY <1>3
  <2>2. /\ l \in FileLabels(Item(d).source)
        /\ ~ faults => \A k \in FileLabels(Item(d).source) \ {l} : Node(k, Item(d).id) \notin graph.nodes
    BY <1>3, LabelsRight DEF IInv
  <2>3. TypeOK'
    BY <1>1, <1>3, <2>1, <2>2, LabelFacts DEF IInv, TypeOK
  <2>4. \A e \in Deletes : Item(e)' = Item(e)
    BY <1>1, <1>3 DEF Item
  <2>5. /\ label'[d] = l /\ pc'[d] = "exists" /\ pc[d] = "resolve"
        /\ \A e \in Deletes \ {d} : label'[e] = label[e] /\ pc'[e] = pc[e]
    <3>1. /\ pc \in [Deletes -> {"resolve", "exists", "walk", "answered"}]
          /\ label \in [Deletes -> {FileLabel[s] : s \in Sources} \cup {"Schedule", "unknown"}]
      BY DEF IInv, TypeOK
    <3> QED
      BY <1>3, <2>1, <3>1 DEF ResolveLabel
  <2>6. ASSUME NEW e \in Deletes PROVE Knows(e)'
    <3>1. Knows(e)
      BY DEF IInv
    <3>2. CASE e = d
      BY <1>1, <1>3, <2>2, <2>4, <2>5, <3>1, <3>2 DEF Knows
    <3>3. CASE e # d
      BY <1>1, <1>3, <2>5, <3>1, <3>3, KnowsStays
    <3> QED
      BY <3>2, <3>3
  <2>7. \A e \in Deletes : \A i \in 1..Len(results[e]) : Says(graph.nodes, results[e][i], req[e].items[i])'
    BY <1>1, <1>3 DEF IInv, Says, Gone
  <2> QED
    BY <1>1, <1>3, <2>3, <2>6, <2>7 DEF IInv
<1> QED
  BY <1>2, <1>3 DEF ResolveLabel

\* The file is there under the label found, and so under no other; or it is missing.
LEMMA ExistsInv == ASSUME IInv, NEW d \in Deletes, Exists(d) PROVE IInv'
<1>1. /\ GraphOK' /\ graph' = graph /\ req' = req /\ faults' = faults /\ label' = label
      /\ pc[d] = "exists"
  BY DEF Exists, IInv, GraphOK
<1>2. Knows(d) /\ Item(d).source \in Sources /\ label[d] \in FileLabels(Item(d).source)
  BY <1>1 DEF IInv, Knows
<1>3. CASE File(d) \in graph.nodes /\ pc' = [pc EXCEPT ![d] = "walk"] /\ UNCHANGED <<results, http>>
  <2>1. \A k \in FileLabels(Item(d).source) \ {label[d]} : Node(k, Item(d).id) \notin graph.nodes
    <3>1. CASE Item(d).source # "tws"
      BY <1>2, <3>1, LabelFacts
    <3>2. CASE Item(d).source = "tws"
      BY <1>2, <1>3, <3>2, LabelFacts DEF IInv, GraphOK, File, Node
    <3> QED
      BY <3>1, <3>2
  <2>2. TypeOK'
    BY <1>1, <1>3 DEF IInv, TypeOK
  <2>3. \A e \in Deletes : Item(e)' = Item(e)
    BY <1>1, <1>3 DEF Item
  <2>4. pc'[d] = "walk" /\ \A e \in Deletes \ {d} : pc'[e] = pc[e]
    BY <1>3 DEF IInv, TypeOK
  <2>5. ASSUME NEW e \in Deletes PROVE Knows(e)'
    <3>1. Knows(e)
      BY DEF IInv
    <3>2. CASE e = d
      BY <1>1, <1>2, <1>3, <2>1, <2>3, <2>4, <3>1, <3>2 DEF Knows
    <3>3. CASE e # d
      BY <1>1, <1>3, <2>4, <3>1, <3>3, KnowsStays
    <3> QED
      BY <3>2, <3>3
  <2>6. \A e \in Deletes : \A i \in 1..Len(results[e]) : Says(graph.nodes, results[e][i], req[e].items[i])'
    BY <1>1, <1>3 DEF IInv, Says, Gone
  <2> QED
    BY <1>1, <1>3, <2>2, <2>5, <2>6 DEF IInv
<1>4. CASE File(d) \notin graph.nodes /\ Settle(d, FALSE, 0, "missing")
  <2>1. ~ faults => Gone(graph.nodes, Item(d).source, Item(d).id)
    BY <1>1, <1>2, <1>4 DEF Knows, Gone, File
  <2> DEFINE r == [deleted |-> FALSE, nodes |-> 0, why |-> "missing"]
  <2>2. r \in Result /\ Settle(d, r.deleted, r.nodes, r.why)
    BY <1>4 DEF Result, Whys
  <2>3. Says(graph'.nodes, r, Item(d))
    BY <1>1, <1>2, <2>1 DEF Says
  <2> HIDE DEF r
  <2> QED
    BY <1>1, <2>2, <2>3, SettleInv
<1> QED
  BY <1>3, <1>4 DEF Exists

\* What DETACH DELETE leaves is a graph, with less in it.
LEMMA DetachShrinks ==
  ASSUME GraphOK, NEW gone, graph' = DetachDelete(graph, gone)
  PROVE  GraphOK' /\ graph'.nodes = graph.nodes \ gone
<1>1. /\ graph'.nodes = graph.nodes \ gone
      /\ graph'.edges = {e \in graph.edges : e.from \notin gone /\ e.to \notin gone}
  BY DEF DetachDelete
<1>2. IsFiniteSet(graph'.nodes)
  <2>1. graph'.nodes \subseteq graph.nodes
    BY <1>1
  <2> QED
    BY <2>1, FS_Subset DEF GraphOK
<1> QED
  BY <1>1, <1>2 DEF GraphOK

\* The delete statement leaves the file under none of its labels, found or not.
LEMMA WalkInv == ASSUME IInv, NEW d \in Deletes, Walk(d) PROVE IInv'
<1> DEFINE children == Children(graph, Item(d).source, File(d))
<1>1. /\ req' = req /\ faults' = faults /\ label' = label /\ pc[d] = "walk"
      /\ Item(d).source \in Sources
      /\ \A l \in FileLabels(Item(d).source) \ {label[d]} : Node(l, Item(d).id) \notin graph.nodes
  BY DEF Walk, IInv, Knows
<1>2. CASE /\ File(d) \in graph.nodes
           /\ graph' = DetachDelete(graph, children \cup {File(d)})
           /\ Settle(d, TRUE, Cardinality(children) + 1, "")
  <2>1. GraphOK' /\ graph'.nodes = graph.nodes \ (children \cup {File(d)})
    BY <1>2, DetachShrinks DEF IInv
  <2>2. Gone(graph'.nodes, Item(d).source, Item(d).id)
    BY <1>1, <2>1 DEF Gone, File
  <2> DEFINE r == [deleted |-> TRUE, nodes |-> Cardinality(children) + 1, why |-> ""]
  <2>3. Cardinality(children) + 1 \in Nat
    <3>1. children \subseteq graph.nodes
      BY DEF Children
    <3>2. IsFiniteSet(children)
      BY <3>1, FS_Subset DEF IInv, GraphOK
    <3> QED
      BY <3>2, FS_CardinalityType
  <2>4. r \in Result /\ Settle(d, r.deleted, r.nodes, r.why)
    BY <1>2, <2>3 DEF Result, Whys
  <2>5. Says(graph'.nodes, r, Item(d))
    BY <1>1, <2>2 DEF Says
  <2> HIDE DEF r
  <2> QED
    BY <1>1, <2>1, <2>4, <2>5, SettleInv
<1>3. CASE File(d) \notin graph.nodes /\ Settle(d, TRUE, 0, "") /\ UNCHANGED graph
  <2>1. GraphOK' /\ graph'.nodes \subseteq graph.nodes
    BY <1>3 DEF IInv, GraphOK
  <2>2. Gone(graph.nodes, Item(d).source, Item(d).id)
    BY <1>1, <1>3 DEF Gone, File
  <2> DEFINE r == [deleted |-> TRUE, nodes |-> 0, why |-> ""]
  <2>3. r \in Result /\ Settle(d, r.deleted, r.nodes, r.why)
    BY <1>3 DEF Result, Whys
  <2>4. Says(graph'.nodes, r, Item(d))
    BY <1>1, <1>3, <2>2 DEF Says
  <2> HIDE DEF r
  <2> QED
    BY <1>1, <2>1, <2>3, <2>4, SettleInv
<1> QED
  BY <1>2, <1>3 DEF Walk

\* A statement Neo4j refuses changes nothing; its item is settled all the same.
LEMMA ErrorInv == ASSUME IInv, NEW d \in Deletes, Error(d) PROVE IInv'
<1> DEFINE r == [deleted |-> FALSE, nodes |-> 0, why |-> "error"]
<1>1. /\ GraphOK' /\ graph' = graph /\ req' = req /\ faults' = faults /\ label' = label
      /\ pc[d] \in {"exists", "walk"}
  BY DEF Error, IInv, GraphOK
<1>2. Item(d).source \in Sources
  BY <1>1 DEF IInv, Knows
<1>3. r \in Result /\ Settle(d, r.deleted, r.nodes, r.why)
  BY DEF Error, Result, Whys
<1>4. Says(graph'.nodes, r, Item(d))
  BY <1>2 DEF Says
<1> HIDE DEF r
<1> QED
  BY <1>1, <1>3, <1>4, SettleInv

\* Every step of every delete keeps the invariant.
LEMMA NextInv == IInv /\ [Next]_vars => IInv'
<1> SUFFICES ASSUME IInv, [Next]_vars PROVE IInv'
  OBVIOUS
<1>1. CASE Next
  BY <1>1, ResolveInv, ExistsInv, WalkInv, ErrorInv DEF Next
<1>2. CASE UNCHANGED vars
  <2>1. TypeOK' /\ GraphOK'
    BY <1>2 DEF vars, IInv, TypeOK, GraphOK
  <2>2. \A d \in Deletes : Knows(d)'
    BY <1>2, KnowsStays DEF vars, IInv
  <2>3. \A d \in Deletes : \A i \in 1..Len(results[d]) :
          Says(graph.nodes, results[d][i], req[d].items[i])'
    BY <1>2 DEF vars, IInv, Says
  <2> QED
    BY <1>2, <2>1, <2>2, <2>3 DEF vars, IInv
<1> QED
  BY <1>1, <1>2

-----------------------------------------------------------------------------
(* The theorems.                                                           *)

\* The invariant, in every reachable state.
THEOREM Invariant == Spec => []IInv
BY InitInv, NextInv, PTL DEF Spec

\* The state keeps its types: no edge is left without its ends, and no batch has more
\* results than items.
THEOREM TypeCorrect == Spec => []TypeOK
<1>1. IInv => TypeOK
  BY DEF IInv
<1> QED
  BY <1>1, Invariant, PTL

\* The results and the indexes they are read at.
LEMMA ResultIndexes ==
  ASSUME IInv, NEW d \in Deletes
  PROVE  DOMAIN results[d] = 1..Len(results[d])
BY DEF IInv, TypeOK

\* An answered batch has a result for every item, whatever failed on the way.
THEOREM BatchesSettled == Spec => []BatchSettled
<1>1. IInv => BatchSettled
  <2> SUFFICES ASSUME IInv, NEW d \in Deletes, pc[d] = "answered"
               PROVE  /\ Len(results[d]) = Len(req[d].items)
                      /\ req[d].bulk => http[d] = 200
                      /\ ~ req[d].bulk => http[d] = Status(results[d][1].why)
                      /\ \A i \in DOMAIN results[d] :
                           (results[d][i].why = "unknown source")
                             <=> (req[d].items[i].source \notin Sources)
    BY DEF BatchSettled
  <2>1. /\ Len(results[d]) = Len(req[d].items)
        /\ req[d].bulk => http[d] = 200
        /\ ~ req[d].bulk => http[d] = Status(results[d][1].why)
    BY DEF IInv, Knows
  <2>2. ASSUME NEW i \in DOMAIN results[d]
        PROVE  (results[d][i].why = "unknown source") <=> (req[d].items[i].source \notin Sources)
    <3>1. Says(graph.nodes, results[d][i], req[d].items[i])
      BY ResultIndexes DEF IInv
    <3> QED
      BY <3>1 DEF Says
  <2> QED
    BY <2>1, <2>2
<1> QED
  BY <1>1, Invariant, PTL

\* A file answered as deleted is in the graph under none of its labels, and stays so.
THEOREM DeletedFilesGone == Spec => []DeletedIsGone
<1>1. IInv => DeletedIsGone
  BY ResultIndexes DEF IInv, DeletedIsGone, Says, Gone
<1> QED
  BY <1>1, Invariant, PTL

\* While Neo4j answers, an item answered as missing is no row of the file list.
THEOREM MissingIsMissing == Spec => []NoFalse404
<1>1. IInv => NoFalse404
  <2> SUFFICES ASSUME IInv, ~ faults, NEW d \in Deletes, NEW i \in DOMAIN results[d],
                      results[d][i].why = "missing",
                      NEW n \in Listed(graph, req[d].items[i].source),
                      n.id = req[d].items[i].id
               PROVE  FALSE
    BY DEF NoFalse404
  <2> DEFINE item == req[d].items[i]
  <2>1. Says(graph.nodes, results[d][i], item)
    BY ResultIndexes DEF IInv
  <2>2. item.source \in Sources /\ Gone(graph.nodes, item.source, item.id)
    BY <2>1 DEF Says
  <2>3. n \in graph.nodes /\ n.label \in FileLabels(item.source)
    BY LabelFacts DEF Listed, FileLabels
  <2>4. n = Node(n.label, item.id)
    BY <2>3 DEF IInv, GraphOK
  <2> QED
    BY <2>2, <2>3, <2>4 DEF Gone
<1> QED
  BY <1>1, Invariant, PTL

\* No step takes a :Table or :Connection, whichever files point at it.
THEOREM SharedNodesSurvive == Spec => SharedLabelsSurvive
<1> DEFINE Survive == \A n \in graph.nodes : n.label \in Shared => n \in graph'.nodes
<1>1. IInv /\ [Next]_vars => [Survive]_vars
  <2> SUFFICES ASSUME IInv, Next, NEW n \in graph.nodes, n.label \in Shared
               PROVE  n \in graph'.nodes
    OBVIOUS
  <2>1. ASSUME NEW d \in Deletes, ResolveLabel(d) \/ Exists(d) \/ Error(d) PROVE graph' = graph
    BY <2>1 DEF ResolveLabel, Exists, Error
  <2>2. ASSUME NEW d \in Deletes, Walk(d) PROVE n \in graph'.nodes
    <3> DEFINE children == Children(graph, Item(d).source, File(d))
    <3>1. CASE UNCHANGED graph
      BY <3>1
    <3>2. CASE graph' = DetachDelete(graph, children \cup {File(d)})
      <4>1. n \notin children
        BY DEF Children
      <4>2. Item(d).source \in Sources /\ label[d] \in FileLabels(Item(d).source)
        BY <2>2 DEF IInv, Knows, Walk
      <4>3. n # File(d)
        BY <4>2, LabelFacts DEF File, Node
      <4> QED
        BY <3>2, <4>1, <4>3 DEF DetachDelete
    <3> QED
      BY <2>2, <3>1, <3>2 DEF Walk
  <2> QED
    BY <2>1, <2>2 DEF Next
<1> QED
  BY <1>1, Invariant, PTL DEF Spec, SharedLabelsSurvive
=============================================================================
