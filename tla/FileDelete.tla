----------------------------- MODULE FileDelete -----------------------------
(***************************************************************************)
(* DELETE /files/{source}/{id} and POST /files/bulk-delete of the gateway: *)
(* for each item the label of the file's node is found, the node looked    *)
(* up, and the node deleted with what the source's containment chain       *)
(* reaches from it.  The three are separate transactions, and requests run *)
(* beside each other.                                                      *)
(***************************************************************************)
EXTENDS PropertyGraph, FiniteSets

CONSTANTS
  Deletes,   \* the requests
  Requests,  \* what they may ask: [bulk, items], items a sequence of [source, id]
  Graphs     \* graphs the parsers have left

\* BulkDeleteRequest has at least one item.  Node ids are hashes of a kind and a key:
\* the id of a :Schedule is no other node's.
ASSUME RequestsAssumption ==
  \A r \in Requests : Len(r.items) \in Nat \ {0} /\ (~ r.bulk => Len(r.items) = 1)
ASSUME GraphsAssumption ==
  \A g \in Graphs :
    /\ IsFiniteSet(g.nodes)
    /\ \A e \in g.edges : e.from \in g.nodes /\ e.to \in g.nodes
    /\ \A n \in g.nodes : n = Node(n.label, n.id)
    /\ \A m, n \in g.nodes : m.id = n.id /\ m.label = "Schedule" => n.label = "Schedule"

VARIABLES
  graph,
  faults,    \* whether Neo4j may refuse a statement: the same throughout
  req,       \* [Deletes -> Requests]
  pc,        \* [Deletes -> {"resolve", "exists", "walk", "answered"}]
  label,     \* [Deletes -> label of the current item's file node]
  results,   \* [Deletes -> sequence of [deleted, nodes, why]], one per settled item
  http       \* [Deletes -> status, 0 before the answer]

vars == <<graph, faults, req, pc, label, results, http>>

FileLabel ==
  [tableau |-> "TableauWorkbook", qlikview |-> "QlikScript", spark |-> "SparkScript",
   tws |-> "TwsFile"]
Sources == DOMAIN FileLabel

Chain ==
  [tableau |-> {"CONTAINS_DATASOURCE", "CONTAINS_DASHBOARD", "CONTAINS_WORKSHEET",
                "HAS_PARAMETER", "DISPLAYS_WORKSHEET"},
   qlikview |-> {"CONTAINS_TABLE", "CONTAINS_CHART", "CONTAINS_SHEET", "HAS_VARIABLE",
                 "HAS_SUBROUTINE", "USES_FIELD", "HAS_ATTRIBUTE", "HAS_CONSTRAINT",
                 "STORED_AS", "FEEDS_OBJECT"},
   spark |-> {"CONTAINS_DATAFRAME", "HAS_FIELD"},
   tws |-> {"CONTAINS_SCHEDULE", "CONTAINS_JOB", "CONTAINS_COMPONENT", "CALLS_SCRIPT",
            "HAS_RESOURCE", "EXECUTES", "REQUIRES_RESOURCE", "WAITS_FOR_PROMPT",
            "WAITS_FOR_FILE", "HOSTS_STREAM", "SCHEDULED_BY"}]

Shared == {"Table", "Connection"}
MaxHops == 6

\* The labels a file of a source may have, and the rows GET /files lists for it: for
\* TWS the :TwsFile nodes and the schedules none of them contains.
FileLabels(source) == {FileLabel[source]} \cup (IF source = "tws" THEN {"Schedule"} ELSE {})
Listed(g, source) ==
  {n \in g.nodes :
     \/ n.label = FileLabel[source]
     \/ /\ source = "tws" /\ n.label = "Schedule"
        /\ ~ \E e \in g.edges : e.to = n /\ e.type = "CONTAINS_SCHEDULE"}

\* What the delete statement takes besides the file.
\* (bug: the filter on shared labels is lost)
ChildrenUnfiltered(g, source, file) ==
  (g.nodes \cap Within(g, Chain[source], {file}, MaxHops)) \ {file}
Children(g, source, file) ==
  {n \in g.nodes \cap Within(g, Chain[source], {file}, MaxHops) : n.label \notin Shared} \ {file}

-----------------------------------------------------------------------------
Whys == {"", "unknown source", "missing", "error"}
Result == [deleted : BOOLEAN, nodes : Nat, why : Whys]

TypeOK ==
  /\ \A e \in graph.edges : e.from \in graph.nodes /\ e.to \in graph.nodes
  /\ faults \in BOOLEAN
  /\ req \in [Deletes -> Requests]
  /\ pc \in [Deletes -> {"resolve", "exists", "walk", "answered"}]
  /\ label \in [Deletes -> {FileLabel[s] : s \in Sources} \cup {"Schedule", "unknown"}]
  /\ results \in [Deletes -> Seq(Result)]
  /\ http \in [Deletes -> {0, 200, 400, 404, 500}]
  /\ \A d \in Deletes :
       /\ Len(results[d]) <= Len(req[d].items)

Init ==
  /\ graph \in Graphs
  /\ faults \in BOOLEAN
  /\ req \in [Deletes -> Requests]
  /\ pc = [d \in Deletes |-> "resolve"]
  /\ label = [d \in Deletes |-> "unknown"]
  /\ results = [d \in Deletes |-> <<>>]
  /\ http = [d \in Deletes |-> 0]

Item(d) == req[d].items[Len(results[d]) + 1]
Status(why) == IF why = "" THEN 200 ELSE IF why = "unknown source" THEN 400
               ELSE IF why = "missing" THEN 404 ELSE 500

\* An item is settled: its result is recorded and the next one begun; a single
\* delete answers with its status, a bulk delete with 200 after its last item.
\* (bug: a failed item ends the batch)
SettleAborting(d, deleted, nodes, why) ==
  LET all == Append(results[d], [deleted |-> deleted, nodes |-> nodes, why |-> why])
      last == Len(all) = Len(req[d].items) \/ why # ""
  IN /\ results' = [results EXCEPT ![d] = all]
     /\ pc' = [pc EXCEPT ![d] = IF last THEN "answered" ELSE "resolve"]
     /\ http' = [http EXCEPT ![d] = IF ~ last THEN 0
                                            ELSE IF req[d].bulk THEN 200 ELSE Status(why)]
Settle(d, deleted, nodes, why) ==
  LET all == Append(results[d], [deleted |-> deleted, nodes |-> nodes, why |-> why])
      last == Len(all) = Len(req[d].items)
  IN /\ results' = [results EXCEPT ![d] = all]
     /\ pc' = [pc EXCEPT ![d] = IF last THEN "answered" ELSE "resolve"]
     /\ http' = [http EXCEPT ![d] = IF ~ last THEN 0
                                            ELSE IF req[d].bulk THEN 200 ELSE Status(why)]

\* The label of the file's node.  A TWS id may be a :TwsFile's or a :Schedule's: any
\* node with the id is asked for its label; if there is none, the label is neither or
\* the query fails, the source's own label is taken.
\* (bug: the source's own label is always taken)
LabelsPrimary(source, id) == {FileLabel[source]}
Labels(source, id) ==
  LET found == {n.label : n \in {m \in graph.nodes : m.id = id}}
  IN IF source # "tws" THEN {FileLabel[source]}
     ELSE IF faults \/ found \ {"Schedule"} # {} \/ found = {}
          THEN (found \cap {"Schedule"}) \cup {FileLabel["tws"]}
          ELSE {"Schedule"}

ResolveLabel(d) ==
  /\ pc[d] = "resolve"
  /\ \/ /\ Item(d).source \notin Sources
        /\ Settle(d, FALSE, 0, "unknown source")
        /\ UNCHANGED label
     \/ /\ Item(d).source \in Sources
        /\ \E l \in Labels(Item(d).source, Item(d).id) : label' = [label EXCEPT ![d] = l]
        /\ pc' = [pc EXCEPT ![d] = "exists"]
        /\ UNCHANGED <<results, http>>
  /\ UNCHANGED <<graph, faults, req>>

File(d) == Node(label[d], Item(d).id)

Exists(d) ==
  /\ pc[d] = "exists"
  /\ \/ /\ File(d) \in graph.nodes
        /\ pc' = [pc EXCEPT ![d] = "walk"]
        /\ UNCHANGED <<results, http>>
     \/ /\ File(d) \notin graph.nodes
        /\ Settle(d, FALSE, 0, "missing")
  /\ UNCHANGED <<graph, faults, req, label>>

\* The delete statement finds the file again, or returns no record if it is gone.
\* (bug: what the file contains is deleted, the file is not)
WalkBelow(d) ==
  /\ pc[d] = "walk"
  /\ LET children == Children(graph, Item(d).source, File(d))
     IN IF File(d) \in graph.nodes
        THEN /\ graph' = DetachDelete(graph, children)
             /\ Settle(d, TRUE, Cardinality(children) + 1, "")
        ELSE /\ Settle(d, TRUE, 0, "")
             /\ UNCHANGED graph
  /\ UNCHANGED <<faults, req, label>>
Walk(d) ==
  /\ pc[d] = "walk"
  /\ LET children == Children(graph, Item(d).source, File(d))
     IN IF File(d) \in graph.nodes
        THEN /\ graph' = DetachDelete(graph, children \cup {File(d)})
             /\ Settle(d, TRUE, Cardinality(children) + 1, "")
        ELSE /\ Settle(d, TRUE, 0, "")
             /\ UNCHANGED graph
  /\ UNCHANGED <<faults, req, label>>

\* Neo4j refuses one of the two statements.
Error(d) ==
  /\ faults /\ pc[d] \in {"exists", "walk"}
  /\ Settle(d, FALSE, 0, "error")
  /\ UNCHANGED <<graph, faults, req, label>>

Next == \E d \in Deletes : ResolveLabel(d) \/ Exists(d) \/ Walk(d) \/ Error(d)

Spec == Init /\ [][Next]_vars

-----------------------------------------------------------------------------
\* No delete takes a :Table or :Connection, whichever files point at it.
SharedLabelsSurvive ==
  [][\A n \in graph.nodes : n.label \in Shared => n \in graph'.nodes]_vars

\* Every item of a batch is settled, whatever became of the ones before it: an
\* answered batch has a result per item, and an item that failed did so on its own
\* account.
BatchSettled ==
  \A d \in Deletes : pc[d] = "answered" =>
    /\ Len(results[d]) = Len(req[d].items)
    /\ req[d].bulk => http[d] = 200
    /\ ~ req[d].bulk => http[d] = Status(results[d][1].why)
    /\ \A i \in DOMAIN results[d] :
         (results[d][i].why = "unknown source") <=> (req[d].items[i].source \notin Sources)

\* A file answered as deleted is gone, under whichever of its labels.
DeletedIsGone ==
  \A d \in Deletes : \A i \in DOMAIN results[d] :
    results[d][i].deleted =>
      \A l \in FileLabels(req[d].items[i].source) : Node(l, req[d].items[i].id) \notin graph.nodes

\* "Legacy parses that only produced :Schedule still appear in the listing; the delete
\* matches the same id-shape": while Neo4j answers, no row of the file list is missing
\* to a delete of it.
NoFalse404 ==
  ~ faults =>
    \A d \in Deletes : \A i \in DOMAIN results[d] :
      results[d][i].why = "missing" =>
        \A n \in Listed(graph, req[d].items[i].source) : n.id # req[d].items[i].id

\* "Remove a parsed file along with the nodes it exclusively owns": what goes with a
\* file is not contained in another file.  Refuted by a run.
Files(g) == UNION {Listed(g, s) : s \in Sources}
SourceOf(file) == CHOOSE s \in Sources : file.label \in FileLabels(s)
OnlyExclusiveDeleted ==
  [][\A n \in graph.nodes \ graph'.nodes :
       \A f \in Files(graph) \cap graph'.nodes : n \notin Children(graph, SourceOf(f), f)]_vars
=============================================================================
