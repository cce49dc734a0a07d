------------------------------- MODULE Writers -------------------------------
(***************************************************************************)
(* Parse requests of the Spark, QlikView and Tableau parsers on one graph. *)
(* Each sends the statements of its plan one after the other (WriterPlans);*)
(* the statements of different requests interleave, and each may fail.     *)
(* The requests are numbered in the order they arrive for a file.          *)
(***************************************************************************)
EXTENDS SparkGraph, QlikGraph, TableauGraph

CONSTANT Mixes  \* sequences of parse requests: those of one behaviour

\* What a request makes of its file, a workbook [file, overwrite].
PlanOf(request) ==
  CASE request.kind = "script" -> ScriptPlan(request.file)
    [] request.kind = "project" -> ProjectPlan(request.file)
    [] request.kind = "app" -> AppPlan(request.file)
    [] request.kind = "workbook" -> WorkbookPlan(request.file, request.overwrite)

IsRequest(request) ==
  \/ request.kind = "script" /\ IsScript(request.file)
  \/ request.kind = "project" /\ IsProject(request.file)
  \/ request.kind = "app" /\ IsApp(request.file)
  \/ request.kind = "workbook" /\ IsWorkbook(request.file) /\ request.overwrite \in BOOLEAN

ASSUME FilesAssumption == \A m \in Mixes : IsSeq(m) /\ \A r \in DOMAIN m : IsRequest(m[r])

VARIABLES
  graph,      \* the Neo4j graph
  tableId,    \* the id property of the :Table nodes
  plan,       \* the plans of this behaviour
  at,         \* the next statement of each request
  pc,         \* "idle", "writing" or "answered", by request
  disturbed   \* whether a statement has failed, or two requests of one file overlapped

vars == <<graph, tableId, plan, at, pc, disturbed>>

Requests == DOMAIN plan

\* The requests that have a file in common with r.
SameFile(r) == {q \in Requests : plan[q].roots \cap plan[r].roots # {}}

Tables == {n \in graph.nodes : n.label = "Table"}

Init ==
  /\ graph = EmptyGraph
  /\ tableId = <<>>
  /\ \E m \in Mixes : plan = [r \in DOMAIN m |-> PlanOf(m[r])]
  /\ at = [r \in Requests |-> 1]
  /\ pc = [r \in Requests |-> "idle"]
  /\ disturbed = FALSE

-----------------------------------------------------------------------------
\* The nodes an end of an edge row matches.
Matched(end) ==
  IF end.label # "?" THEN {end}
  ELSE IF end.by = "id" THEN {t \in Tables : tableId[t] = end.key}
  ELSE IF end.by = "name"
       THEN {n \in graph.nodes : n.label = "QlikTable" /\ n.id[4] = end.key}
  ELSE {n \in graph.nodes : n.label = "QlikScript" /\ n.id[3] = end.key}

\* A QlikScript does not inherit from itself.
RowEdges(e) ==
  {Edge(f, e.type, t) : f \in Matched(e.from), t \in Matched(e.to)}
    \ (IF e.type = "INHERITS_FROM" THEN {Edge(e.from, e.type, e.from)} ELSE {})

\* (bug: the id is set ON MATCH only)
MergeTablesOnMatch(st) ==
  LET merged == {r.table : r \in st.rows}
      rowOf(t) == CHOOSE r \in st.rows : r.table = t
  IN /\ graph' = MergeNodes(graph, merged)
     /\ tableId' = [t \in Tables \cup merged |->
          IF t \notin Tables THEN <<>> ELSE IF t \in merged THEN rowOf(t).id ELSE tableId[t]]
MergeTables(st) ==
  LET merged == {r.table : r \in st.rows}
      rowOf(t) == CHOOSE r \in st.rows : r.table = t
  IN /\ graph' = MergeNodes(graph, merged)
     /\ tableId' = [t \in Tables \cup merged |->
          IF t \in merged /\ (st.how = "set" \/ t \notin Tables) THEN rowOf(t).id ELSE tableId[t]]

Run(st) ==
  IF st.op = "tables" THEN MergeTables(st)
  ELSE /\ graph' = IF st.op = "edges" THEN MatchMergeEdges(graph, UNION {RowEdges(e) : e \in st.rows})
                   ELSE Applied(graph, st)
       /\ UNCHANGED tableId

\* POST /parse: the file is parsed, its plan known.
Start(r) ==
  /\ pc[r] = "idle" /\ \A q \in SameFile(r) : q < r => pc[q] # "idle"
  /\ pc' = [pc EXCEPT ![r] = "writing"]
  /\ disturbed' = (disturbed \/ \E q \in SameFile(r) : pc[q] = "writing")
  /\ UNCHANGED <<graph, tableId, plan, at>>

Send(r) ==
  /\ pc[r] = "writing" /\ at[r] <= Len(plan[r].steps)
  /\ Run(plan[r].steps[at[r]])
  /\ at' = [at EXCEPT ![r] = @ + 1]
  /\ UNCHANGED <<plan, pc, disturbed>>

\* A statement fails: the exception is swallowed up to where the plan resumes, or ends
\* the request.  The Tableau parser answers 500 then, the other two as if it had written.
Fail(r) ==
  LET next == plan[r].resume[at[r]] IN
  /\ pc[r] = "writing" /\ at[r] <= Len(plan[r].steps)
  /\ disturbed' = TRUE
  /\ at' = [at EXCEPT ![r] = next]
  /\ pc' = [pc EXCEPT ![r] = IF next <= Len(plan[r].steps) THEN @ ELSE "answered"]
  /\ UNCHANGED <<graph, tableId, plan>>

Answer(r) ==
  /\ pc[r] = "writing" /\ at[r] > Len(plan[r].steps)
  /\ pc' = [pc EXCEPT ![r] = "answered"]
  /\ UNCHANGED <<graph, tableId, plan, at, disturbed>>

Next == \E r \in Requests : Start(r) \/ Send(r) \/ Fail(r) \/ Answer(r)

Spec == Init /\ [][Next]_vars

-----------------------------------------------------------------------------
\* The request whose content is the file's last, and it is answered.
Settled(r) == pc[r] = "answered" /\ \A q \in SameFile(r) : q > r => pc[q] = "idle"

\* All parsers compute the same id for a :Table they merge on the same key.
IdsAgree ==
  \A p, q \in Range(plan) : \A a \in p.tables, b \in q.tables : a.table = b.table => a.id = b.id

\* Whoever else writes meanwhile, a request that is answered has left every node and
\* edge it means in the graph: edges are matched, Spark's by the id of the table, and a
\* row that finds nothing is skipped without an error.  It needs the parsers to agree on
\* ids, and that nothing failed and no two requests of a file overlapped.
LineageLands ==
  IdsAgree /\ ~ disturbed =>
    \A r \in Requests : Settled(r) =>
      plan[r].nodes \subseteq graph.nodes /\ plan[r].edges \subseteq graph.edges

\* As long as no statement has failed and no two requests of a file have overlapped, a
\* purge or an overwrite takes nothing away that another file means to write, also while
\* that is half written.  (The premise is needed: a workbook whose parse stopped between
\* its HAS_FIELD and its HAS_COLUMN rows does delete, when it is overwritten, a column
\* that another workbook has written and not yet given its table.)
OthersKept ==
  [][~ disturbed =>
       \A r \in Requests : at[r] # at'[r] =>
         \A q \in Requests \ SameFile(r) :
           pc[q] # "idle" => plan[q].nodes \cap (graph.nodes \ graph'.nodes) = {}]_vars

\* The two-hop content of a root along a pair of edge types.
Content(edges, root, pair) ==
  LET g == [nodes |-> {}, edges |-> edges]
      one == Hop(g, {pair[1]}, {root})
  IN one \cup Hop(g, {pair[2]}, one)

\* A request that replaces leaves just its own content under its file's node: nothing
\* of an earlier parse of the file is still contained in it.
NothingStale ==
  ~ disturbed =>
    \A r \in Requests : Settled(r) =>
      \A pair \in plan[r].owns, root \in plan[r].roots :
        Content(graph.edges, root, pair) = Content(plan[r].edges, root, pair)

\* The parsers compute one id for one physical table, so it is one node whoever reads
\* or writes it: what the comments on ids promise, and the merge on the name as it is
\* spelt does not keep.
OneNodePerTable == \A s, t \in Tables : tableId[s] = tableId[t] => s = t
=============================================================================
