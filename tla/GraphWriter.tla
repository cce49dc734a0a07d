----------------------------- MODULE GraphWriter -----------------------------
(***************************************************************************)
(* The parsers' graph writers.  Every parse request derives a plan from    *)
(* its file, a sequence of statements, and sends them to Neo4j one after   *)
(* the other, each in a transaction of its own: the statements of several  *)
(* requests interleave, and a request that fails leaves what it has sent.  *)
(*                                                                         *)
(* What the plan of a file is, is the parser's affair (TwsTopology).       *)
(***************************************************************************)
EXTENDS PropertyGraph

CONSTANTS
  Writers,  \* parse requests
  Mixes     \* sets of plans, each [overwrite, steps, ...] with steps a sequence of
            \* statements: the requests of one behaviour have plans of one set

VARIABLES
  graph,    \* the Neo4j graph
  plan,     \* [Writers -> Plans]: the plan of a request, any before it starts
  at,       \* [Writers -> Nat]: the next statement to send
  pc        \* [Writers -> {"idle", "writing", "done", "failed"}]

vars == <<graph, plan, at, pc>>

Plans == UNION Mixes

\* A statement is nodes, edges or a deletion (Applied), a plan a sequence of them.
Statements == UNION {{p.steps[i] : i \in DOMAIN p.steps} : p \in Plans}

ASSUME PlansAssumption ==
  /\ \A p \in Plans : p.overwrite \in BOOLEAN /\ p.steps \in Seq(Statements)
  /\ \A st \in Statements : st.op \in {"nodes", "edges", "delete"}

TypeOK ==
  /\ \A e \in graph.edges : e.from \in graph.nodes /\ e.to \in graph.nodes
  /\ plan \in [Writers -> Plans]
  /\ pc \in [Writers -> {"idle", "writing", "done", "failed"}]
  /\ at \in [Writers -> Nat]
  /\ \A w \in Writers : at[w] \in 1..(Len(plan[w].steps) + 1)

Init ==
  /\ graph = EmptyGraph
  /\ \E mix \in Mixes : plan \in [Writers -> mix]
  /\ at = [w \in Writers |-> 1]
  /\ pc = [w \in Writers |-> "idle"]

\* POST /parse: the file is parsed, its plan known.
Start(w) ==
  /\ pc[w] = "idle"
  /\ pc' = [pc EXCEPT ![w] = "writing"]
  /\ UNCHANGED <<graph, plan, at>>

\* session.execute_write of the next statement.
Send(w) ==
  /\ pc[w] = "writing" /\ at[w] <= Len(plan[w].steps)
  /\ graph' = Applied(graph, plan[w].steps[at[w]])
  /\ at' = [at EXCEPT ![w] = @ + 1]
  /\ UNCHANGED <<plan, pc>>

Finish(w) ==
  /\ pc[w] = "writing" /\ at[w] > Len(plan[w].steps)
  /\ pc' = [pc EXCEPT ![w] = "done"]
  /\ UNCHANGED <<graph, plan, at>>

\* Neo4j refuses a statement or the parser stops: the handler raises, or is gone.
Fail(w) ==
  /\ pc[w] = "writing"
  /\ pc' = [pc EXCEPT ![w] = "failed"]
  /\ UNCHANGED <<graph, plan, at>>

Next == \E w \in Writers : Start(w) \/ Send(w) \/ Finish(w) \/ Fail(w)

Spec == Init /\ [][Next]_vars

-----------------------------------------------------------------------------
Whole(p) ==
  NodesOf(p.steps) \subseteq graph.nodes /\ EdgesOf(p.steps) \subseteq graph.edges

Overwriting == \E w \in Writers : plan[w].overwrite

\* A request that is done has left its whole file in the graph, whatever the others
\* were writing meanwhile and wherever they failed: an edge row is silently skipped
\* when an end is missing, so this rests on the order of the batches.  It is only
\* promised while nobody deletes.
CompleteWhenDone == ~ Overwriting => \A w \in Writers : pc[w] = "done" => Whole(plan[w])

\* With requests that delete before they write, one may be done and find its nodes
\* deleted by a slower one, which writes them again unless it fails: once every
\* request for the file is done, it is whole.
QuiescentWhole ==
  (\A v, w \in Writers : pc[w] = "done" /\ plan[v] = plan[w]) => \A w \in Writers : Whole(plan[w])

\* "MERGE-only writes": without overwriting no request, done or failed, takes a node
\* or an edge away.
GraphOnlyGrows ==
  [][~ Overwriting => /\ graph.nodes \subseteq graph'.nodes
                      /\ graph.edges \subseteq graph'.edges]_vars

\* What these rest on in the plans.
DeletesOnlyToOverwrite == \A p \in Plans : ~ p.overwrite => DeletesNothing(p.steps)
DeletesFirst == \A p \in Plans : DeletesLead(p.steps)
NodesBeforeEdges == \A p \in Plans : EndsFirst(p.steps)
=============================================================================
