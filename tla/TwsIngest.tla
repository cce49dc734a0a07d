------------------------------ MODULE TwsIngest ------------------------------
(***************************************************************************)
(* POST /parse of the TWS parser: a file is parsed and resolved, its plan  *)
(* written to Neo4j statement by statement, and then its jobs upserted     *)
(* into Postgres in one transaction.                                       *)
(***************************************************************************)
EXTENDS GraphWriter, TwsTopology

VARIABLES
  mirror,   \* the ids of the rows of tws.jobs
  alone     \* history: the requests beside which no other has been writing

allvars == <<vars, mirror, alone>>

\* (bug: overwrite is taken to be set)
PlanAlwaysOverwriting(unit, path, overwrite) ==
  [unit |-> unit, path |-> path, overwrite |-> overwrite, steps |-> Steps(unit, path, TRUE)]
Plan(unit, path, overwrite) ==
  [unit |-> unit, path |-> path, overwrite |-> overwrite, steps |-> Steps(unit, path, overwrite)]

\* A request's plan is the one derived from what its file was parsed to.
ASSUME ParsedAssumption ==
  \A p \in Plans : /\ p = Plan(p.unit, p.path, p.overwrite)
                   /\ p.unit.streams \in Seq(Streams(p.unit))

JobIds(unit) == {JobId(j) : j \in Jobs(unit)}

InitParse == Init /\ mirror = {} /\ alone = Writers

\* RDBMSWriter.write_schedules: rows are inserted or updated, never deleted, and
\* committed once at the end.
\* (bug: Postgres is written before the graph is complete)
CommitEarly(w) ==
  /\ pc[w] = "writing"
  /\ mirror' = mirror \cup JobIds(plan[w].unit)
  /\ pc' = [pc EXCEPT ![w] = IF at[w] > Len(plan[w].steps) THEN "done" ELSE "writing"]
  /\ UNCHANGED <<graph, plan, at>>
Commit(w) ==
  /\ Finish(w)
  /\ mirror' = mirror \cup JobIds(plan[w].unit)

NextParse ==
  /\ \E w \in Writers :
       \/ Commit(w)
       \/ (Start(w) \/ Send(w) \/ Fail(w)) /\ UNCHANGED mirror
  /\ alone' = {w \in alone : pc'[w] = "writing" =>
                  \A v \in Writers \ {w} : pc'[v] # "writing"}

SpecParse == InitParse /\ [][NextParse]_allvars

-----------------------------------------------------------------------------
\* Without overwriting, a job in Postgres is in the graph: the rows are committed
\* after the nodes, and neither is removed.
MirrorNotAhead == ~ Overwriting => \A id \in mirror : JobNode(id) \in graph.nodes

\* What this rests on in the plans: a file's jobs are among the nodes it writes.
JobsAmongNodes == \A p \in Plans : {JobNode(id) : id \in JobIds(p.unit)} \subseteq NodesOf(p.steps)

Reparsed(w) == \E v \in Writers : pc[v] = "done" /\ plan[v] = plan[w]

\* "Re-parsing the same file is a no-op on the graph": no statement of a request adds
\* a node when another request for the file has completed, nor an edge between nodes
\* of the file; one to a node that another file has declared since may appear.
ReparseIsNoOp ==
  [][\A w \in Writers :
       at'[w] # at[w] /\ Reparsed(w) /\ ~ Overwriting =>
         /\ graph'.nodes = graph.nodes
         /\ \A e \in graph'.edges \ graph.edges : ~ {e.from, e.to} \subseteq NodesOf(plan[w].steps)
    ]_allvars

\* An overwriting request beside which nobody writes leaves in the streams it declares
\* exactly the jobs it declares, whatever an older version had in them and wherever a
\* request for that stopped.
OverwriteReplacesJobs ==
  [][\A w \in Writers :
       pc[w] = "writing" /\ pc'[w] = "done" /\ plan[w].overwrite /\ w \in alone
       => \A e \in graph.edges :
            e.type = "CONTAINS_JOB" /\ e.from \in NodesOf(plan[w].steps) => e \in EdgesOf(plan[w].steps)
    ]_allvars
=============================================================================
