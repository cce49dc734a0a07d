----------------------------- MODULE SparkScript -----------------------------
(***************************************************************************)
(* The Spark parser at work on one request: POST /parse on a script, a     *)
(* notebook or a .sql file, POST /parse/project on an entry script and its *)
(* project.  One step is the discovery of the project, the first pass over *)
(* a file, the visit of one of its top-level statements, or the end of its *)
(* parse.                                                                  *)
(*                                                                         *)
(* A job is [kind, file, tree, entry, depth, truth, checks]: kind file or  *)
(* project; the file; the tree, the path of its entry and max_depth of a   *)
(* project.  truth and checks are for the properties: the functions the    *)
(* entry imports, by name, and what is asked of the result.                *)
(***************************************************************************)
EXTENDS SparkNotebook

CONSTANTS
  Jobs,           \* the requests
  VisitOf(_, _)   \* the visit of one statement: Visit of SparkVisitor

VARIABLES
  job,     \* the request
  phase,   \* accepted, ready, visiting, done
  found,   \* what _discover found: [order, warnings]
  queue,   \* the files still to be parsed
  todo,    \* the top-level statements of the current file still to be visited
  v,       \* its visitor
  parsed   \* the modules parsed: [path, v, edges, runs, stats]
vars == <<job, phase, found, queue, todo, v, parsed>>

SinglePath == <<"script">>
IsProject == job.kind = "project"
Seen == DetectFormat(job.file) \notin {"sparksql", "scala", "unknown"}
IsNotebook == ~ IsProject /\ DetectFormat(job.file) # "pyspark"
Cells == ExtractCells(job.file)

\* What parse_pyspark is given for a path.
ModuleAt(path) ==
  IF IsProject THEN job.tree.files[path]
  ELSE IF IsNotebook THEN PythonOf(Cells) ELSE Module(job.file.body)
ExternalsOf(path) == IF IsProject THEN Externals(job.tree, found.order, path) ELSE NoFun

\* The orders in which Python may go through the names a function calls: of the functions
\* that are called next to another one.
CalleeOrders(path) ==
  LET fns == ExternalsOf(path)
               @@ FoldLeft(LAMBDA acc, st : IF st.s = "def" THEN (st.n :> st) @@ acc ELSE acc,
                           NoFun, Statements(ModuleAt(path).body))
      graph == CallGraph(fns)
      siblings == {p[2] : p \in {q \in graph : \E r \in graph : r[1] = q[1] /\ r[2] # q[2]}}
  IN {order \o SetToSeq(DOMAIN fns \ siblings) : order \in SetToSeqs(siblings)}

Result(path, w) ==
  [path |-> path, v |-> w,
   edges |-> IF IsProject THEN ImportEdges(job.tree, path, w) ELSE <<>>,
   runs |-> IF IsNotebook THEN NotebookRuns(Cells) ELSE <<>>, stats |-> Stats(w)]

Init ==
  /\ job \in Jobs
  /\ phase = "accepted"
  /\ found = [order |-> <<>>, warnings |-> <<>>]
  /\ queue = <<>> /\ todo = <<>> /\ parsed = <<>>
  /\ v = NewVisitor(NoFun)

-----------------------------------------------------------------------------
\* parse_project_endpoint and ProjectParser.parse, phase A.
DiscoverProject ==
  /\ phase = "accepted" /\ IsProject
  /\ found' = Discover(job.tree, job.depth, found, job.entry, 0)
  /\ queue' = found'.order
  /\ phase' = "ready"
  /\ UNCHANGED <<job, todo, v, parsed>>

\* parse and parse_input: the files without Python are done at once.
AcceptFile ==
  /\ phase = "accepted" /\ ~ IsProject
  /\ IF Seen THEN queue' = <<SinglePath>> /\ parsed' = parsed
     ELSE queue' = <<>> /\ parsed' = <<Result(SinglePath, ParseOther(job.file))>>
  /\ phase' = "ready"
  /\ UNCHANGED <<job, found, todo, v>>

\* parse_pyspark: a file that is not Python gives a warning only.  In which order the
\* names of a function's callees are gone through is not determined.
BeginModule ==
  /\ phase = "ready" /\ queue # <<>>
  /\ LET path == Head(queue)
         start == NewVisitor(ExternalsOf(path))
     IN IF ModuleAt(path).broken
        THEN todo' = <<>> /\ v' = Warn(start, "syntax_error")
        ELSE /\ todo' = ModuleAt(path).body
             /\ \E callees \in CalleeOrders(path) :
                  v' = FirstPass(start, ModuleAt(path).body, callees)
  /\ phase' = "visiting"
  /\ UNCHANGED <<job, found, queue, parsed>>

\* visit_module, its second pass.
VisitStatement ==
  /\ phase = "visiting" /\ todo # <<>>
  /\ v' = VisitOf(v, Head(todo))
  /\ todo' = Tail(todo)
  /\ UNCHANGED <<job, phase, found, queue, parsed>>

\* The third pass, the scan for what is dynamic, and the rest of a notebook.
Completed(path) ==
  LET w == IF ModuleAt(path).broken THEN v ELSE RuntimeDynamic(Collapse(v), ModuleAt(path).body)
  IN IF IsNotebook THEN CompleteNotebook(w, Cells) ELSE w
FinishModule ==
  /\ phase = "visiting" /\ todo = <<>>
  /\ parsed' = Append(parsed, Result(Head(queue), Completed(Head(queue))))
  /\ queue' = Tail(queue)
  /\ phase' = "ready"
  /\ v' = NewVisitor(NoFun)
  /\ UNCHANGED <<job, found, todo>>

Respond ==
  /\ phase = "ready" /\ queue = <<>>
  /\ phase' = "done"
  /\ UNCHANGED <<job, found, queue, todo, v, parsed>>

Next == DiscoverProject \/ AcceptFile \/ BeginModule \/ VisitStatement \/ FinishModule \/ Respond
Spec == Init /\ [][Next]_vars
=============================================================================
