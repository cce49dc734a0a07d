----------------------------- MODULE TwsTopology -----------------------------
(***************************************************************************)
(* What the TWS parser makes of a parsed composer file: the edges          *)
(* resolve_full derives and the references it cannot resolve, the rows the *)
(* older resolve puts in Postgres, and the statements of the graph writer. *)
(*                                                                         *)
(* A unit has sets of workstations, calendars, prompts and resources, a    *)
(* set of event rules [name, target], and a sequence of streams            *)
(*   [ws, name, jobs, cals, follows]                                       *)
(* each of which is both a JobStreamIR and a ScheduleIR: the visitor makes *)
(* one of each from a SCHEDULE block.  A job is                            *)
(*   [ws, stream, name, attrs, scripts, follows, recovers, needs, prompts, *)
(*    opens]                                                               *)
(* where follows and recovers hold references [scope, ws, stream, job],    *)
(* attrs stands for the fields two declarations of a job are compared on   *)
(* and the rest are sets of names.                                         *)
(***************************************************************************)
EXTENDS PropertyGraph, FiniteSets, SequencesExt

NoUnit == [workstations |-> {}, calendars |-> {}, prompts |-> {}, resources |-> {},
           rules |-> {}, streams |-> <<>>]

Internal(job) == [scope |-> "internal", ws |-> "", stream |-> "", job |-> job]
External(ws, stream, job) == [scope |-> "external", ws |-> ws, stream |-> stream, job |-> job]

StreamId(s) == <<s.ws, s.name>>
JobId(j) == <<j.ws, j.stream, j.name>>

Streams(unit) == ToSet(unit.streams)
Jobs(unit) == UNION {s.jobs : s \in Streams(unit)}

-----------------------------------------------------------------------------
\* The jobs an internal name of stream s is looked up in: those of the last stream
\* of that workstation and name, since jobs_by_stream keeps one entry per key.
InStream(unit, s) ==
  unit.streams[SelectLastInSeq(unit.streams, LAMBDA t : StreamId(t) = StreamId(s))].jobs

\* The job a reference of a job of stream s resolves to, as a set of at most one id:
\* an internal name in the same stream only, an external one by its exact triple.
\* (bug: a bare name falls back to any stream that has such a job)
TargetAnywhere(unit, s, ref) ==
  IF ref.scope = "external"
  THEN {JobId(j) : j \in Jobs(unit)} \cap {<<ref.ws, ref.stream, ref.job>>}
  ELSE {JobId(j) : j \in {x \in Jobs(unit) : x.name = ref.job}}
Target(unit, s, ref) ==
  IF ref.scope = "external"
  THEN {JobId(j) : j \in Jobs(unit)} \cap {<<ref.ws, ref.stream, ref.job>>}
  ELSE {JobId(j) : j \in {x \in InStream(unit, s) : x.name = ref.job}}

\* Every reference the jobs make, of kind "follows" or "recovers" (ON conditions and
\* RECOVERY AFTER), with the stream and the job that makes it.
References(unit, kind) ==
  UNION {UNION {{[in |-> s, by |-> j, ref |-> r] : r \in j[kind]} : j \in s.jobs}
         : s \in Streams(unit)}

Edges(unit, kind) ==
  UNION {{<<JobId(x.by), t>> : t \in Target(unit, x.in, x.ref)} : x \in References(unit, kind)}

\* The references that resolve to nothing: each is a warning, no edge.
Unresolved(unit, kind) ==
  {[job |-> JobId(x.by), ref |-> x.ref] :
     x \in {y \in References(unit, kind) : Target(unit, y.in, y.ref) = {}}}

\* The streams a rule's target names: WS#NAME exactly, a bare name if only one
\* stream has it.
Triggered(unit, target) ==
  IF Len(target) = 2
  THEN {s \in Streams(unit) : StreamId(s) = target}
  ELSE LET named == {i \in DOMAIN unit.streams : unit.streams[i].name = target[1]}
       IN IF Cardinality(named) = 1 THEN {unit.streams[i] : i \in named} ELSE {}

\* Schedule-level FOLLOWS is by name alone, and both names are looked up in a dict
\* that keeps the last schedule of a name.
ScheduleNamed(unit, name) ==
  LET i == SelectLastInSeq(unit.streams, LAMBDA t : t.name = name)
  IN IF i = 0 THEN {} ELSE {StreamId(unit.streams[i])}
ScheduleEdges(unit) ==
  UNION {UNION {ScheduleNamed(unit, s.name) \X ScheduleNamed(unit, f) : f \in s.follows}
         : s \in Streams(unit)}

-----------------------------------------------------------------------------
\* The older resolve, for Postgres: it has only the bare name of a reference, which
\* of an external one is the STREAM, and looks it up in the same schedule; the rows
\* it makes are keyed by schedule name and job name, the last of which wins.
BareName(ref) == IF ref.scope = "external" THEN ref.stream ELSE ref.job

JobNamed(unit, schedule, job) ==
  LET i == SelectLastInSeq(unit.streams,
             LAMBDA t : t.name = schedule /\ \E j \in t.jobs : j.name = job)
  IN {JobId(j) : j \in {x \in unit.streams[i].jobs : x.name = job}}

MirrorRows(unit) ==
  UNION {JobNamed(unit, x.in.name, x.by.name) \X JobNamed(unit, x.in.name, BareName(x.ref)) :
           x \in {y \in References(unit, "follows") :
                    \E j \in y.in.jobs : j.name = BareName(y.ref)}}

-----------------------------------------------------------------------------
\* The nodes of a unit, label by label in the order they are written.
\* An id is the hash of a kind and a key: two nodes of different kinds never share one.
StreamNode(id) == Node("JobStream", <<"stream">> \o id)
ScheduleNode(id) == Node("Schedule", <<"schedule">> \o id)
JobNode(id) == Node("Job", <<"job">> \o id)

NameNode(label, name) == Node(label, <<label, name>>)
FileNode(path) == NameNode("TwsFile", path)
Labelled(label, names) == {NameNode(label, n) : n \in names}
Named(unit, field) == UNION {j[field] : j \in Jobs(unit)}

\* resolve_full adds a prompt for each inline text a job waits for; a prompt a job
\* names and nobody declares stays undeclared.
Inline == {"inline1", "inline2"}
NodeSteps(unit) ==
  <<NodeRows(Labelled("Workstation", unit.workstations)),
    NodeRows(Labelled("Calendar", unit.calendars)),
    NodeRows(Labelled("Prompt", unit.prompts \cup (Named(unit, "prompts") \cap Inline))),
    NodeRows(Labelled("EventRule", {r.name : r \in unit.rules})),
    NodeRows({StreamNode(StreamId(s)) : s \in Streams(unit)}),
    NodeRows({ScheduleNode(StreamId(s)) : s \in Streams(unit)}),
    NodeRows({JobNode(JobId(j)) : j \in Jobs(unit)}),
    NodeRows(Labelled("Script", Named(unit, "scripts"))),
    NodeRows(Labelled("Resource", unit.resources \cup Named(unit, "needs"))),
    NodeRows(Labelled("FileWatcher", Named(unit, "opens")))>>

\* The edges from each job to the nodes one of its fields names.
JobEdges(unit, type, label, field) ==
  EdgeRows(UNION {{Edge(JobNode(JobId(j)), type, NameNode(label, n)) : n \in j[field]}
                  : j \in Jobs(unit)})
JobToJob(type, pairs) ==
  EdgeRows({Edge(JobNode(p[1]), type, JobNode(p[2])) : p \in pairs})

EdgeSteps(unit) ==
  LET contains(node(_)) ==
        EdgeRows(UNION {{Edge(node(StreamId(s)), "CONTAINS_JOB", JobNode(JobId(j))) : j \in s.jobs}
                        : s \in Streams(unit)})
  IN
  <<EdgeRows({Edge(NameNode("Workstation", s.ws), "HOSTS_STREAM", StreamNode(StreamId(s))) :
                s \in {t \in Streams(unit) : t.ws \in unit.workstations}}),
    contains(ScheduleNode),
    contains(StreamNode),
    JobEdges(unit, "EXECUTES", "Script", "scripts"),
    JobEdges(unit, "WAITS_FOR_FILE", "FileWatcher", "opens"),
    JobToJob("DEPENDS_ON", {p \in Edges(unit, "follows") : p[1] # p[2]}),
    EdgeRows({Edge(ScheduleNode(p[1]), "DEPENDS_ON", ScheduleNode(p[2])) :
                p \in {q \in ScheduleEdges(unit) : q[1] # q[2]}}),
    JobEdges(unit, "REQUIRES_RESOURCE", "Resource", "needs"),
    EdgeRows({Edge(JobNode(JobId(j)), "RUNS_ON", NameNode("Workstation", j.ws)) : j \in Jobs(unit)}),
    JobEdges(unit, "WAITS_FOR_PROMPT", "Prompt", "prompts"),
    JobToJob("RECOVERS_WITH", Edges(unit, "recovers")),
    EdgeRows(UNION {{Edge(NameNode("EventRule", r.name), "TRIGGERS", StreamNode(StreamId(s))) :
                       s \in Triggered(unit, r.target)} : r \in unit.rules}),
    EdgeRows(UNION {{Edge(StreamNode(StreamId(s)), "SCHEDULED_BY", NameNode("Calendar", c)) :
                       c \in s.cals} : s \in Streams(unit)})>>

\* The :TwsFile wrapper, when the request has a file path: /parse has one, /parse/multi
\* has none.
FileSteps(unit, path) ==
  IF path = "" THEN <<>> ELSE
  <<NodeRows({FileNode(path)}),
    EdgeRows({Edge(FileNode(path), "CONTAINS_SCHEDULE", ScheduleNode(StreamId(s))) :
                s \in Streams(unit)})>>

\* Overwriting: each stream with its jobs, each schedule with its jobs, the file.
\* (bug: only the file node is deleted)
DeleteStepsOfFile(unit, path) ==
  IF path = "" THEN <<>> ELSE <<Subgraph(FileNode(path), {<<>>}, {})>>
DeleteSteps(unit, path) ==
  LET each(node(_)) ==
        [i \in DOMAIN unit.streams |->
           Subgraph(node(StreamId(unit.streams[i])), {<<>>, <<"CONTAINS_JOB">>}, {})]
  IN each(StreamNode) \o each(ScheduleNode)
       \o (IF path = "" THEN <<>> ELSE <<Subgraph(FileNode(path), {<<>>}, {})>>)

\* The statements of a request, without the batches that have no rows.
\* (bug: the edges are written before the nodes they join)
StepsEdgesFirst(unit, path, overwrite) ==
  Sent((IF overwrite THEN DeleteSteps(unit, path) ELSE <<>>)
         \o EdgeSteps(unit) \o NodeSteps(unit) \o FileSteps(unit, path))
\* (bug: the old subgraph is deleted after the new one is written)
StepsDeleteLast(unit, path, overwrite) ==
  Sent(NodeSteps(unit) \o EdgeSteps(unit) \o FileSteps(unit, path)
         \o (IF overwrite THEN DeleteSteps(unit, path) ELSE <<>>))
Steps(unit, path, overwrite) ==
  Sent((IF overwrite THEN DeleteSteps(unit, path) ELSE <<>>)
         \o NodeSteps(unit) \o EdgeSteps(unit) \o FileSteps(unit, path))
=============================================================================
