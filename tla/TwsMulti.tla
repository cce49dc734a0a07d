------------------------------- MODULE TwsMulti -------------------------------
(***************************************************************************)
(* POST /parse/multi of the TWS parser: the files are parsed in turn, their *)
(* units merged in that order, the dependencies resolved over the merged   *)
(* unit, and the answer drawn up from where each entity came from.  What    *)
(* is then written is the plan of the merged unit (TwsTopology), under no   *)
(* file path.                                                              *)
(***************************************************************************)
EXTENDS TwsTopology

CONSTANTS
  Corpora,   \* what the files hold: functions from paths to [unit, errors]
  Requests   \* [paths, strict]: a sequence of paths, which may repeat

VARIABLES
  corpus, req,
  parsed,    \* the paths merged so far, each once: units_by_file is keyed by path
  at,        \* which block of the last of them is merged next: its streams, then its
             \* schedules, which are of the same blocks
  merged,    \* the merged unit so far, with its schedules apart from its streams
  prov,      \* provenance: for each entity the paths it appeared in
  warnings,  \* duplicate_job_definition warnings, [job, path]
  pc, answer

vars == <<corpus, req, parsed, at, merged, prov, warnings, pc, answer>>

\* What the visitor makes of a file: each job of a block has the block's workstation
\* and stream.  A block that lists a job twice is not modelled: its jobs are a set,
\* one for an id.
ASSUME CorporaAssumption ==
  \A c \in Corpora : \A p \in DOMAIN c :
    /\ c[p].unit.streams \in Seq(Streams(c[p].unit))
    /\ \A s \in Streams(c[p].unit) :
         /\ IsFiniteSet(s.jobs)
         /\ \A j \in s.jobs : <<j.ws, j.stream>> = StreamId(s)
         /\ \A j, k \in s.jobs : JobId(j) = JobId(k) => j = k
ASSUME RequestsAssumption == \A r \in Requests : r.paths \in Seq(ToSet(r.paths))

Paths == UNION {DOMAIN c : c \in Corpora}
Unit(path) == corpus[path].unit
NoAnswer == [status |-> "none"]

-----------------------------------------------------------------------------
(* What merge_units does with one file.                                    *)

NamesIn(unit) ==
  Labelled("Workstation", unit.workstations) \cup Labelled("Calendar", unit.calendars)
    \cup Labelled("Prompt", unit.prompts) \cup Labelled("Resource", unit.resources)
    \cup Labelled("EventRule", {r.name : r \in unit.rules})
JobNodes(s) == {JobNode(JobId(j)) : j \in s.jobs}
EntitiesIn(unit) ==
  NamesIn(unit) \cup {StreamNode(StreamId(s)) : s \in Streams(unit)}
    \cup {ScheduleNode(StreamId(s)) : s \in Streams(unit)}
    \cup {JobNode(JobId(j)) : j \in Jobs(unit)}

\* _bump_provenance of what a file declares.
\* (bug: only entities the file is the first to declare)
BumpedIfNew(old, declared, path) ==
  [e \in DOMAIN old \cup declared |-> IF e \in DOMAIN old THEN old[e] ELSE <<path>>]
Bumped(old, declared, path) ==
  [e \in DOMAIN old \cup declared |->
     LET files == IF e \in DOMAIN old THEN old[e] ELSE <<>>
     IN IF e \in declared /\ path \notin ToSet(files) THEN Append(files, path) ELSE files]

\* _by_id: the first of the streams, or of the schedules, before that is of block s,
\* as a set of at most one index.
Known(into, s) ==
  {i \in DOMAIN into : StreamId(into[i]) = StreamId(s)
                         /\ \A k \in 1..(i - 1) : StreamId(into[k]) # StreamId(s)}

\* A block that is known takes the jobs it has not and keeps its own of those it has.
Fresh(block, s) == {j \in s.jobs : \A k \in block.jobs : JobId(j) # JobId(k)}
WithJobs(block, s) ==
  [ws |-> block.ws, name |-> block.name, cals |-> block.cals, follows |-> block.follows,
   jobs |-> block.jobs \cup Fresh(block, s)]
WithBlock(into, s) ==
  IF Known(into, s) = {} THEN Append(into, s)
  ELSE [i \in DOMAIN into |-> IF i \in Known(into, s) THEN WithJobs(into[i], s) ELSE into[i]]

\* The jobs that are kept otherwise than s has them.
Clashing(into, s) ==
  UNION {{JobId(j) : j \in {x \in s.jobs : \E k \in into[i].jobs : JobId(x) = JobId(k) /\ x.attrs # k.attrs}}
         : i \in Known(into, s)}

\* _maybe_warn_duplicate: at most one warning for a job and a file, though both are
\* met twice, among the streams and among the schedules.
\* (bug: a conflict is reported each time it is met)
WarnedAgain(old, jobs, path) == old \o SetToSeq({[job |-> j, path |-> path] : j \in jobs})
Warned(old, jobs, path) ==
  old \o SetToSeq({[job |-> j, path |-> path] : j \in jobs} \ ToSet(old))

\* The rules of a file join those before unless one has the name already.
WithRules(rules, new) == rules \cup {r \in new : \A q \in rules : q.name # r.name}

Current == parsed[Len(parsed)]
Blocks == Unit(Current).streams
Merging == parsed # <<>> /\ at <= 2 * Len(Blocks)

-----------------------------------------------------------------------------
(* What the answer says.                                                   *)

ErrorsIn == {p \in ToSet(parsed) : corpus[p].errors}

\* (bug: only what the file was the first to declare)
FromFirst(path, nodes) == {n \in nodes : n \in DOMAIN prov /\ prov[n][1] = path}
From(path, nodes) == {n \in nodes : n \in DOMAIN prov /\ path \in ToSet(prov[n])}
SchedulesFrom(path) == From(path, {ScheduleNode(StreamId(s)) : s \in Streams(merged)})
JobsFrom(path) == From(path, {JobNode(JobId(j)) : j \in Jobs(merged)})

FileStatus(path) ==
  IF path \notin ErrorsIn THEN "ok"
  ELSE IF SchedulesFrom(path) \cup JobsFrom(path) # {} THEN "partial" ELSE "failed"

Overall ==
  IF \E p \in ToSet(parsed) : FileStatus(p) = "failed" THEN "failed"
  ELSE IF ErrorsIn # {} \/ warnings # <<>> THEN "partial" ELSE "ok"

\* An edge is cross-file if no file declares both its ends.
\* (bug: the files that declared them first are compared)
ApartFirst(a, b) == prov[a][1] # prov[b][1]
Apart(a, b) == ToSet(prov[a]) \cap ToSet(prov[b]) = {}

NodeEdges(unit) ==
  {<<JobNode(e[1]), JobNode(e[2])>> : e \in Edges(unit, "follows")}
    \cup {<<ScheduleNode(e[1]), ScheduleNode(e[2])>> : e \in ScheduleEdges(unit)}

Report ==
  [status |-> Overall,
   files |-> [p \in ToSet(parsed) |->
                [status |-> FileStatus(p), jobs |-> Cardinality(JobsFrom(p)),
                 schedules |-> SchedulesFrom(p)]],
   shared |-> {e \in DOMAIN prov : Len(prov[e]) >= 2},
   only |-> [p \in ToSet(parsed) |-> {e \in DOMAIN prov : prov[e] = <<p>>}],
   crossing |-> {e \in NodeEdges(merged) : Apart(e[1], e[2])}]

\* What POST /parse answers of one file, which it does not merge: the ids of its
\* schedules block by block, and their jobs summed up the same way.
JobsListed(unit) == UNION {{i} \X unit.streams[i].jobs : i \in DOMAIN unit.streams}
ParseReport(path) ==
  LET blocks == Unit(path).streams
  IN [status |-> IF ~ corpus[path].errors THEN "ok" ELSE IF blocks # <<>> THEN "partial" ELSE "failed",
      schedules |-> [i \in DOMAIN blocks |-> ScheduleNode(StreamId(blocks[i]))],
      jobs |-> Cardinality(JobsListed(Unit(path)))]

-----------------------------------------------------------------------------
Init ==
  /\ corpus \in Corpora /\ req \in Requests
  /\ ToSet(req.paths) \subseteq DOMAIN corpus
  /\ parsed = <<>> /\ at = 1
  /\ merged = [x \in DOMAIN NoUnit \cup {"schedules"} |-> IF x \in {"streams", "schedules"} THEN <<>> ELSE {}]
  /\ prov = << >> /\ warnings = <<>>
  /\ pc = "parsing" /\ answer = NoAnswer

\* parse_multi_with_errors parses the files one by one; one that is not there or
\* cannot be read ends the request.
ParseFiles ==
  /\ pc = "parsing"
  /\ \/ pc' = "parsed" /\ UNCHANGED answer
     \/ pc' = "answered" /\ \E code \in {"400", "500"} : answer' = [status |-> code]
  /\ UNCHANGED <<corpus, req, parsed, at, merged, prov, warnings>>

\* The loop of merge_units comes to the next file: what it only names is merged by
\* name.  A path given twice is one entry.
MergeNames ==
  /\ pc = "parsed" /\ ~ Merging
  /\ \E i \in DOMAIN req.paths :
       LET path == req.paths[i]
           unit == Unit(path)
       IN /\ path \notin ToSet(parsed)
          /\ \A k \in 1..(i - 1) : req.paths[k] \in ToSet(parsed)
          /\ parsed' = Append(parsed, path) /\ at' = 1
          /\ merged' = [workstations |-> merged.workstations \cup unit.workstations,
                        calendars |-> merged.calendars \cup unit.calendars,
                        prompts |-> merged.prompts \cup unit.prompts,
                        resources |-> merged.resources \cup unit.resources,
                        rules |-> WithRules(merged.rules, unit.rules),
                        streams |-> merged.streams, schedules |-> merged.schedules]
          /\ prov' = Bumped(prov, NamesIn(unit), path)
  /\ UNCHANGED <<corpus, req, warnings, pc, answer>>

\* It comes to the next stream of the file, ...
MergeStream ==
  /\ pc = "parsed" /\ Merging /\ at <= Len(Blocks)
  /\ LET s == Blocks[at]
     IN /\ merged' = [merged EXCEPT !.streams = WithBlock(@, s)]
        /\ prov' = Bumped(prov, {StreamNode(StreamId(s))} \cup JobNodes(s), Current)
        /\ warnings' = Warned(warnings, Clashing(merged.streams, s), Current)
  /\ at' = at + 1
  /\ UNCHANGED <<corpus, req, parsed, pc, answer>>

\* ... or, after these, to the next schedule.
MergeSchedule ==
  /\ pc = "parsed" /\ Merging /\ at > Len(Blocks)
  /\ LET s == Blocks[at - Len(Blocks)]
     IN /\ merged' = [merged EXCEPT !.schedules = WithBlock(@, s)]
        /\ prov' = Bumped(prov, {ScheduleNode(StreamId(s))} \cup JobNodes(s), Current)
        /\ warnings' = Warned(warnings, Clashing(merged.schedules, s), Current)
  /\ at' = at + 1
  /\ UNCHANGED <<corpus, req, parsed, pc, answer>>

\* The strict check is after the merge, and nothing is written if it fails.  A store
\* that refuses the merged unit ends the request.
Respond ==
  /\ pc = "parsed" /\ ~ Merging /\ ToSet(parsed) = ToSet(req.paths)
  /\ pc' = "answered"
  /\ IF req.strict /\ ErrorsIn # {} THEN answer' = [status |-> "422"]
     ELSE answer' = Report \/ answer' = [status |-> "500"]
  /\ UNCHANGED <<corpus, req, parsed, at, merged, prov, warnings>>

Next == ParseFiles \/ MergeNames \/ MergeStream \/ MergeSchedule \/ Respond

Spec == Init /\ [][Next]_vars

-----------------------------------------------------------------------------
Reported == pc = "answered" /\ answer.status \in {"ok", "partial", "failed"}
Files == ToSet(req.paths)

\* The merged unit has every entity of every file, each job as the first file that
\* declares it has it, and the report lists each entity as shared by the files
\* that declare it or as specific to the one that does.
FirstWith(job) ==
  UNION {{j \in Jobs(Unit(req.paths[i])) : JobId(j) = job} :
           i \in {k \in DOMAIN req.paths : \A h \in 1..(k - 1) :
                                               \A j \in Jobs(Unit(req.paths[h])) : JobId(j) # job}}
MergedIsUnion ==
  Reported =>
    LET having(e) == {p \in Files : e \in EntitiesIn(Unit(p))} IN
    /\ EntitiesIn(merged) = UNION {EntitiesIn(Unit(p)) : p \in Files}
    /\ \A j \in Jobs(merged) : j \in FirstWith(JobId(j))
    /\ \A e \in EntitiesIn(merged) :
         /\ e \in answer.shared <=> Cardinality(having(e)) >= 2
         /\ \A p \in Files : e \in answer.only[p] <=> having(e) = {p}

\* "The user sees one warning per real divergence, not two": one for each job and each
\* file that declares it otherwise than the one that was kept.
OneWarningPerDivergence ==
  Reported =>
    /\ IsInjective(warnings)
    /\ ToSet(warnings) =
         {w \in [job : {JobId(j) : j \in Jobs(merged)}, path : Files] :
            \E j \in Jobs(Unit(w.path)), k \in Jobs(merged) :
              JobId(j) = w.job /\ JobId(k) = w.job /\ j.attrs # k.attrs}

\* Files agree if what two of them declare makes the same references, and each has
\* one block for a stream: resolving one file, a name is only looked up in the last.
Agree ==
  /\ \A p \in Files : IsInjective([i \in DOMAIN Unit(p).streams |-> StreamId(Unit(p).streams[i])])
  /\ \A p, q \in Files : \A j \in Jobs(Unit(p)), k \in Jobs(Unit(q)) :
       JobId(j) = JobId(k) => j.follows = k.follows
  /\ \A p, q \in Files : \A s \in Streams(Unit(p)), t \in Streams(Unit(q)) :
       s.name = t.name => StreamId(s) = StreamId(t) /\ s.follows = t.follows

\* A dependency reported as cross-file is one no file resolves by itself; if the
\* files agree, all of those are reported and merging loses none that a file has.
CrossFileExact ==
  Reported =>
    LET solo == UNION {NodeEdges(Unit(p)) : p \in Files} IN
    /\ answer.crossing \cap solo = {}
    /\ Agree => answer.crossing = NodeEdges(merged) \ solo /\ solo \subseteq NodeEdges(merged)

\* Each file is reported as POST /parse of it alone reports it, also when another file
\* declared it all first: the same status, the ids of the same schedules and, if it has
\* one block for a stream, as many of them and as many jobs.  (Of blocks for one stream
\* /parse counts each, and a job in each that lists it; merged they are one.)  And the
\* whole is "ok" just if no file has errors and no two declarations of a job differ.
StatusesAgree ==
  Reported =>
    /\ \A p \in Files :
         LET merging == answer.files[p]
             alone == ParseReport(p)
         IN /\ merging.status = alone.status
            /\ merging.schedules = ToSet(alone.schedules)
            /\ merging.jobs <= alone.jobs
            /\ IsInjective(alone.schedules) =>
                 /\ Cardinality(merging.schedules) = Len(alone.schedules)
                 /\ merging.jobs = alone.jobs
    /\ answer.status = "ok" <=>
         \A p, q \in Files :
           /\ ~ corpus[p].errors
           /\ \A j \in Jobs(Unit(p)), k \in Jobs(Unit(q)) : JobId(j) = JobId(k) => j.attrs = k.attrs
=============================================================================
