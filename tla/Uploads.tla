------------------------------- MODULE Uploads -------------------------------
(***************************************************************************)
(* One upload to the gateway (parse_proxy.py): POST /parse/upload (one     *)
(* file), /parse/upload/multi (TWS files parsed together) or               *)
(* /parse/upload/auto (any mix, grouped into a project).                   *)
(*                                                                         *)
(* The files are saved one by one under a fresh directory, then sent to    *)
(* the parsers.  The gateway waits for a call for a limited time; the      *)
(* parser does not know, and may still parse after the gateway gave up.    *)
(* A file is its position in the batch; its nodes in the graph carry the   *)
(* number of the file whose content was parsed.                            *)
(***************************************************************************)
EXTENDS Naturals, FiniteSets

CONSTANTS
  FileNames,  \* base names of uploaded files
  SourceOf,   \* FileNames -> the parser that claims the suffix, or NoSource
  NoSource,
  Verdicts,   \* what becomes of a file: some of AllVerdicts
  Modes,      \* the endpoints exercised: some of AllModes
  NameLists,  \* bound: the names of the files of a batch, in order
  MaxLen,     \* the length of the longest of them
  MultiCap,   \* most files of /upload/multi (20)
  AutoCap     \* most files of /upload/auto (30)

AllModes == {"upload", "multi", "auto"}

\* ok, partial, failed: the status a parser answers (only the TWS parser's bodies
\* carry one, without it the gateway reports ok); reject: the parser answers 4xx
\* or 5xx; oversize: above MAX_UPLOAD_MB, never saved.
AllVerdicts == {"ok", "partial", "failed", "reject", "oversize"}

ASSUME ConstantsAssumption ==
  /\ SourceOf \in [FileNames -> {"tws", "tableau", "qlikview", "spark", NoSource}]
  /\ NoSource \notin {"tws", "tableau", "qlikview", "spark"}
  /\ Verdicts \subseteq AllVerdicts /\ Modes \subseteq AllModes
  /\ NameLists \subseteq UNION {[1..n -> FileNames] : n \in 0..MaxLen}
  /\ MaxLen \in Nat /\ MultiCap \in Nat /\ AutoCap \in Nat

VARIABLES
  mode,    \* the endpoint
  batch,   \* position -> [name, verdict]
  phase,   \* where the handler is
  next,    \* the next file to save
  disk,    \* file name -> the file whose bytes are there, 0 when absent
  call,    \* the gateway's side of a parser call; call 0 is /parse/multi
  job,     \* the parser's side of it
  graph,   \* files whose nodes are in Neo4j
  result,  \* the per-file status the gateway reports
  linked,  \* files whose nodes the INVOKES_FILE stitch has seen
  http     \* the answer: 0 while there is none

vars == <<mode, batch, phase, next, disk, call, job, graph, result, linked, http>>

Items == DOMAIN batch
Keys == 0..MaxLen
File == [name : FileNames, verdict : Verdicts]

Statuses == {"none", "ok", "partial", "failed", "unsupported", "parser_unreachable"}
Phases == {"check", "saving", "dispatch", "waiting", "grouping", "stitch", "answered"}

TypeOK ==
  /\ mode \in AllModes
  /\ Items \subseteq 1..MaxLen /\ batch \in [Items -> File]
  /\ phase \in Phases
  /\ next \in 1..MaxLen + 1
  /\ disk \in [FileNames -> 0..MaxLen]
  /\ call \in [Keys -> {"none", "waiting", "replied", "error"}]
  /\ job \in [Keys -> {"none", "sent", "done", "lost"}]
  /\ graph \subseteq Items /\ linked \subseteq Items
  /\ result \in [Items -> Statuses]
  /\ http \in {0, 200, 400, 413, 500, 502}

Init ==
  /\ mode \in Modes
  /\ \E names \in NameLists :
       /\ mode = "upload" => DOMAIN names = {1}
       /\ \E v \in [DOMAIN names -> Verdicts] :
            /\ \A i \in DOMAIN names :
                 v[i] \in {"partial", "failed"} => SourceOf[names[i]] = "tws"
            /\ batch = [i \in DOMAIN names |-> [name |-> names[i], verdict |-> v[i]]]
  /\ phase = "check" /\ next = 1
  /\ disk = [f \in FileNames |-> 0]
  /\ call = [k \in Keys |-> "none"] /\ job = [k \in Keys |-> "none"]
  /\ graph = {} /\ linked = {}
  /\ result = [i \in Items |-> "none"]
  /\ http = 0

Answer(code) == phase' = "answered" /\ http' = code

-----------------------------------------------------------------------------
(* Checks before anything is saved, then the save loop.                    *)

BadCount == \/ mode = "multi" /\ (Cardinality(Items) < 2 \/ Cardinality(Items) > MultiCap)
            \/ mode = "auto" /\ (Items = {} \/ Cardinality(Items) > AutoCap)

Check ==
  /\ phase = "check"
  /\ IF BadCount THEN Answer(400) ELSE phase' = "saving" /\ UNCHANGED http
  /\ UNCHANGED <<mode, batch, next, disk, call, job, graph, result, linked>>

\* The parser a file must suit: /upload/multi is for TWS files, /upload for the
\* source_type the form names (any one that has a suffix list).
Target == IF mode = "multi" THEN {"tws"} ELSE {"tws", "tableau", "qlikview", "spark"}
Suits(i) == mode = "auto" \/ SourceOf[batch[i].name] \in Target

Saved == {batch[i].name : i \in {j \in Items : j < next}}

\* (bug: only the file at fault is removed)
RolledBackOne(name) == [disk EXCEPT ![name] = 0]
\* What a refusal leaves on disk: /upload/multi also removes what it had saved.
RolledBack(name) ==
  [f \in FileNames |-> IF f = name \/ (mode = "multi" /\ f \in Saved) THEN 0 ELSE disk[f]]

SaveNext ==
  /\ phase = "saving" /\ next \in Items
  /\ LET f == batch[next] IN
     \/ ~Suits(next) /\ Answer(400) /\ UNCHANGED next
          /\ disk' = IF mode = "multi" THEN RolledBack(f.name) ELSE disk
     \/ Suits(next) /\ f.verdict = "oversize" /\ Answer(413) /\ UNCHANGED next
          /\ disk' = RolledBack(f.name)
     \/ Suits(next) /\ f.verdict # "oversize" /\ next' = next + 1
          /\ disk' = [disk EXCEPT ![f.name] = next]
          /\ phase' = (IF next + 1 \in Items THEN "saving" ELSE "dispatch")
          /\ UNCHANGED http
  /\ UNCHANGED <<mode, batch, call, job, graph, result, linked>>

\* The client goes away in mid-transfer: the read raises, and nothing removes
\* the files saved so far, nor the one begun.
ClientGone ==
  /\ phase = "saving" /\ next \in Items
  /\ Answer(500)
  /\ disk' \in {disk, [disk EXCEPT ![batch[next].name] = next]}
  /\ UNCHANGED <<mode, batch, next, call, job, graph, result, linked>>

-----------------------------------------------------------------------------
(* Parser calls.                                                           *)

\* What a parser finds at the path of file i.
Content(i) == disk[batch[i].name]
Verdict(i) == batch[Content(i)].verdict

Supported == {i \in Items : SourceOf[batch[i].name] # NoSource}
TwsFiles == {i \in Items : SourceOf[batch[i].name] = "tws"}

\* The files that /parse/multi gets: in /upload/auto the TWS files, if two or more.
MultiGroup == IF mode = "multi" THEN Items
              ELSE IF mode = "auto" /\ Cardinality(TwsFiles) >= 2 THEN TwsFiles
              ELSE {}

Send(ks) ==
  /\ call' = [k \in Keys |-> IF k \in ks THEN "waiting" ELSE call[k]]
  /\ job' = [k \in Keys |-> IF k \in ks THEN "sent" ELSE job[k]]

\* asyncio.gather starts every group at once.
Dispatch ==
  /\ phase = "dispatch"
  /\ Send((IF MultiGroup = {} THEN {} ELSE {0}) \cup (Supported \ MultiGroup))
  /\ phase' = "waiting"
  /\ UNCHANGED <<mode, batch, next, disk, graph, result, linked, http>>

\* A parser reads the files, writes their nodes and answers, whether or not the
\* gateway still listens.  A call that ends in an error may have written first.
Parsed(k) == IF k = 0 THEN {Content(i) : i \in MultiGroup} ELSE {Content(k)}
Rejected(k) == \E c \in Parsed(k) : batch[c].verdict = "reject"

\* Parsers that answer as usual when Neo4j has refused their write; what such a
\* write left half done does not count as being in the graph.
Swallowing == {"qlikview", "spark"}

\* (bug: answers before the nodes are written)
ParseUnwritten(k) ==
  /\ job[k] = "sent"
  /\ job' = [job EXCEPT ![k] = "done"]
  /\ call' = [call EXCEPT ![k] = IF @ = "waiting" THEN "replied" ELSE @]
  /\ UNCHANGED <<mode, batch, phase, next, disk, graph, result, linked, http>>
Parse(k) ==
  /\ job[k] = "sent"
  /\ job' = [job EXCEPT ![k] = "done"]
  /\ \/ /\ Rejected(k)
        /\ \E w \in {{}, Parsed(k)} : graph' = graph \cup w
     \/ /\ ~Rejected(k)
        /\ graph' = graph \cup {c \in Parsed(k) : batch[c].verdict # "failed"}
     \/ /\ ~Rejected(k) /\ k # 0 /\ SourceOf[batch[k].name] \in Swallowing
        /\ UNCHANGED graph
  /\ call' = [call EXCEPT ![k] = IF @ = "waiting" THEN "replied" ELSE @]
  /\ UNCHANGED <<mode, batch, phase, next, disk, result, linked, http>>

\* (bug: httpx.AsyncClient(timeout=None))
GiveUpNever(k) == FALSE
\* httpx.RequestError: the parser was never reached, or the timeout passed while
\* it was at work (and it goes on).
GiveUp(k) ==
  /\ call[k] = "waiting"
  /\ call' = [call EXCEPT ![k] = "error"]
  /\ job' \in {job, [job EXCEPT ![k] = "lost"]}
  /\ UNCHANGED <<mode, batch, phase, next, disk, graph, result, linked, http>>

\* /upload/auto: when the multi call fails in transport, each file goes alone.
Fallback ==
  /\ phase = "waiting" /\ mode = "auto" /\ call[0] = "error"
  /\ \A i \in MultiGroup : call[i] = "none"
  /\ Send(MultiGroup)
  /\ UNCHANGED <<mode, batch, phase, next, disk, graph, result, linked, http>>

-----------------------------------------------------------------------------
(* The answers are gathered.                                               *)

\* What the dispatch of file i yields.
Outcome(i) ==
  LET k == IF i \in MultiGroup /\ call[0] = "replied" THEN 0 ELSE i IN
  IF i \notin Supported THEN "unsupported"
  ELSE IF call[k] = "error" THEN "parser_unreachable"
  ELSE IF Rejected(k) THEN "failed"
  ELSE Verdict(i)

Settled == /\ \A k \in Keys : call[k] # "waiting"
           /\ mode = "auto" /\ call[0] = "error" => \A i \in MultiGroup : call[i] # "none"

\* Results are keyed by the name a file was saved under: of two files with one
\* name the later one's entry is reported for both.
LastNamesake(i) == CHOOSE j \in Items : /\ batch[j].name = batch[i].name
                                        /\ \A l \in Items : l > j => batch[l].name # batch[i].name

\* A parser's 4xx or 5xx reaches the client of the other two endpoints as it is.
Relayed == {400, 413, 500}

Gather ==
  /\ phase = "waiting" /\ Settled
  /\ \/ /\ mode = "auto"
        /\ result' = [i \in Items |-> Outcome(LastNamesake(i))]
        /\ phase' = "grouping" /\ UNCHANGED http
     \/ /\ mode # "auto"
        /\ LET k == IF mode = "multi" THEN 0 ELSE 1 IN
           IF call[k] = "error" THEN Answer(502) /\ UNCHANGED result
           ELSE IF Rejected(k) THEN (\E code \in Relayed : Answer(code)) /\ UNCHANGED result
           ELSE Answer(200) /\ result' = [i \in Items |-> Verdict(i)]
  /\ UNCHANGED <<mode, batch, next, disk, call, job, graph, linked>>

\* The node ids of the files reported "ok" go to the project.
\* (bug: every supported file is attached, parsed or not)
RefsOfSupported == {Content(i) : i \in Supported}
Refs == {Content(i) : i \in {j \in Items : result[j] = "ok"}}

\* The project block: an HTTPException becomes a payload, anything else a 500.
Group(how) ==
  /\ phase = "grouping"
  /\ IF how \in {"attached", "unavailable", "conflict", "badname"}
     THEN phase' = "stitch" /\ UNCHANGED http
     ELSE Answer(500)
  /\ UNCHANGED <<mode, batch, next, disk, call, job, graph, result, linked>>

\* _stitch_invokes_file runs over the whole graph; its failures are swallowed.
Stitch ==
  /\ phase = "stitch"
  /\ linked' \in {graph, linked}
  /\ Answer(200)
  /\ UNCHANGED <<mode, batch, next, disk, call, job, graph, result>>

GroupOutcomes == {"attached", "unavailable", "conflict", "badname", "fkviolation", "error"}

\* The handler's own steps, up to the project block and from there on.
Handler == Check \/ SaveNext \/ Dispatch \/ Fallback \/ Gather \/ Stitch
Parser == \E k \in Keys : Parse(k) \/ GiveUp(k)

Next == \/ Handler
        \/ ClientGone
        \/ Parser
        \/ \E how \in GroupOutcomes : Group(how)

Spec == Init /\ [][Next]_vars

\* The event loop runs the handler on; a parser call ends at the latest when its
\* timeout passes; the project block ends (EveryRequestAnswered of Projects).
FairSpec == /\ Spec
            /\ WF_vars(Handler)
            /\ \A k \in Keys : WF_vars(GiveUp(k))
            /\ WF_vars(\E how \in GroupOutcomes : Group(how))

-----------------------------------------------------------------------------
(* The status of the whole batch.                                          *)

Overall == IF \A i \in Items : result[i] \in {"failed", "unsupported", "parser_unreachable"}
             THEN "failed"
           ELSE IF \E i \in Items : result[i] = "failed" THEN "partial"
           ELSE "ok"

-----------------------------------------------------------------------------
(* Properties.                                                             *)

\* Files whose parser fails the call when it cannot write: a report can vouch for them.
Vouched == {i \in Items : SourceOf[batch[i].name] \in {"tws", "tableau"}}

\* A TWS or Tableau file reported ok or partial has its content in the graph,
\* whichever of the racing calls (multi, fallback, namesakes) the report comes from.
\* A QlikView or Spark report says nothing of the kind: those parsers swallow it.
ReportedFilesInGraph ==
  \A i \in Vouched : result[i] \in {"ok", "partial"} => Content(i) \in graph

\* Ids given to the project are ids of nodes in the graph where the parser vouches
\* for its write, and a batch reported as failed gives none.
RefsParsed == /\ Refs \cap Vouched \subseteq graph
              /\ phase \in {"stitch", "answered"} /\ mode = "auto" /\ Overall = "failed" => Refs = {}

\* What /upload/multi itself refuses, before it has sent anything, it refuses
\* whole: after such a 400 or 413 none of the batch is on disk.  (A parser's own
\* refusal, relayed, leaves every file where it was saved.)
RefusedMultiLeavesNothing ==
  mode = "multi" /\ http \in {400, 413} /\ call[0] = "none" => \A f \in FileNames : disk[f] = 0

\* "dispatch every file to its matching parser": in an answered batch, the
\* bytes of every supported file were at its path for its parser to read.
EveryFileDispatched ==
  mode = "auto" /\ http = 200 => \A i \in Supported : Content(i) = i

\* Every upload is answered, however long the parsers take and whatever fails.
UploadAnswered == phase = "check" ~> phase = "answered"
=============================================================================
