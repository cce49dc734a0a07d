--------------------------- MODULE BatchIntoProject ---------------------------
(***************************************************************************)
(* POST /parse/upload/auto from the first byte to the answer, with other   *)
(* project requests running beside it: Uploads up to the project block,    *)
(* then the block's statements as the request Batch of Projects, and       *)
(* Uploads again for the stitch and the answer.                            *)
(*                                                                         *)
(* A parsed file's node id is its number in the batch; 0 is a file parsed  *)
(* by an earlier upload.                                                   *)
(***************************************************************************)
EXTENDS Naturals, FiniteSets

CONSTANTS FileNames, SourceOf, NoSource, Verdicts, NameLists, MaxLen, AutoCap,
          Names, Pids, Others, Batch, PoolSize, Blank, NoName, NoPid

VARIABLES mode, batch, phase, next, disk, call, job, graph, result, linked, http,
          pool, name, issued, files, pc, wanted, target, due, found, added, answer

\* The two components, each with what is proved of it.
U == INSTANCE Uploads_proofs WITH Modes <- {"auto"}, MultiCap <- AutoCap
P == INSTANCE Projects_proofs WITH Requests <- Others \cup {Batch}, Files <- 0..MaxLen

ASSUME BatchAssumption == Batch \notin Others /\ U!ConstantsAssumption /\ P!ConstantsAssumption

uvars == <<mode, batch, phase, next, disk, call, job, graph, result, linked, http>>
pvars == <<pool, name, issued, files, pc, wanted, target, due, found, added, answer>>
vars == <<uvars, pvars>>

Init == U!Init /\ P!Init

\* The handler up to the project block, and after it.
Upload == U!Next /\ phase # "grouping" /\ UNCHANGED pvars

\* The block begins once every result is in: the name is not blank, the refs are
\* those of the results reported "ok".
\* (bug: the refs are those of every file a parser claims)
EnterBlockAll ==
  /\ phase = "grouping"
  /\ \E raw \in P!RawNames : P!Strip(raw) # Blank /\ P!StartUpload(Batch, raw, U!RefsOfSupported)
  /\ UNCHANGED uvars
EnterBlock ==
  /\ phase = "grouping"
  /\ \E raw \in P!RawNames : P!Strip(raw) # Blank /\ P!StartUpload(Batch, raw, U!Refs)
  /\ UNCHANGED uvars

InBlock == /\ P!Step(Batch) \/ P!Abort(Batch)
           /\ UNCHANGED uvars

\* (bug: any exception of the block is swallowed as an HTTPException is)
LeaveBlockSwallowing ==
  /\ phase = "grouping" /\ pc[Batch] = "done"
  /\ U!Group("conflict")
  /\ UNCHANGED pvars
LeaveBlock ==
  /\ phase = "grouping" /\ pc[Batch] = "done"
  /\ U!Group(answer[Batch])
  /\ UNCHANGED pvars

\* Another client creates, reads or deletes projects, or attaches file 0.
OtherRequest ==
  /\ \E r \in Others :
       \/ \E raw \in P!RawNames : P!StartCreate(r, raw) \/ P!StartUpload(r, raw, {0})
       \/ \E p \in Pids \cup {NoPid}, step \in {"header", "delete"} : P!StartById(r, p, step)
       \/ P!Step(r) \/ P!Abort(r)
  /\ UNCHANGED uvars

\* A parser finishes while the gateway is in the block.
LateParse == /\ \E k \in U!Keys : U!Parse(k)
             /\ phase = "grouping" /\ UNCHANGED pvars

\* The gateway restarts: no handler survives, the parsers do not notice.
Restart ==
  /\ P!Restart
  /\ phase' = "answered"
  /\ http' = IF phase = "answered" THEN http ELSE 500
  /\ call' = [k \in U!Keys |-> IF call[k] = "waiting" THEN "error" ELSE call[k]]
  /\ UNCHANGED <<mode, batch, next, disk, job, graph, result, linked>>

Next == Upload \/ EnterBlock \/ InBlock \/ LeaveBlock \/ OtherRequest \/ LateParse \/ Restart

Spec == Init /\ [][Next]_vars

-----------------------------------------------------------------------------
\* A project holds no TWS or Tableau file that is not in the graph, whatever the
\* parsers, the fallback and the other requests do: only what was reported "ok" is
\* attached, and their parsers report it only when it is written.
ProjectFilesParsed == \A p \in Pids : files[p] \cap U!Vouched \subseteq graph

\* An upload answered 200 attached all its ok files to one project (which may be
\* deleted since), or attached none and says why: no batch is half grouped.
GroupedWholeOrNot ==
  http = 200 =>
    \/ /\ answer[Batch] = "attached"
       /\ U!Refs # {} /\ name[target[Batch]] # NoName => U!Refs \subseteq files[target[Batch]]
    \/ /\ answer[Batch] \in {"unavailable", "conflict"}
       /\ \A p \in Pids : files[p] \cap U!Refs = {}
=============================================================================
