----------------------- MODULE BatchIntoProject_proofs -----------------------
(***************************************************************************)
(* For any batch, any number of competing project requests and any         *)
(* interleaving with the parsers: of the files whose parsers vouch for     *)
(* their writes a project holds only those that are in the graph, and an   *)
(* answered upload has grouped its batch whole or not at all.              *)
(*                                                                         *)
(* The components keep the invariants proved of them, since every step of  *)
(* the composition is a step of each or leaves it alone, but for a restart *)
(* of the gateway, which Uploads does not have.  Glue is what relates the  *)
(* two: where the handler is and what its request in the store was told.   *)
(***************************************************************************)
EXTENDS BatchIntoProject, TLAPS

Before == {"check", "saving", "dispatch", "waiting"}
OnItsWay == {"lookup", "insert", "attach"}

\* Only the batch's own request can bring a parsed file into a project, and it does
\* so with exactly the files reported "ok".
Handler ==
  /\ mode = "auto"
  /\ pc[Batch] \in OnItsWay \cup {"idle", "count", "done"}
  /\ phase \in Before => pc[Batch] = "idle"
  /\ pc[Batch] \in OnItsWay \cup {"count"} => phase = "grouping"
  /\ pc[Batch] \in OnItsWay \cup {"count"} \/ answer[Batch] = "attached" =>
       phase \notin Before /\ due[Batch] = U!Refs
  /\ pc[Batch] # "done" => answer[Batch] = "none"
  /\ answer[Batch] # "badname"
  /\ phase = "stitch" \/ http = 200 =>
       pc[Batch] = "done" /\ answer[Batch] \in {"attached", "unavailable", "conflict"}

Rows ==
  /\ \A r \in Others : pc[r] \in OnItsWay => due[r] \subseteq {0}
  /\ pc[Batch] \in OnItsWay \cup {"idle"} \/ answer[Batch] \in {"unavailable", "conflict"} =>
       \A p \in Pids : files[p] \subseteq {0}
  /\ \A p \in Pids : files[p] \cap U!Vouched \subseteq graph
  /\ \A r \in Others \cup {Batch} : due[r] \cap U!Vouched \subseteq graph

Glue == Handler /\ Rows

IInv == U!IInv /\ P!IInv /\ Glue

-----------------------------------------------------------------------------
(* Each component keeps its own invariant.                                 *)

\* Whatever the block came to, Uploads has a step for it.
LEMMA LeaveIsGroup == LeaveBlock => \E how \in U!GroupOutcomes : U!Group(how)
<1> SUFFICES ASSUME LeaveBlock PROVE \E how \in U!GroupOutcomes : U!Group(how)
  OBVIOUS
<1>1. CASE answer[Batch] \in {"attached", "unavailable", "conflict", "badname"}
  BY <1>1 DEF LeaveBlock, U!GroupOutcomes
<1>2. CASE answer[Batch] \notin {"attached", "unavailable", "conflict", "badname"}
  <2>1. U!Group("error")
    BY <1>2 DEF LeaveBlock, U!Group
  <2>2. QED
    BY <2>1 DEF U!GroupOutcomes
<1>3. QED
  BY <1>1, <1>2

\* A restart ends the upload for good and takes no file from disk or graph.
LEMMA RestartKeepsUpload == ASSUME U!IInv, Restart PROVE U!IInv'
<1>1. /\ UNCHANGED <<mode, batch, next, disk, job, graph, result, linked>>
      /\ phase' = "answered" /\ (http' = http \/ http' = 500)
      /\ call' = [k \in U!Keys |-> IF call[k] = "waiting" THEN "error" ELSE call[k]]
  BY DEF Restart
<1>2. /\ U!Items' = U!Items /\ U!Vouched' = U!Vouched
      /\ \A i : U!Content(i)' = U!Content(i) /\ U!Good(i)' = U!Good(i)
      /\ \A k : U!Parsed(k)' = U!Parsed(k) /\ U!Rejected(k)' = U!Rejected(k)
  BY <1>1, U!SameFiles, BatchAssumption
<1>3. /\ \A k \in U!Keys : /\ call'[k] = "none" <=> call[k] = "none"
                           /\ call'[k] = "replied" => call[k] = "replied"
      /\ call' \in [U!Keys -> {"none", "waiting", "replied", "error"}]
  BY <1>1 DEF U!IInv, U!TypeOK
<1>4. U!TypeOK'
  BY <1>1, <1>2, <1>3 DEF U!IInv, U!TypeOK, U!Phases
<1>5. U!Shape' /\ U!Before'
  BY <1>1, <1>2 DEF U!IInv, U!Shape, U!Before, U!Early
<1>6. U!Ready' /\ U!Called' /\ U!Replied'
  BY <1>1, <1>2, <1>3 DEF U!IInv, U!Ready, U!Called, U!Replied, U!Idle
<1>7. U!ReportedFilesInGraph' /\ U!RefusedMultiLeavesNothing'
  <2>1. 0 \in U!Keys
    BY BatchAssumption DEF U!ConstantsAssumption, U!Keys
  <2>2. QED
    BY <1>1, <1>2, <1>3, <2>1 DEF U!IInv, U!ReportedFilesInGraph, U!RefusedMultiLeavesNothing
<1>8. QED
  BY <1>4, <1>5, <1>6, <1>7 DEF U!IInv

LEMMA UploadsKept == ASSUME U!IInv, Next PROVE U!IInv'
<1>1. ASSUME U!Next \/ UNCHANGED uvars PROVE U!IInv'
  BY <1>1, U!NextInv, BatchAssumption DEF U!vars, uvars
<1>2. CASE Upload
  BY <1>1, <1>2 DEF Upload
<1>3. CASE EnterBlock \/ InBlock \/ OtherRequest
  BY <1>1, <1>3 DEF EnterBlock, InBlock, OtherRequest
<1>4. CASE LeaveBlock
  BY <1>1, <1>4, LeaveIsGroup DEF U!Next
<1>5. CASE LateParse
  BY <1>1, <1>5 DEF LateParse, U!Next, U!Parser
<1>6. CASE Restart
  BY <1>6, RestartKeepsUpload
<1>7. QED
  BY <1>2, <1>3, <1>4, <1>5, <1>6 DEF Next

\* What the batch hands over are files of its own, in the graph if vouched for.
LEMMA RefsInGraph ==
  ASSUME U!IInv
  PROVE  /\ U!Refs \subseteq 0..MaxLen /\ 0 \notin U!Refs /\ 0 \notin U!Vouched
         /\ U!Refs \cap U!Vouched \subseteq graph
<1>1. U!Refs \subseteq U!Items
  BY DEF U!IInv, U!Ready, U!Good, U!Refs
<1>2. U!Items \subseteq 1..MaxLen /\ MaxLen \in Nat /\ U!Vouched \subseteq U!Items
  BY BatchAssumption DEF U!ConstantsAssumption, U!IInv, U!TypeOK, U!Vouched
<1>3. U!Refs \cap U!Vouched \subseteq graph
  BY DEF U!IInv, U!ReportedFilesInGraph, U!Refs, U!Ready, U!Good, U!Vouched
<1>4. QED
  BY <1>1, <1>2, <1>3

\* Every step of the composition is one of the store, or leaves it alone.
LEMMA StoreSteps == ASSUME U!IInv, Next PROVE P!Next \/ UNCHANGED pvars
<1>1. CASE Upload \/ LeaveBlock \/ LateParse
  BY <1>1 DEF Upload, LeaveBlock, LateParse
<1>2. CASE EnterBlock
  BY <1>2, RefsInGraph DEF EnterBlock, P!Next, P!Start
<1>3. CASE InBlock
  BY <1>3 DEF InBlock, P!Next
<1>4. CASE OtherRequest
  BY <1>4, BatchAssumption DEF OtherRequest, P!Next, P!Start, U!ConstantsAssumption
<1>5. CASE Restart
  BY <1>5 DEF Restart, P!Next
<1>6. QED
  BY <1>1, <1>2, <1>3, <1>4, <1>5 DEF Next

LEMMA StoreKept == ASSUME U!IInv, P!IInv, Next PROVE P!IInv'
BY StoreSteps, P!NextInv, BatchAssumption DEF P!vars, P!store, P!request, pvars

-----------------------------------------------------------------------------
(* What relates the two, action by action.                                 *)

\* Which files are vouched for depends on the batch alone, and no step changes that.
LEMMA VouchedFixed ==
  ASSUME Upload \/ LeaveBlock \/ LateParse
  PROVE  U!Vouched' = U!Vouched
<1>1. batch' = batch
  BY DEF Upload, LeaveBlock, LateParse, U!Next, U!Handler, U!Parser, U!Group, U!Parse, U!GiveUp,
         U!Check, U!SaveNext, U!ClientGone, U!Dispatch, U!Fallback, U!Gather, U!Stitch
<1>2. QED
  BY <1>1 DEF U!Vouched, U!Items

\* While the store stands still, the upload keeps to its batch: once the results
\* are in, its refs are fixed, and only the stitch answers it with a 200.
LEMMA UploadMoves ==
  ASSUME U!IInv, mode = "auto", Upload \/ LeaveBlock \/ LateParse
  PROVE  /\ mode' = mode /\ graph \subseteq graph'
         /\ phase \notin Before => phase' \notin Before /\ U!Refs' = U!Refs
         /\ phase \in Before => phase' # "stitch" /\ http' # 200
         /\ http' = 200 => http = 200 \/ phase = "stitch"
         /\ phase' = "stitch" => LeaveBlock \/ phase = "stitch"
<1> USE DEF Before
<1>1. CASE LeaveBlock
  BY <1>1 DEF LeaveBlock, U!Group, U!Answer, U!Refs, U!Content, U!Items
<1>2. ASSUME NEW k \in U!Keys, U!Parse(k) \/ U!GiveUp(k)
      PROVE  /\ UNCHANGED <<mode, batch, phase, disk, result, http>>
             /\ graph \subseteq graph'
  BY <1>2 DEF U!Parse, U!GiveUp
<1>3. ASSUME NEW k \in U!Keys, U!Parse(k) \/ U!GiveUp(k)
      PROVE  U!Refs' = U!Refs
  BY <1>2, <1>3 DEF U!Refs, U!Content, U!Items
<1>4. http = 200 => phase = "answered"
  BY DEF U!IInv, U!Before
<1>5. CASE Upload
  <2>1. CASE U!Check \/ U!SaveNext \/ U!ClientGone
    BY <2>1, <1>4 DEF U!Check, U!SaveNext, U!ClientGone, U!Answer
  <2>2. CASE U!Dispatch \/ U!Fallback \/ U!Gather
    BY <2>2, <1>4 DEF U!Dispatch, U!Fallback, U!Gather, U!Answer
  <2>3. CASE U!Stitch
    BY <2>3 DEF U!Stitch, U!Answer, U!Refs, U!Content, U!Items
  <2>4. CASE U!Parser
    BY <2>4, <1>2, <1>3, <1>4 DEF U!Parser
  <2>5. QED
    BY <1>5, <2>1, <2>2, <2>3, <2>4 DEF Upload, U!Next, U!Handler, U!Group
<1>6. CASE LateParse
  BY <1>6, <1>2, <1>3, <1>4 DEF LateParse
<1>7. QED
  BY <1>1, <1>5, <1>6

LEMMA UploadGlue ==
  ASSUME U!IInv, Glue, Upload \/ LeaveBlock \/ LateParse
  PROVE  Glue'
<1>1. mode = "auto" /\ UNCHANGED pvars
  BY DEF Glue, Handler, Upload, LeaveBlock, LateParse
<1>2. LeaveBlock => /\ phase = "grouping" /\ pc[Batch] = "done"
                    /\ phase' = "stitch" => answer[Batch] \in {"attached", "unavailable", "conflict", "badname"}
                    /\ http' = 200 => http = 200
  BY DEF LeaveBlock, U!Group, U!Answer
<1>3. LeaveBlock \/ phase # "grouping" \/ phase' = phase
  BY DEF Upload, LateParse, U!Parse
<1>4. Handler'
  BY <1>1, <1>2, <1>3, UploadMoves DEF Glue, Handler, pvars, OnItsWay, Before
<1>5. Rows'
  BY <1>1, UploadMoves, VouchedFixed DEF Glue, Rows, pvars, OnItsWay
<1>6. QED
  BY <1>4, <1>5 DEF Glue

\* The block begins with nothing of this batch in any project.
LEMMA EnterGlue == ASSUME U!IInv, P!IInv, Glue, EnterBlock PROVE Glue'
<1>1. /\ UNCHANGED uvars /\ UNCHANGED files /\ phase = "grouping" /\ pc[Batch] = "idle"
      /\ U!Refs' = U!Refs /\ U!Vouched' = U!Vouched
  BY DEF EnterBlock, P!StartUpload, P!At, P!store, U!Refs, U!Content, U!Items, U!Vouched, uvars
<1>2. PICK raw \in P!RawNames : P!Strip(raw) # Blank /\ P!StartUpload(Batch, raw, U!Refs)
  BY DEF EnterBlock
<1>3. /\ \A r \in Others : pc'[r] = pc[r] /\ due'[r] = due[r]
      /\ \/ pc'[Batch] = "done" /\ answer'[Batch] = "unavailable" /\ due'[Batch] = due[Batch]
         \/ pc'[Batch] = "lookup" /\ answer'[Batch] = answer[Batch] /\ due'[Batch] = U!Refs
  BY <1>2, BatchAssumption DEF P!StartUpload, P!Goto, P!Finish, P!IInv, P!TypeOK
<1>4. http # 200
  BY <1>1 DEF U!IInv, U!Before
<1>5. Handler'
  BY <1>1, <1>3, <1>4 DEF Glue, Handler, Before, OnItsWay, uvars
<1>6. Rows'
  BY <1>1, <1>3, RefsInGraph DEF Glue, Handler, Rows, OnItsWay, uvars
<1>7. QED
  BY <1>5, <1>6 DEF Glue

\* An INSERT into project_files adds no row but those it was given.
LEMMA OnlyTheseAdded ==
  ASSUME NEW f \in [Pids -> SUBSET (0..MaxLen)], NEW t, NEW fs
  PROVE  \A p \in Pids : [f EXCEPT ![t] = @ \cup fs][p] \subseteq f[p] \cup fs
<1> SUFFICES ASSUME NEW p \in Pids
             PROVE  [f EXCEPT ![t] = @ \cup fs][p] \subseteq f[p] \cup fs
  OBVIOUS
<1>1. CASE p = t
  BY <1>1
<1>2. CASE p # t
  BY <1>2
<1>3. QED
  BY <1>1, <1>2

\* The batch's request goes from statement to statement with the refs it was given.
LEMMA BlockMoves ==
  ASSUME P!IInv, Handler, InBlock
  PROVE  /\ \A r \in Others : pc'[r] = pc[r] /\ due'[r] = due[r] /\ answer'[r] = answer[r]
         /\ due'[Batch] = due[Batch]
         /\ pc[Batch] \in OnItsWay \cup {"count"}
         /\ pc'[Batch] \in OnItsWay \cup {"count", "done"}
         /\ pc'[Batch] # "done" => answer'[Batch] = "none"
         /\ answer'[Batch] \in {"none", "conflict", "attached", "fkviolation", "error"}
         /\ pc'[Batch] \in OnItsWay \/ answer'[Batch] = "conflict" =>
              pc[Batch] \in OnItsWay /\ files' = files
         /\ \A p \in Pids : files'[p] \subseteq files[p] \cup due[Batch]
<1> USE BatchAssumption DEF P!IInv, P!TypeOK, P!Goto, P!Finish, P!At, P!store, OnItsWay, Handler
<1>1. CASE P!Lookup(Batch)
  BY <1>1 DEF P!Lookup
<1>2. CASE P!GetOrCreateInsert(Batch)
  BY <1>2 DEF P!GetOrCreateInsert, P!InsertProject
<1>3. CASE P!AttachInsert(Batch)
  <2>1. /\ \/ files' = files
           \/ files' = [files EXCEPT ![target[Batch]] = @ \cup due[Batch]]
        /\ due' = due /\ pc[Batch] = "attach"
        /\ \/ pc' = [pc EXCEPT ![Batch] = "count"] /\ answer' = answer
           \/ /\ pc' = [pc EXCEPT ![Batch] = "done"]
              /\ \E how \in {"attached", "fkviolation"} : answer' = [answer EXCEPT ![Batch] = how]
    BY <1>3 DEF P!AttachInsert
  <2>2. \A p \in Pids : files'[p] \subseteq files[p] \cup due[Batch]
    <3>1. CASE files' = files
      BY <3>1
    <3>2. CASE files' = [files EXCEPT ![target[Batch]] = @ \cup due[Batch]]
      BY <2>1, <3>2, OnlyTheseAdded
    <3>3. QED
      BY <2>1, <3>1, <3>2
  <2>3. QED
    BY <2>1, <2>2
<1>4. CASE P!AttachCount(Batch)
  BY <1>4 DEF P!AttachCount
<1>5. CASE P!Abort(Batch)
  BY <1>5 DEF P!Abort, P!Running
<1>6. QED
  BY <1>1, <1>2, <1>3, <1>4, <1>5
     DEF InBlock, P!Step, P!Create, P!DetailHeader, P!DetailRows, P!Delete

LEMMA BlockGlue == ASSUME U!IInv, P!IInv, Glue, InBlock PROVE Glue'
<1>1. UNCHANGED uvars /\ U!Refs' = U!Refs /\ U!Vouched' = U!Vouched
  BY DEF InBlock, U!Refs, U!Content, U!Items, U!Vouched, uvars
<1>2. phase = "grouping" /\ http # 200
  BY BlockMoves DEF Glue, Handler, U!IInv, U!Before
<1>3. Handler'
  BY <1>1, <1>2, BlockMoves DEF Glue, Handler, Before, OnItsWay, uvars
<1>4. Rows'
  BY <1>1, BlockMoves DEF Glue, Rows, OnItsWay, uvars
<1>5. QED
  BY <1>3, <1>4 DEF Glue

\* Another request never holds more than file 0, and none of its steps is the batch's.
LEMMA OthersMove ==
  ASSUME P!IInv, Rows, OtherRequest
  PROVE  /\ pc'[Batch] = pc[Batch] /\ due'[Batch] = due[Batch] /\ answer'[Batch] = answer[Batch]
         /\ \A r \in Others : pc'[r] \in OnItsWay => due'[r] \subseteq {0}
         /\ \A r \in Others : \/ due'[r] \subseteq due[r] \cup {0}
                              \/ \E p \in Pids : due'[r] \subseteq files[p]
         /\ \A p \in Pids : files'[p] \subseteq files[p] \cup {0}
<1> USE BatchAssumption DEF P!IInv, P!TypeOK, P!Goto, P!Finish, P!At, P!store, OnItsWay, Rows
<1>1. PICK r \in Others :
        \/ \E raw \in P!RawNames : P!StartCreate(r, raw) \/ P!StartUpload(r, raw, {0})
        \/ \E p \in Pids \cup {NoPid}, step \in {"header", "delete"} : P!StartById(r, p, step)
        \/ P!Step(r) \/ P!Abort(r)
  BY DEF OtherRequest
<1>2. CASE \E raw \in P!RawNames : P!StartCreate(r, raw) \/ P!StartUpload(r, raw, {0})
  <2>1. files' = files /\ (due' = due \/ due' = [due EXCEPT ![r] = {0}])
    BY <1>2 DEF P!StartCreate, P!StartUpload
  <2>2. /\ \/ pc' = [pc EXCEPT ![r] = "done"]
           \/ pc' = [pc EXCEPT ![r] = "create"]
           \/ pc' = [pc EXCEPT ![r] = "lookup"] /\ due' = [due EXCEPT ![r] = {0}]
        /\ answer'[Batch] = answer[Batch]
    BY <1>2 DEF P!StartCreate, P!StartUpload
  <2>3. QED
    BY <2>1, <2>2
<1>3. CASE \E p \in Pids \cup {NoPid}, step \in {"header", "delete"} : P!StartById(r, p, step)
  BY <1>3 DEF P!StartById
<1>4. CASE P!Create(r) \/ P!Lookup(r) \/ P!GetOrCreateInsert(r)
  BY <1>4 DEF P!Create, P!Lookup, P!GetOrCreateInsert, P!InsertProject
<1>5. CASE P!AttachInsert(r)
  <2>1. /\ \/ files' = files
           \/ files' = [files EXCEPT ![target[r]] = @ \cup due[r]]
        /\ due' = due /\ pc[r] = "attach"
        /\ \/ pc' = [pc EXCEPT ![r] = "count"] /\ answer' = answer
           \/ /\ pc' = [pc EXCEPT ![r] = "done"]
              /\ \E how \in {"attached", "fkviolation"} : answer' = [answer EXCEPT ![r] = how]
    BY <1>5 DEF P!AttachInsert
  <2>2. \A p \in Pids : files'[p] \subseteq files[p] \cup {0}
    <3>1. CASE files' = files
      BY <3>1
    <3>2. CASE files' = [files EXCEPT ![target[r]] = @ \cup due[r]]
      BY <2>1, <3>2, OnlyTheseAdded
    <3>3. QED
      BY <2>1, <3>1, <3>2
  <2>3. QED
    BY <2>1, <2>2
<1>6. CASE P!AttachCount(r) \/ P!DetailRows(r)
  BY <1>6 DEF P!AttachCount, P!DetailRows
<1>7. CASE P!DetailHeader(r)
  BY <1>7 DEF P!DetailHeader, P!Live
<1>8. CASE P!Delete(r)
  BY <1>8 DEF P!Delete
<1>9. CASE P!Abort(r)
  BY <1>9 DEF P!Abort
<1>10. QED
  BY <1>1, <1>2, <1>3, <1>4, <1>5, <1>6, <1>7, <1>8, <1>9 DEF P!Step

LEMMA OthersGlue == ASSUME U!IInv, P!IInv, Glue, OtherRequest PROVE Glue'
<1>1. UNCHANGED uvars /\ U!Refs' = U!Refs /\ U!Vouched' = U!Vouched /\ 0 \notin U!Vouched
  BY RefsInGraph DEF OtherRequest, U!Refs, U!Content, U!Items, U!Vouched, uvars
<1>2. Handler'
  BY <1>1, OthersMove DEF Glue, Handler, Before, OnItsWay, uvars
<1>3. Rows'
  BY <1>1, OthersMove DEF Glue, Rows, OnItsWay, uvars
<1>4. QED
  BY <1>2, <1>3 DEF Glue

\* After a restart no request is on its way; what was answered stands.
LEMMA RestartGlue == ASSUME P!IInv, Glue, Restart PROVE Glue'
<1>1. /\ UNCHANGED <<mode, graph, files, due>> /\ U!Refs' = U!Refs /\ U!Vouched' = U!Vouched
      /\ phase' = "answered" /\ (http' = 200 => http = 200 /\ phase = "answered")
  BY DEF Restart, P!Restart, P!store, U!Refs, U!Content, U!Items, U!Vouched
<1>2. \A r \in Others \cup {Batch} :
        \/ pc'[r] = pc[r] /\ answer'[r] = answer[r] /\ pc[r] \in {"idle", "done"}
        \/ pc'[r] = "done" /\ answer'[r] = "error" /\ pc[r] \in P!Running
  BY DEF Restart, P!Restart, P!IInv, P!TypeOK
<1>3. Handler'
  BY <1>1, <1>2 DEF Glue, Handler, Before, OnItsWay, P!Running
<1>4. Rows'
  BY <1>1, <1>2 DEF Glue, Rows, OnItsWay
<1>5. QED
  BY <1>3, <1>4 DEF Glue

-----------------------------------------------------------------------------
(* The invariant, and what follows from it.                                *)

LEMMA InitInv == Init => IInv
<1> SUFFICES ASSUME Init PROVE IInv
  OBVIOUS
<1>1. U!IInv /\ P!IInv
  BY U!InitInv, P!InitInv, BatchAssumption DEF Init
<1>2. mode = "auto" /\ phase = "check" /\ http = 0 /\ \A p \in Pids : files[p] = {}
  BY DEF Init, U!Init, P!Init
<1>3. \A r \in Others \cup {Batch} : pc[r] = "idle" /\ answer[r] = "none" /\ due[r] = {}
  BY DEF Init, P!Init
<1>4. Handler /\ Rows
  BY <1>2, <1>3 DEF Handler, Rows, Before, OnItsWay
<1>5. QED
  BY <1>1, <1>4 DEF IInv, Glue

LEMMA NextInv == IInv /\ [Next]_vars => IInv'
<1>1. ASSUME IInv, Next PROVE IInv'
  <2>1. U!IInv' /\ P!IInv'
    BY <1>1, UploadsKept, StoreKept DEF IInv
  <2>2. Glue'
    BY <1>1, UploadGlue, EnterGlue, BlockGlue, OthersGlue, RestartGlue DEF IInv, Next
  <2>3. QED
    BY <2>1, <2>2 DEF IInv
<1>2. ASSUME IInv, UNCHANGED vars PROVE IInv'
  <2>1. UNCHANGED uvars /\ UNCHANGED pvars
    BY <1>2 DEF vars
  <2>2. U!IInv' /\ P!IInv'
    BY <1>2, <2>1, U!NextInv, P!NextInv, BatchAssumption
       DEF IInv, U!vars, P!vars, P!store, P!request, uvars, pvars
  <2>3. U!Refs' = U!Refs /\ U!Vouched' = U!Vouched
    BY <2>1 DEF uvars, U!Refs, U!Content, U!Items, U!Vouched
  <2>4. Glue'
    BY <1>2, <2>1, <2>3 DEF IInv, Glue, Handler, Rows, Before, OnItsWay, uvars, pvars
  <2>5. QED
    BY <2>2, <2>4 DEF IInv
<1>3. QED
  BY <1>1, <1>2

\* The two components' invariants and what relates them hold in every reachable state.
THEOREM Invariant == Spec => []IInv
BY InitInv, NextInv, PTL DEF Spec

\* However the parsers, the fallback, other requests and restarts interleave, the
\* TWS and Tableau files a project holds are in the graph.
THEOREM ProjectsHoldParsed == Spec => []ProjectFilesParsed
<1>1. IInv => ProjectFilesParsed
  BY DEF IInv, Glue, Rows, ProjectFilesParsed
<1>2. QED
  BY <1>1, Invariant, PTL

\* An answered upload has its ok files in one project, or in none.
THEOREM GroupedWhole == Spec => []GroupedWholeOrNot
<1>1. IInv => GroupedWholeOrNot
  <2> SUFFICES ASSUME IInv, http = 200 PROVE GroupedWholeOrNot
    BY DEF GroupedWholeOrNot
  <2>1. answer[Batch] \in {"attached", "unavailable", "conflict"}
    BY DEF IInv, Glue, Handler
  <2>2. CASE answer[Batch] = "attached"
    <3>1. due[Batch] = U!Refs
      BY <2>2 DEF IInv, Glue, Handler
    <3>2. P!Told(Batch)
      BY DEF IInv, P!IInv
    <3>3. QED
      BY <2>2, <3>1, <3>2 DEF GroupedWholeOrNot, P!Told
  <2>3. CASE answer[Batch] \in {"unavailable", "conflict"}
    <3>1. \A p \in Pids : files[p] \subseteq {0}
      BY <2>3 DEF IInv, Glue, Rows
    <3>2. 0 \notin U!Refs
      BY RefsInGraph DEF IInv
    <3>3. QED
      BY <2>3, <3>1, <3>2 DEF GroupedWholeOrNot
  <2>4. QED
    BY <2>1, <2>2, <2>3
<1>2. QED
  BY <1>1, Invariant, PTL
=============================================================================
