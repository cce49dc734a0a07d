--------------------------- MODULE Projects_proofs ---------------------------
(***************************************************************************)
(* Proofs about Projects, for any number of requests, names, files, ids    *)
(* and pooled connections: the tables and the answers given about them are *)
(* right in every reachable state, and the handlers, statement by          *)
(* statement, implement ProjectRegistry.                                   *)
(***************************************************************************)
EXTENDS Projects, TLAPS

\* A name is in the table only under an id that was issued.
LiveIssued == \A p \in Pids : name[p] # NoName => p \in issued

\* What a handler knows at each of its steps.
Known(r) ==
  /\ pc[r] \in {"create", "lookup", "insert"} => wanted[r] \in Names
  /\ pc[r] = "attach" => target[r] \in issued
  /\ pc[r] \in {"header", "delete"} => target[r] \in Pids
  /\ pc[r] \in {"count", "rows"} =>
       /\ target[r] \in issued
       /\ name[target[r]] # NoName => due[r] \subseteq files[target[r]]
  /\ pc[r] # "done" => answer[r] = "none" /\ found[r] = {} /\ (pc[r] # "count" => added[r] = {})

\* What an answer says of the tables, for as long as the project lives.
Told(r) ==
  /\ answer[r] = "attached" =>
       \/ due[r] = {} /\ found[r] = {}
       \/ /\ target[r] \in issued
          /\ name[target[r]] # NoName => due[r] \subseteq files[target[r]] /\ found[r] = due[r]
          /\ name[target[r]] = NoName => found[r] \in {due[r], {}}
  /\ answer[r] = "detail" =>
       /\ target[r] \in issued
       /\ name[target[r]] # NoName => due[r] \subseteq found[r] /\ found[r] \subseteq files[target[r]]
  /\ answer[r] = "fkviolation" =>
       target[r] \in issued /\ name[target[r]] = NoName /\ added[r] = {}

\* The inductive invariant.
IInv == /\ TypeOK
        /\ UniqueNames
        /\ NoOrphanRows
        /\ LiveIssued
        /\ \A r \in Requests : Known(r) /\ Told(r)

\* How the tables may change, seen by a handler that keeps an id.
StoreGrows ==
  /\ issued \subseteq issued'
  /\ \A p \in issued : name'[p] # NoName =>
       name'[p] = name[p] /\ files[p] \subseteq files'[p]

-----------------------------------------------------------------------------
(* Every action keeps the types.                                           *)

LEMMA InitType == Init => TypeOK
BY DEF Init, TypeOK, Running, Answers

LEMMA NextType == IInv /\ [Next]_vars => TypeOK'
<1> SUFFICES ASSUME IInv, [Next]_vars PROVE TypeOK'
  OBVIOUS
<1> USE DEF IInv, TypeOK, Running, Answers, Finish, Goto, At, store
<1>1. CASE Restart
  BY <1>1 DEF Restart
<1>2. ASSUME NEW r \in Requests, NEW raw \in RawNames, StartCreate(r, raw) PROVE TypeOK'
  BY <1>2 DEF StartCreate, RawNames, Strip
<1>3. ASSUME NEW r \in Requests, NEW raw \in RawNames, NEW fs \in SUBSET Files,
             StartUpload(r, raw, fs)
      PROVE TypeOK'
  BY <1>3 DEF StartUpload, RawNames, Strip
<1>4. ASSUME NEW r \in Requests, NEW p \in Pids \cup {NoPid}, NEW step \in {"header", "delete"},
             StartById(r, p, step)
      PROVE TypeOK'
  BY <1>4 DEF StartById
<1>5. ASSUME NEW r \in Requests, Create(r) PROVE TypeOK'
  BY <1>5 DEF Create, InsertProject
<1>6. ASSUME NEW r \in Requests, Lookup(r) PROVE TypeOK'
  BY <1>6 DEF Lookup
<1>7. ASSUME NEW r \in Requests, GetOrCreateInsert(r) PROVE TypeOK'
  BY <1>7 DEF GetOrCreateInsert, InsertProject
<1>8. ASSUME NEW r \in Requests, AttachInsert(r) PROVE TypeOK'
  BY <1>8 DEF AttachInsert
<1>9. ASSUME NEW r \in Requests, AttachCount(r) PROVE TypeOK'
  BY <1>9 DEF AttachCount
<1>10. ASSUME NEW r \in Requests, DetailHeader(r) PROVE TypeOK'
  BY <1>10 DEF DetailHeader, Live
<1>11. ASSUME NEW r \in Requests, DetailRows(r) PROVE TypeOK'
  BY <1>11 DEF DetailRows, Known
<1>12. ASSUME NEW r \in Requests, Delete(r) PROVE TypeOK'
  BY <1>12 DEF Delete
<1>13. ASSUME NEW r \in Requests, Abort(r) PROVE TypeOK'
  BY <1>13 DEF Abort
<1>14. CASE UNCHANGED vars
  BY <1>14 DEF vars, request
<1>15. QED
  BY <1>1, <1>2, <1>3, <1>4, <1>5, <1>6, <1>7, <1>8, <1>9, <1>10, <1>11, <1>12, <1>13, <1>14
     DEF Next, Start, Step

-----------------------------------------------------------------------------
(* The tables: only three kinds of steps touch them.                       *)

LEMMA InsertKeepsTables ==
  ASSUME IInv, NEW r \in Requests, NEW p \in Pids, wanted[r] \in Names,
         ~UniqueViolation(r), InsertProject(r, p)
  PROVE  StoreGrows /\ UniqueNames' /\ NoOrphanRows' /\ LiveIssued'
<1> USE ConstantsAssumption
    DEF IInv, TypeOK, UniqueViolation, Taken, InsertProject, Live, UniqueNames, LiveIssued,
        NoOrphanRows
<1>1. StoreGrows
  BY DEF StoreGrows
<1>2. UniqueNames'
  OBVIOUS
<1>3. NoOrphanRows' /\ LiveIssued'
  OBVIOUS
<1>4. QED
  BY <1>1, <1>2, <1>3

LEMMA AttachKeepsTables ==
  ASSUME IInv, NEW r \in Requests, target[r] \in issued, AttachInsert(r)
  PROVE  StoreGrows /\ UniqueNames' /\ NoOrphanRows' /\ LiveIssued'
BY DEF IInv, TypeOK, AttachInsert, ForeignKeyViolation, Live, UniqueNames, LiveIssued,
       NoOrphanRows, StoreGrows

LEMMA DeleteKeepsTables ==
  ASSUME IInv, NEW r \in Requests, target[r] \in Pids, Delete(r)
  PROVE  StoreGrows /\ UniqueNames' /\ NoOrphanRows' /\ LiveIssued'
BY DEF IInv, TypeOK, Delete, Live, UniqueNames, LiveIssued, NoOrphanRows, StoreGrows

LEMMA IdleKeepsTables ==
  ASSUME IInv, UNCHANGED store
  PROVE  StoreGrows /\ UniqueNames' /\ NoOrphanRows' /\ LiveIssued'
BY DEF IInv, store, Live, UniqueNames, LiveIssued, NoOrphanRows, StoreGrows

LEMMA NextTables ==
  ASSUME IInv, [Next]_vars
  PROVE  StoreGrows /\ UniqueNames' /\ NoOrphanRows' /\ LiveIssued'
<1>1. CASE UNCHANGED store
  BY <1>1, IdleKeepsTables
<1>2. ASSUME NEW r \in Requests, Create(r) \/ GetOrCreateInsert(r), ~UNCHANGED store
      PROVE  StoreGrows /\ UniqueNames' /\ NoOrphanRows' /\ LiveIssued'
  <2>1. wanted[r] \in Names
    BY <1>2 DEF IInv, Known, Create, GetOrCreateInsert, At
  <2>2. ~UniqueViolation(r) /\ \E p \in Pids : InsertProject(r, p)
    BY <1>2 DEF Create, GetOrCreateInsert, store
  <2>3. QED
    BY <2>1, <2>2, InsertKeepsTables
<1>3. ASSUME NEW r \in Requests, AttachInsert(r)
      PROVE  StoreGrows /\ UniqueNames' /\ NoOrphanRows' /\ LiveIssued'
  BY <1>3, AttachKeepsTables DEF IInv, Known, AttachInsert, At
<1>4. ASSUME NEW r \in Requests, Delete(r)
      PROVE  StoreGrows /\ UniqueNames' /\ NoOrphanRows' /\ LiveIssued'
  BY <1>4, DeleteKeepsTables DEF IInv, Known, Delete, At
<1>5. QED
  BY <1>1, <1>2, <1>3, <1>4
     DEF Next, Start, Step, vars, StartCreate, StartUpload, StartById, Lookup, AttachCount,
         DetailHeader, DetailRows, Abort, Restart

-----------------------------------------------------------------------------
(* The handlers.  A step changes the fields of one request; what the others *)
(* know and were told survives any growth of the tables.                   *)

Kept(r) == /\ pc'[r] = pc[r] /\ wanted'[r] = wanted[r] /\ target'[r] = target[r]
           /\ due'[r] = due[r] /\ found'[r] = found[r] /\ added'[r] = added[r]
           /\ answer'[r] = answer[r]

LEMMA OthersKeep ==
  ASSUME IInv, StoreGrows, NEW r \in Requests, Kept(r)
  PROVE  Known(r)' /\ Told(r)'
<1> USE DEF IInv, TypeOK, StoreGrows, Kept
<1>1. Known(r)'
  BY DEF Known
<1>2. Told(r)'
  BY DEF Told
<1>3. QED
  BY <1>1, <1>2

\* The request that takes the step.
LEMMA StartKeeps ==
  ASSUME IInv, StoreGrows, NEW r \in Requests, Start(r)
  PROVE  Known(r)' /\ Told(r)'
<1> USE DEF IInv, TypeOK, StoreGrows, At, Goto, Finish, store
<1>0. At(r, "idle")
  BY DEF Start, StartCreate, StartUpload, StartById
<1>1. ASSUME NEW raw \in RawNames, StartCreate(r, raw) PROVE Known(r)' /\ Told(r)'
  BY <1>0, <1>1 DEF StartCreate, RawNames, Strip, Known, Told
<1>2. ASSUME NEW raw \in RawNames, NEW fs \in SUBSET Files, StartUpload(r, raw, fs)
      PROVE  Known(r)' /\ Told(r)'
  BY <1>0, <1>2 DEF StartUpload, RawNames, Strip, Known, Told
<1>3. ASSUME NEW p \in Pids \cup {NoPid}, NEW step \in {"header", "delete"}, StartById(r, p, step)
      PROVE  Known(r)' /\ Told(r)'
  BY <1>0, <1>3 DEF StartById, Known, Told
<1>4. QED
  BY <1>1, <1>2, <1>3 DEF Start

LEMMA StepKeeps ==
  ASSUME IInv, StoreGrows, NoOrphanRows', LiveIssued', NEW r \in Requests, Step(r)
  PROVE  Known(r)' /\ Told(r)'
<1> USE DEF IInv, TypeOK, StoreGrows, At, Goto, Finish, store
<1>1. CASE Create(r)
  BY <1>1 DEF Create, InsertProject, Known, Told
<1>2. CASE Lookup(r)
  BY <1>2, ConstantsAssumption DEF Lookup, Taken, Known, Told, LiveIssued
<1>3. CASE GetOrCreateInsert(r)
  BY <1>3 DEF GetOrCreateInsert, InsertProject, Known, Told
<1>4. CASE AttachInsert(r)
  BY <1>4 DEF AttachInsert, ForeignKeyViolation, Live, Known, Told
<1>5. CASE AttachCount(r)
  BY <1>5 DEF AttachCount, Known, Told, NoOrphanRows, Live
<1>6. CASE DetailHeader(r)
  BY <1>6 DEF DetailHeader, Live, Known, Told, LiveIssued
<1>7. CASE DetailRows(r)
  BY <1>7 DEF DetailRows, Known, Told
<1>8. CASE Delete(r)
  BY <1>8 DEF Delete, Known, Told
<1>9. QED
  BY <1>1, <1>2, <1>3, <1>4, <1>5, <1>6, <1>7, <1>8 DEF Step

LEMMA AbortKeeps ==
  ASSUME IInv, NEW r \in Requests, pc[r] \in Running, pc'[r] = "done", answer'[r] = "error"
  PROVE  Known(r)' /\ Told(r)'
BY DEF Known, Told

\* Who moves: one request, all of those in flight, or none.
LEMMA WhoMoves ==
  ASSUME IInv, [Next]_vars, NEW r \in Requests
  PROVE  \/ Kept(r)
         \/ Start(r)
         \/ Step(r)
         \/ pc[r] \in Running /\ pc'[r] = "done" /\ answer'[r] = "error"
<1> USE DEF IInv, TypeOK, Kept, At, Goto, Finish
<1>1. CASE Restart
  BY <1>1 DEF Restart
<1>2. ASSUME NEW q \in Requests, Start(q), q # r PROVE Kept(r)
  BY <1>2 DEF Start, StartCreate, StartUpload, StartById
<1>3. ASSUME NEW q \in Requests, Step(q), q # r PROVE Kept(r)
  BY <1>3 DEF Step, Create, Lookup, GetOrCreateInsert, InsertProject, AttachInsert,
              AttachCount, DetailHeader, DetailRows, Delete
<1>4. ASSUME NEW q \in Requests, Abort(q)
      PROVE  Kept(r) \/ (pc[r] \in Running /\ pc'[r] = "done" /\ answer'[r] = "error")
  BY <1>4 DEF Abort
<1>5. CASE UNCHANGED vars
  BY <1>5 DEF vars, request
<1>6. QED
  BY <1>1, <1>2, <1>3, <1>4, <1>5 DEF Next

LEMMA NextInv == IInv /\ [Next]_vars => IInv'
<1> SUFFICES ASSUME IInv, [Next]_vars PROVE IInv'
  OBVIOUS
<1>1. StoreGrows /\ UniqueNames' /\ NoOrphanRows' /\ LiveIssued'
  BY NextTables
<1>2. TypeOK'
  BY NextType
<1>3. ASSUME NEW r \in Requests PROVE Known(r)' /\ Told(r)'
  BY <1>1, WhoMoves, OthersKeep, StartKeeps, StepKeeps, AbortKeeps
<1>4. QED
  BY <1>1, <1>2, <1>3 DEF IInv

LEMMA InitInv == Init => IInv
<1> SUFFICES ASSUME Init PROVE IInv
  OBVIOUS
<1>1. TypeOK
  BY InitType
<1>2. UniqueNames /\ NoOrphanRows /\ LiveIssued
  BY DEF Init, UniqueNames, NoOrphanRows, LiveIssued, Live
<1>3. ASSUME NEW r \in Requests PROVE Known(r) /\ Told(r)
  BY DEF Init, Known, Told
<1>4. QED
  BY <1>1, <1>2, <1>3 DEF IInv

\* The inductive invariant holds of every reachable state.
THEOREM Invariance == Spec => []IInv
<1>1. Init => IInv
  BY InitInv
<1>2. IInv /\ [Next]_vars => IInv'
  BY NextInv
<1>3. QED
  BY <1>1, <1>2, PTL DEF Spec

\* Every variable keeps its type, for any number of requests, projects and files.
THEOREM TypeCorrect == Spec => []TypeOK
<1>1. IInv => TypeOK
  BY DEF IInv
<1>2. QED
  BY <1>1, Invariance, PTL

\* Racing creates, uploads and deletes never leave two projects of one name,
\* nor a row of project_files without its project.
THEOREM TablesCorrect == Spec => [](UniqueNames /\ NoOrphanRows)
<1>1. IInv => UniqueNames /\ NoOrphanRows
  BY DEF IInv
<1>2. QED
  BY <1>1, Invariance, PTL

\* What a handler answered about a project stays true while the project lives.
THEOREM AnswersCorrect ==
  Spec => [](AnswersStayTrue /\ CountAllOrNothing /\ ForeignKeyOnlyAfterDelete)
<1>1. IInv => AnswersStayTrue
  BY DEF IInv, TypeOK, Told, AnswersStayTrue, Live
<1>2. IInv => CountAllOrNothing
  BY DEF IInv, TypeOK, Told, CountAllOrNothing, Live
<1>3. IInv => ForeignKeyOnlyAfterDelete
  BY DEF IInv, TypeOK, Told, ForeignKeyOnlyAfterDelete, Live
<1>4. QED
  BY <1>1, <1>2, <1>3, Invariance, PTL

\* Rows of project_files leave only with their project, whatever fails or restarts.
THEOREM RowsStay == Spec => RowsLeaveWithProject
<1>1. IInv /\ [Next]_vars =>
        [\A p \in Pids : Live(p) /\ name'[p] # NoName =>
           files[p] \subseteq files'[p] /\ name'[p] = name[p]]_vars
  BY NextTables DEF StoreGrows, IInv, LiveIssued, Live
<1>2. QED
  BY <1>1, Invariance, PTL DEF Spec, RowsLeaveWithProject

-----------------------------------------------------------------------------
(* The tables implement the registry: the INSERT into projects opens, the   *)
(* INSERT into project_files attaches, the DELETE drops; the rest stutters. *)

LEMMA InsertOpens ==
  ASSUME IInv, NEW r \in Requests, NEW p \in Pids, wanted[r] \in Names,
         ~UniqueViolation(r), InsertProject(r, p)
  PROVE  Registry!Open(p, wanted[r])
<1> USE ConstantsAssumption DEF IInv, TypeOK, InsertProject, LiveIssued, Registry!Live, RegistryView
<1>1. name[p] = NoName /\ files[p] = {}
  BY DEF NoOrphanRows, Live
<1>2. \A q \in Registry!Live : RegistryView[q].name # wanted[r]
  BY DEF UniqueViolation, Taken
<1>3. {q \in Pids : name'[q] # NoName} = Registry!Live \cup {p}
  OBVIOUS
<1>4. RegistryView' = [q \in Registry!Live \cup {p} |->
                        IF q = p THEN [name |-> wanted[r], files |-> {}] ELSE RegistryView[q]]
  BY <1>1, <1>3
<1>5. QED
  BY <1>2, <1>4 DEF Registry!Open

LEMMA InsertAttaches ==
  ASSUME IInv, NEW r \in Requests, target[r] \in issued, AttachInsert(r), ~UNCHANGED store
  PROVE  Registry!Attach(target[r], due[r])
<1> DEFINE p == target[r]
<1> USE DEF IInv, TypeOK, Registry!Live, RegistryView
<1>1. /\ name' = name /\ issued' = issued
      /\ name[p] # NoName /\ p \in Pids
      /\ files' = [files EXCEPT ![p] = @ \cup due[r]]
  BY DEF AttachInsert, ForeignKeyViolation, Live, store
<1>2. RegistryView' = [q \in Registry!Live |->
                        IF q = p THEN [name  |-> RegistryView[p].name,
                                       files |-> RegistryView[p].files \cup due[r]]
                        ELSE RegistryView[q]]
  BY <1>1
<1>3. QED
  BY <1>1, <1>2 DEF Registry!Attach

LEMMA DeleteDrops ==
  ASSUME IInv, NEW r \in Requests, target[r] \in Pids, Delete(r), ~UNCHANGED store
  PROVE  Registry!Drop(target[r])
<1> DEFINE p == target[r]
<1> USE DEF IInv, TypeOK, Registry!Live, RegistryView
<1>1. /\ name[p] # NoName /\ issued' = issued
      /\ name' = [name EXCEPT ![p] = NoName]
      /\ files' = [files EXCEPT ![p] = {}]
  BY DEF Delete, Live, store
<1>2. {q \in Pids : name'[q] # NoName} = Registry!Live \ {p}
  BY <1>1
<1>3. RegistryView' = [q \in Registry!Live \ {p} |-> RegistryView[q]]
  BY <1>1, <1>2
<1>4. QED
  BY <1>1, <1>3 DEF Registry!Drop

\* Statement by statement, with any failures and restarts, the handlers behave
\* as one registry of named projects changed by whole operations.
THEOREM ImplementsRegistry == Spec => RegistrySpec
<1>1. Init => Registry!Init
  BY DEF Init, Registry!Init, RegistryView
<1>2. IInv /\ [Next]_vars => [Registry!Next]_<<RegistryView, issued>>
  <2> SUFFICES ASSUME IInv, [Next]_vars, ~UNCHANGED store PROVE Registry!Next
    BY DEF store, RegistryView
  <2>1. ASSUME NEW r \in Requests, Create(r) \/ GetOrCreateInsert(r) PROVE Registry!Next
    <3>1. wanted[r] \in Names
      BY <2>1 DEF IInv, Known, Create, GetOrCreateInsert, At
    <3>2. ~UniqueViolation(r) /\ \E p \in Pids : InsertProject(r, p)
      BY <2>1 DEF Create, GetOrCreateInsert, store
    <3>3. QED
      BY <3>1, <3>2, InsertOpens DEF Registry!Next
  <2>2. ASSUME NEW r \in Requests, AttachInsert(r) PROVE Registry!Next
    <3>1. target[r] \in issued /\ target[r] \in Pids /\ due[r] \in SUBSET Files
      BY <2>2 DEF IInv, TypeOK, Known, AttachInsert, At
    <3>2. QED
      BY <2>2, <3>1, InsertAttaches DEF Registry!Next
  <2>3. ASSUME NEW r \in Requests, Delete(r) PROVE Registry!Next
    BY <2>3, DeleteDrops DEF IInv, Known, Delete, At, Registry!Next
  <2>4. QED
    BY <2>1, <2>2, <2>3
       DEF Next, Start, Step, vars, StartCreate, StartUpload, StartById, Lookup, AttachCount,
           DetailHeader, DetailRows, Abort, Restart
<1>3. QED
  BY <1>1, <1>2, Invariance, PTL DEF Spec, RegistrySpec, Registry!Spec, Registry!vars
=============================================================================
