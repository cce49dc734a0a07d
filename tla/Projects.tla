------------------------------ MODULE Projects ------------------------------
(***************************************************************************)
(* The gateway's project store (projects.py): two Postgres tables, and the *)
(* HTTP handlers that read and write them one autocommitted statement at a *)
(* time, each statement an action, so that handlers interleave wherever    *)
(* the code awaits the database.                                           *)
(*                                                                         *)
(* A handler keeps one pooled connection for the statements of one         *)
(* `async with pool.acquire()` block.  Any handler may die between two     *)
(* statements (command_timeout, a lost connection), and the gateway itself *)
(* may restart, with or without a database.                                *)
(***************************************************************************)
EXTENDS Naturals, FiniteSets

CONSTANTS
  Names,     \* project names, trimmed
  Files,     \* Neo4j ids of parsed files
  Pids,      \* the uuid4 values the processes draw from
  Requests,  \* HTTP requests, each handled once
  PoolSize,  \* max_size of the asyncpg pool
  Blank,     \* what trimming a name of spaces leaves
  NoName,    \* the name of an id with no row in `projects`
  NoPid      \* no project id

ASSUME ConstantsAssumption ==
  /\ NoName \notin Names /\ Blank \notin Names
  /\ NoPid \notin Pids
  /\ PoolSize \in Nat \ {0}

VARIABLES
  pool,      \* is there a connection pool? decided when the gateway boots
  name,      \* table projects: id -> name, NoName where there is no row
  issued,    \* ids that ever had a row
  files,     \* table project_files: id -> the neo4j_ids of its rows
  pc,        \* where each request's handler is
  wanted,    \* the trimmed name of a create or upload request
  target,    \* the project a request works on
  due,       \* upload: the refs to attach; detail: the files there when the
             \* header was read (nothing in the code remembers the latter)
  found,     \* upload: the rows the re-count saw; detail: the rows returned
  added,     \* upload: the rows the INSERT really added (the code drops them)
  answer     \* how the request ended

store   == <<name, issued, files>>
request == <<pc, wanted, target, due, found, added, answer>>
vars    == <<pool, store, request>>

Answers == {"none", "badname", "badid", "unavailable", "conflict", "created", "attached",
            "fkviolation", "notfound", "detail", "deleted", "error"}
Running == {"create", "lookup", "insert", "attach", "count", "header", "rows", "delete"}

TypeOK ==
  /\ pool \in BOOLEAN
  /\ name \in [Pids -> Names \cup {NoName}]
  /\ issued \subseteq Pids
  /\ files \in [Pids -> SUBSET Files]
  /\ pc \in [Requests -> Running \cup {"idle", "done"}]
  /\ wanted \in [Requests -> Names \cup {NoName}]
  /\ target \in [Requests -> Pids \cup {NoPid}]
  /\ due \in [Requests -> SUBSET Files]
  /\ found \in [Requests -> SUBSET Files]
  /\ added \in [Requests -> SUBSET Files]
  /\ answer \in [Requests -> Answers]

Live(p) == p \in Pids /\ name[p] # NoName
Taken(n) == \E p \in Pids : name[p] = n

\* (bug: the whole upload inside one acquire block, which acquires again)
HoldingNested == {r \in Requests : pc[r] \in {"insert", "attach", "count", "rows"}}
\* A handler between two statements of one acquire block holds a connection.
Holding == {r \in Requests : pc[r] \in {"insert", "count", "rows"}}
Connection == Cardinality(Holding) < PoolSize

Init ==
  /\ pool \in BOOLEAN
  /\ name = [p \in Pids |-> NoName]
  /\ issued = {}
  /\ files = [p \in Pids |-> {}]
  /\ pc = [r \in Requests |-> "idle"]
  /\ wanted = [r \in Requests |-> NoName]
  /\ target = [r \in Requests |-> NoPid]
  /\ due = [r \in Requests |-> {}]
  /\ found = [r \in Requests |-> {}]
  /\ added = [r \in Requests |-> {}]
  /\ answer = [r \in Requests |-> "none"]

At(r, step) == pc[r] = step
Goto(r, step) == pc' = [pc EXCEPT ![r] = step] /\ UNCHANGED answer
Finish(r, how) == /\ pc' = [pc EXCEPT ![r] = "done"]
                  /\ answer' = [answer EXCEPT ![r] = how]

-----------------------------------------------------------------------------
(* Requests arrive.  A raw name trims to a name or to nothing.             *)

RawNames == [padded : BOOLEAN, core : Names \cup {Blank}]
Strip(raw) == raw.core

\* (bug: no check of the trimmed name)
StartCreateUnchecked(r, raw) ==
  /\ At(r, "idle") /\ pool
  /\ Goto(r, "create") /\ wanted' = [wanted EXCEPT ![r] = Strip(raw)]
  /\ UNCHANGED <<pool, store, target, due, found, added>>
\* POST /projects: no pool is a 503, a blank name a 400.
StartCreate(r, raw) ==
  /\ At(r, "idle")
  /\ \/ ~pool /\ Finish(r, "unavailable") /\ UNCHANGED wanted
     \/ pool /\ Strip(raw) = Blank /\ Finish(r, "badname") /\ UNCHANGED wanted
     \/ pool /\ Strip(raw) # Blank /\ Goto(r, "create")
          /\ wanted' = [wanted EXCEPT ![r] = Strip(raw)]
  /\ UNCHANGED <<pool, store, target, due, found, added>>

\* The project block of POST /parse/upload/auto: the batch fs is parsed, the
\* name was seen not to be blank before any file was saved.
StartUpload(r, raw, fs) ==
  /\ At(r, "idle")
  /\ \/ Strip(raw) = Blank /\ Finish(r, "badname") /\ UNCHANGED <<wanted, due>>
     \/ Strip(raw) # Blank /\ ~pool /\ Finish(r, "unavailable") /\ UNCHANGED <<wanted, due>>
     \/ Strip(raw) # Blank /\ pool /\ Goto(r, "lookup")
          /\ wanted' = [wanted EXCEPT ![r] = Strip(raw)]
          /\ due' = [due EXCEPT ![r] = fs]
  /\ UNCHANGED <<pool, store, target, found, added>>

\* GET and DELETE /projects/{p}; NoPid stands for a text that is no uuid.
StartById(r, p, step) ==
  /\ At(r, "idle")
  /\ \/ ~pool /\ Finish(r, "unavailable") /\ UNCHANGED target
     \/ pool /\ p = NoPid /\ Finish(r, "badid") /\ UNCHANGED target
     \/ pool /\ p # NoPid /\ Goto(r, step) /\ target' = [target EXCEPT ![r] = p]
  /\ UNCHANGED <<pool, store, wanted, due, found, added>>

-----------------------------------------------------------------------------
(* create_project: one INSERT, refused by the UNIQUE constraint.           *)

InsertProject(r, p) ==
  /\ p \in Pids \ issued
  /\ name' = [name EXCEPT ![p] = wanted[r]]
  /\ issued' = issued \cup {p}
  /\ target' = [target EXCEPT ![r] = p]
  /\ UNCHANGED files

\* (bug: `name TEXT NOT NULL` without UNIQUE)
UniqueViolationNever(r) == FALSE
UniqueViolation(r) == Taken(wanted[r])

Create(r) ==
  /\ At(r, "create") /\ Connection
  /\ \/ /\ UniqueViolation(r)
        /\ Finish(r, "conflict")
        /\ UNCHANGED <<store, target>>
     \/ /\ ~UniqueViolation(r)
        /\ \E p \in Pids : InsertProject(r, p)
        /\ Finish(r, "created")
  /\ UNCHANGED <<pool, wanted, due, found, added>>

-----------------------------------------------------------------------------
(* get_or_create_project: SELECT, then INSERT if nothing was found.        *)

Lookup(r) ==
  /\ At(r, "lookup") /\ Connection
  /\ IF Taken(wanted[r])
     THEN /\ \E p \in Pids : /\ name[p] = wanted[r]
                             /\ target' = [target EXCEPT ![r] = p]
          /\ Goto(r, "attach")
     ELSE Goto(r, "insert") /\ UNCHANGED target
  /\ UNCHANGED <<pool, store, wanted, due, found, added>>

GetOrCreateInsert(r) ==
  /\ At(r, "insert")
  /\ \/ /\ UniqueViolation(r)
        /\ Finish(r, "conflict")
        /\ UNCHANGED <<store, target>>
     \/ /\ ~UniqueViolation(r)
        /\ \E p \in Pids : InsertProject(r, p)
        /\ Goto(r, "attach")
  /\ UNCHANGED <<pool, wanted, due, found, added>>

(* attach_files_to_project: executemany (one transaction), then a COUNT.   *)

\* The foreign key refuses rows of a project that is gone.
ForeignKeyViolation(r) == ~Live(target[r])

\* (bug: the project's rows are replaced by the batch, not extended)
AttachReplaces(r) ==
  /\ At(r, "attach") /\ Connection /\ Live(target[r])
  /\ added' = [added EXCEPT ![r] = due[r] \ files[target[r]]]
  /\ files' = [files EXCEPT ![target[r]] = due[r]]
  /\ Goto(r, "count")
  /\ UNCHANGED <<pool, name, issued, wanted, target, due, found>>
AttachInsert(r) ==
  /\ At(r, "attach")
  /\ \/ /\ due[r] = {}
        /\ Finish(r, "attached")
        /\ UNCHANGED <<files, added>>
     \/ /\ due[r] # {} /\ Connection
        /\ ForeignKeyViolation(r)
        /\ Finish(r, "fkviolation")
        /\ UNCHANGED <<files, added>>
     \/ /\ due[r] # {} /\ Connection
        /\ ~ForeignKeyViolation(r)
        /\ added' = [added EXCEPT ![r] = due[r] \ files[target[r]]]
        /\ files' = [files EXCEPT ![target[r]] = @ \cup due[r]]
        /\ Goto(r, "count")
  /\ UNCHANGED <<pool, name, issued, wanted, target, due, found>>

AttachCount(r) ==
  /\ At(r, "count")
  /\ found' = [found EXCEPT ![r] = files[target[r]] \cap due[r]]
  /\ Finish(r, "attached")
  /\ UNCHANGED <<pool, store, wanted, target, due, added>>

-----------------------------------------------------------------------------
(* get_project: the header and the rows are two statements.                *)

DetailHeader(r) ==
  /\ At(r, "header") /\ Connection
  /\ IF Live(target[r])
     THEN Goto(r, "rows") /\ due' = [due EXCEPT ![r] = files[target[r]]]
     ELSE Finish(r, "notfound") /\ UNCHANGED due
  /\ UNCHANGED <<pool, store, wanted, target, found, added>>

DetailRows(r) ==
  /\ At(r, "rows")
  /\ found' = [found EXCEPT ![r] = files[target[r]]]
  /\ Finish(r, "detail")
  /\ UNCHANGED <<pool, store, wanted, target, due, added>>

\* delete_project: one DELETE, the rows go by ON DELETE CASCADE.
Delete(r) ==
  /\ At(r, "delete") /\ Connection
  /\ IF Live(target[r])
     THEN /\ name' = [name EXCEPT ![target[r]] = NoName]
          /\ files' = [files EXCEPT ![target[r]] = {}]
          /\ Finish(r, "deleted")
     ELSE Finish(r, "notfound") /\ UNCHANGED <<name, files>>
  /\ UNCHANGED <<pool, issued, wanted, target, due, found, added>>

-----------------------------------------------------------------------------
(* Failures between statements.                                            *)

\* A statement times out or its connection is lost: the exception ends the
\* handler; what it committed before stays.
Abort(r) ==
  /\ pc[r] \in Running
  /\ Finish(r, "error")
  /\ UNCHANGED <<pool, store, wanted, target, due, found, added>>

\* The gateway restarts: every handler in flight is gone, the pool is whatever
\* init_pool manages this time.
Restart ==
  /\ pool' \in BOOLEAN
  /\ pc' = [r \in Requests |-> IF pc[r] \in Running THEN "done" ELSE pc[r]]
  /\ answer' = [r \in Requests |-> IF pc[r] \in Running THEN "error" ELSE answer[r]]
  /\ UNCHANGED <<store, wanted, target, due, found, added>>

Start(r) ==
  \/ \E raw \in RawNames : StartCreate(r, raw)
  \/ \E raw \in RawNames, fs \in SUBSET Files : StartUpload(r, raw, fs)
  \/ \E p \in Pids \cup {NoPid}, step \in {"header", "delete"} : StartById(r, p, step)

Step(r) ==
  \/ Create(r)
  \/ Lookup(r)
  \/ GetOrCreateInsert(r)
  \/ AttachInsert(r)
  \/ AttachCount(r)
  \/ DetailHeader(r)
  \/ DetailRows(r)
  \/ Delete(r)

Next == Restart \/ \E r \in Requests : Start(r) \/ Step(r) \/ Abort(r)

Spec == Init /\ [][Next]_vars

\* asyncio resumes a handler whose statement returned, and Postgres answers or
\* command_timeout ends the statement: no handler that can go on waits forever.
FairSpec == Spec /\ \A r \in Requests : WF_vars(Step(r))
-----------------------------------------------------------------------------
(* Safety.                                                                 *)

\* No two projects share a name, whatever creates race: get_or_create_project
\* looks first and inserts later, and only the UNIQUE constraint stands between.
UniqueNames == \A p, q \in Pids : Live(p) /\ Live(q) /\ name[p] = name[q] => p = q

\* A row of project_files belongs to a project that exists, although an upload
\* may attach while a delete removes the project it looked up.
NoOrphanRows == \A p \in Pids : files[p] # {} => Live(p)

\* What a handler was told stays true: an upload answered "attached" finds all
\* its files in its project, and a detail read shows at least the files there
\* when its header was read, unless the project was deleted meanwhile.
AnswersStayTrue ==
  \A r \in Requests : LET p == target[r] IN
    /\ answer[r] = "attached" /\ due[r] # {} /\ Live(p)
         => due[r] \subseteq files[p] /\ found[r] = due[r]
    /\ answer[r] = "detail" /\ Live(p) => due[r] \subseteq found[r] /\ found[r] \subseteq files[p]

\* The re-count of attach_files_to_project sees all of the batch, or nothing:
\* nothing only if the project is gone by then.
CountAllOrNothing ==
  \A r \in Requests : answer[r] = "attached" =>
    found[r] = due[r] \/ (found[r] = {} /\ ~Live(target[r]))

\* Files of an upload that fails at the foreign key are in no project, and it
\* fails there only because its project was deleted after it was looked up.
ForeignKeyOnlyAfterDelete ==
  \A r \in Requests : answer[r] = "fkviolation" =>
    target[r] \in issued /\ ~Live(target[r]) /\ added[r] = {}

-----------------------------------------------------------------------------
(* What a step may never do.                                               *)

\* Rows leave project_files only with their project: no upload, read, failure
\* or restart drops a file from a project that stays.
RowsLeaveWithProject ==
  [][\A p \in Pids : Live(p) /\ name'[p] # NoName =>
        files[p] \subseteq files'[p] /\ name'[p] = name[p]]_vars

-----------------------------------------------------------------------------
(* Progress and refinement.                                                *)

\* Every request that reached the database is answered, although handlers
\* queue for the pool: none asks for a connection while it holds one.
EveryRequestAnswered == \A r \in Requests : pc[r] \in Running ~> pc[r] = "done"

\* The two tables as one registry: the live ids with their name and rows.
RegistryView == [p \in {q \in Pids : name[q] # NoName} |->
                   [name |-> name[p], files |-> files[p]]]

Registry == INSTANCE ProjectRegistry WITH registry <- RegistryView, issued <- issued

\* However its statements interleave and wherever it fails, the store behaves
\* as one registry changed by whole openings, attachments and deletions.
RegistrySpec == Registry!Spec
=============================================================================
