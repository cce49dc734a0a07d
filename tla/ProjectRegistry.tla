--------------------------- MODULE ProjectRegistry ---------------------------
(***************************************************************************)
(* What the gateway's project tables promise, with no requests, statements *)
(* or connections: a registry of named projects, each with a growing set   *)
(* of files.  A name is held by at most one project, an id is given out    *)
(* once, and a project loses its files only together with itself.          *)
(***************************************************************************)
CONSTANTS Names, Files, Pids

VARIABLES registry,  \* live project id -> [name, files]
          issued     \* every project id ever given out

vars == <<registry, issued>>

Live == DOMAIN registry

Init == /\ registry = [p \in {} |-> {}]
        /\ issued = {}

\* A project is opened under an id never used and a name nobody holds.
Open(p, n) ==
  /\ p \notin issued
  /\ \A q \in Live : registry[q].name # n
  /\ registry' = [q \in Live \cup {p} |->
                    IF q = p THEN [name |-> n, files |-> {}] ELSE registry[q]]
  /\ issued' = issued \cup {p}

\* Files join a project that still exists; those already there stay as they are.
Attach(p, fs) ==
  /\ p \in Live
  /\ registry' = [q \in Live |->
                    IF q = p THEN [name |-> registry[p].name,
                                   files |-> registry[p].files \cup fs]
                    ELSE registry[q]]
  /\ UNCHANGED issued

\* A project goes, and all its files with it.
Drop(p) ==
  /\ p \in Live
  /\ registry' = [q \in Live \ {p} |-> registry[q]]
  /\ UNCHANGED issued

Next == \/ \E p \in Pids, n \in Names : Open(p, n)
        \/ \E p \in Pids, fs \in SUBSET Files : Attach(p, fs)
        \/ \E p \in Pids : Drop(p)

Spec == Init /\ [][Next]_vars
=============================================================================
