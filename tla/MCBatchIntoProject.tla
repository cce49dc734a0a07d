-------------------------- MODULE MCBatchIntoProject --------------------------
(* Two TWS files, so that the multi call, its fallback and single calls all  *)
(* occur, a QlikView file, alone or beside a TWS file, whose write may be lost *)
(* unreported, one other request and one project name.                        *)
EXTENDS BatchIntoProject

TwsNames == {"a.txt", "b.txt"}
BatchNames == TwsNames \cup {"q.qvs"}
Sources == [f \in BatchNames |-> IF f = "q.qvs" THEN "qlikview" ELSE "tws"]
Batches == UNION {[1..n -> TwsNames] : n \in 0..2} \cup {<<"q.qvs">>, <<"a.txt", "q.qvs">>}
=============================================================================
