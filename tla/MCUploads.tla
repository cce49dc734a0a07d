------------------------------ MODULE MCUploads ------------------------------
(* Batches over two TWS names, a QlikView name, a Tableau name and one nobody *)
(* claims.                                                                    *)
EXTENDS Uploads

Sources == [f \in {"a.txt", "b.txt", "q.qvs", "t.twb", "x.bin"} |->
              CASE f = "q.qvs" -> "qlikview" [] f = "t.twb" -> "tableau"
                [] f = "x.bin" -> NoSource [] OTHER -> "tws"]
UploadedNames == DOMAIN Sources

\* Every batch of up to two files (the Tableau file alone or beside the QlikView
\* one), and of three: two parsers, a name twice, a name nobody claims.
Short == UNION {[1..n -> UploadedNames \ {"t.twb"}] : n \in 0..2}
           \cup {<<"t.twb">>, <<"q.qvs", "t.twb">>}
Long == {<<"a.txt", "q.qvs", "b.txt">>, <<"a.txt", "b.txt", "a.txt">>,
         <<"a.txt", "x.bin", "b.txt">>}
Lists == Short \cup Long
=============================================================================
