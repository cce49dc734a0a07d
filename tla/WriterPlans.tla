----------------------------- MODULE WriterPlans -----------------------------
(***************************************************************************)
(* What the writers of the Spark, QlikView and Tableau parsers share: the  *)
(* :Table and :Connection nodes all three merge, and the shape of a plan.  *)
(*                                                                         *)
(* A :Table node is merged on its full name (or, for a path, its id) and   *)
(* carries an id of its own that each parser computes from the name.  A    *)
(* full name is kept as its parts and whether it is in upper case: two     *)
(* names are the same string when both agree.                              *)
(***************************************************************************)
EXTENDS PropertyGraph, SequencesExt

\* A table as a source file spells it, of at most three parts, or a path; conn is
\* the connection it is read through, or "".
Named(parts, upper, conn) == [path |-> FALSE, parts |-> parts, upper |-> upper, conn |-> conn]
Path(location, conn) == [path |-> TRUE, parts |-> <<location>>, upper |-> FALSE, conn |-> conn]

\* <database>.<schema>.<name>, what is missing left empty.
Padded(parts) == [i \in 1..(3 - Len(parts)) |-> ""] \o parts

TableNode(path, parts, upper) == Node("Table", <<"table", path, parts, upper>>)
ConnectionNode(c) == Node("Connection", <<"connection", c>>)

\* An id is the hash of the lowercased string: the case is gone, the dots are not.
TableId(path, parts) == <<path, parts>>

-----------------------------------------------------------------------------
\* A statement beyond those of PropertyGraph: MERGE (t:Table ...) of rows [table, id],
\* where how says whether the id is SET or only set ON CREATE.
TableRows(rows, how) == [op |-> "tables", rows |-> rows, how |-> how]
OneTable(table, id) == TableRows({[table |-> table, id |-> id]}, "set")

\* An end of an edge row that is not matched by the key of its node: a table by its
\* id, a QlikTable by its name, a QlikScript by its base name.  meant is the node the
\* writer has in mind.
Match(by, key, meant) == [label |-> "?", by |-> by, key |-> key, meant |-> meant]
TableWithId(table, id) == Match("id", id, table)

PlainEnd(end) == end.label # "?"
Plain(e) == PlainEnd(e.from) /\ PlainEnd(e.to)

Meant(end) == IF end.label = "?" THEN end.meant ELSE end

\* What a sequence of statements writes: its nodes, and the edges it has in mind
\* between two of them.
TablesOf(steps) == UNION {steps[i].rows : i \in {k \in DOMAIN steps : steps[k].op = "tables"}}
WrittenBy(steps) == NodesOf(steps) \cup {r.table : r \in TablesOf(steps)}
MeantBy(steps) ==
  {e \in UNION {{Edge(Meant(x.from), x.type, Meant(x.to)) : x \in steps[i].rows}
                  : i \in {k \in DOMAIN steps : steps[k].op = "edges"}} :
     {e.from, e.to} \subseteq WrittenBy(steps)}

\* The plan of a request: the nodes of the files it is about, its statements, and for
\* each the statement to go on with when it fails (one past the last: none).  owns is the
\* pairs of edge types under the files' nodes that the request replaces, empty when it
\* only merges.
Plan(roots, steps, resume, owns) ==
  [roots |-> roots, steps |-> steps, resume |-> resume, owns |-> owns,
   tables |-> TablesOf(steps), nodes |-> WrittenBy(steps), edges |-> MeantBy(steps)]

GiveUp(steps) == [i \in DOMAIN steps |-> Len(steps) + 1]

IsSeq(s) == s \in Seq(ToSet(s))

\* The steps of every item of a sequence, one item after the other.
Each(items, Steps(_)) == FlattenSeq([i \in DOMAIN items |-> Steps(items[i])])

OneNode(n) == NodeRows({n})
OneEdge(from, type, to) == EdgeRows({Edge(from, type, to)})
=============================================================================
