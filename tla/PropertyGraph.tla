---------------------------- MODULE PropertyGraph ----------------------------
(***************************************************************************)
(* The Cypher statements the parsers' writers and the gateway send to      *)
(* Neo4j, over a graph [nodes, edges].  A node is its label and its id; an *)
(* edge is its two ends and its type.  Node properties other than the id   *)
(* are left out.  Each statement is one transaction.                       *)
(***************************************************************************)
EXTENDS Naturals, Sequences, FiniteSets

Node(label, id) == [label |-> label, id |-> id]
Edge(from, type, to) == [from |-> from, type |-> type, to |-> to]

EmptyGraph == [nodes |-> {}, edges |-> {}]

\* UNWIND rows AS row MERGE (n:Label {id: row.id}) SET ...
MergeNodes(g, new) == [nodes |-> g.nodes \cup new, edges |-> g.edges]

\* (bug: the ends are taken from the rows and not matched)
MatchMergeEdgesUnmatched(g, rows) == [nodes |-> g.nodes, edges |-> g.edges \cup rows]
\* UNWIND rows AS row MATCH (a {id}) MATCH (b {id}) MERGE (a)-[:TYPE]->(b): a row
\* one of whose ends is missing matches nothing and is skipped without an error.
MatchMergeEdges(g, rows) ==
  [nodes |-> g.nodes,
   edges |-> g.edges \cup {e \in rows : e.from \in g.nodes /\ e.to \in g.nodes}]

\* DETACH DELETE: the nodes, and every edge at one of them.
DetachDelete(g, gone) ==
  [nodes |-> g.nodes \ gone,
   edges |-> {e \in g.edges : e.from \notin gone /\ e.to \notin gone}]

\* The nodes one hop, and one to n hops, from a set along edges of the given types.
Hop(g, types, from) == {e.to : e \in {x \in g.edges : x.from \in from /\ x.type \in types}}
Within(g, types, from, n) ==
  LET reach[k \in 1..n] ==
        IF k = 1 THEN Hop(g, types, from)
                 ELSE reach[k - 1] \cup Hop(g, types, reach[k - 1])
  IN reach[n]

-----------------------------------------------------------------------------
\* The statements of a writer: nodes to merge, edges to match and merge, or a
\* subgraph to delete.  The last names its root and the paths, of at most two edge
\* types, from the root to the nodes that go; a node that an edge of a sparing type
\* points at stays.
NodeRows(rows) == [op |-> "nodes", rows |-> rows]
EdgeRows(rows) == [op |-> "edges", rows |-> rows]
Subgraph(root, paths, sparing) ==
  [op |-> "delete", root |-> root, paths |-> paths, sparing |-> sparing]

\* A writer sends no batch without rows: of a sequence of statements, those it sends, in
\* the order they have there.
Sent(steps) ==
  LET kept == {i \in DOMAIN steps : steps[i].op = "delete" \/ steps[i].rows # {}}
      place(i) == Cardinality({k \in kept : k <= i})
  IN [n \in 1..Cardinality(kept) |-> steps[CHOOSE i \in kept : place(i) = n]]

\* (bug: a path of one edge is not followed)
PathEndsFar(g, root, path) ==
  CASE Len(path) = 0 -> {root}
    [] Len(path) = 1 -> {}
    [] Len(path) = 2 -> Hop(g, {path[2]}, Hop(g, {path[1]}, {root}))
PathEnds(g, root, path) ==
  CASE Len(path) = 0 -> {root}
    [] Len(path) = 1 -> Hop(g, {path[1]}, {root})
    [] Len(path) = 2 -> Hop(g, {path[2]}, Hop(g, {path[1]}, {root}))

\* (bug: nothing is spared)
VictimsUnspared(g, st) == UNION {PathEnds(g, st.root, p) : p \in st.paths}
Victims(g, st) ==
  {n \in UNION {PathEnds(g, st.root, p) : p \in st.paths} :
     ~ \E e \in g.edges : e.to = n /\ e.type \in st.sparing}

Applied(g, st) ==
  IF st.op = "nodes" THEN MergeNodes(g, st.rows)
  ELSE IF st.op = "edges" THEN MatchMergeEdges(g, st.rows)
  ELSE DetachDelete(g, Victims(g, st))

\* The nodes a sequence of statements writes, and the edges between two of them.
NodesOf(steps) ==
  UNION {steps[i].rows : i \in {k \in DOMAIN steps : steps[k].op = "nodes"}}
EdgesOf(steps) ==
  {e \in UNION {steps[i].rows : i \in {k \in DOMAIN steps : steps[k].op = "edges"}} :
     e.from \in NodesOf(steps) /\ e.to \in NodesOf(steps)}

DeletesNothing(steps) == \A i \in DOMAIN steps : steps[i].op # "delete"

\* What a plan deletes it deletes before it writes anything.
DeletesLead(steps) ==
  \A i, k \in DOMAIN steps : steps[i].op = "delete" /\ steps[k].op # "delete" => i < k

\* The statements that write the ends of an edge come before the one with the edge.
EndsFirst(steps) ==
  \A i \in DOMAIN steps : steps[i].op = "edges" =>
    \A e \in steps[i].rows : \A n \in {e.from, e.to} \cap NodesOf(steps) :
      \E k \in 1..(i - 1) : steps[k].op = "nodes" /\ n \in steps[k].rows
=============================================================================
