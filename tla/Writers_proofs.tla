---------------------------- MODULE Writers_proofs ----------------------------
(***************************************************************************)
(* What Writers promises, for any scripts, projects, apps and workbooks.   *)
(*                                                                         *)
(* The first half shows that the plans the three writers make of their     *)
(* files are WellPlanned, whatever the files and however many requests     *)
(* there are (FilesPlanned).  What no two files have in common names its   *)
(* file (Home); the edges a delete follows lead from a file's node to what *)
(* is its own (Hops); and the statements of a file are put together from   *)
(* parts that each are fit to be sent once what they need is there (Fit).  *)
(*                                                                         *)
(* The second half is the invariant.  Nothing holds of the graph once a    *)
(* statement has failed or two requests of one file have overlapped, so it *)
(* is what holds of it while ~ disturbed.  It says where every edge comes  *)
(* from (Origin), what of a file's latest request is in the graph at each  *)
(* of its statements (NodesLanded, EdgesLanded, TableIds), that an edge    *)
(* which spares its end stays (Guarded), and what of an earlier request is *)
(* left (NoneStale).                                                       *)
(***************************************************************************)
EXTENDS Writers, PropertyGraph_proofs

-----------------------------------------------------------------------------
\* What one statement writes: nodes (the tables among them), tables with their ids,
\* edge rows.
NodesAt(st) ==
  IF st.op = "nodes" THEN st.rows
  ELSE IF st.op = "tables" THEN {x.table : x \in st.rows} ELSE {}
IdsAt(st) == IF st.op = "tables" THEN st.rows ELSE {}
EdgesAt(st) == IF st.op = "edges" THEN st.rows ELSE {}

RowsOf(p) == UNION {EdgesAt(p.steps[i]) : i \in DOMAIN p.steps}
DeletesOf(p) == {p.steps[i] : i \in {k \in DOMAIN p.steps : p.steps[k].op = "delete"}}

\* Of a sequence m of plans, the requests of one behaviour: all edge rows, all deletes.
Rows(m) == UNION {RowsOf(m[r]) : r \in DOMAIN m}
Deletes(m) == UNION {DeletesOf(m[r]) : r \in DOMAIN m}

Ends(e) == {Meant(e.from), Meant(e.to)}

\* The rows a delete may follow, and the nodes it may come to.
Reaching(m, st) ==
  {e \in Rows(m) :
     \/ e.from = st.root /\ <<e.type>> \in st.paths
     \/ \E d \in Rows(m) : d.from = st.root /\ d.to = e.from /\ <<d.type, e.type>> \in st.paths}
Reach(m, st) ==
  {e.to : e \in Reaching(m, st)} \cup (IF <<>> \in st.paths THEN {st.root} ELSE {})

\* The first and the second hop from a root along a pair of types it owns.
Children(m, root, pair) == {e.to : e \in {x \in Rows(m) : x.from = root /\ x.type = pair[1]}}
Hung(m, root, pair, e) == e.type = pair[2] /\ e.from \in Children(m, root, pair)
Owned(m, root, pair, e) == (e.from = root /\ e.type = pair[1]) \/ Hung(m, root, pair, e)

-----------------------------------------------------------------------------
\* The plans the three writers make, whatever the file (in parentheses, what in the
\* writers it comes from).

\* Statements and rows are what the operators above make of them.
ShapedStep(st) ==
  /\ st.op \in {"nodes", "tables", "edges", "delete"}
  /\ st.op = "nodes" => \A n \in st.rows : n.label # "Table"
  /\ st.op = "tables" => \A x \in st.rows : x.table.label = "Table"
  /\ st.op = "edges" => \A e \in st.rows : e = Edge(e.from, e.type, e.to)
  /\ st.op = "delete" =>
       \A path \in st.paths : path = <<>> \/ path = <<path[1]>> \/ path = <<path[1], path[2]>>
Shaped(p) ==
  /\ p.steps \in Seq(ToSet(p.steps))
  /\ p = Plan(p.roots, p.steps, p.resume, p.owns)
  /\ \A i \in DOMAIN p.steps : ShapedStep(p.steps[i])

\* The ends an edge has in mind are written before it (nodes come first).
EndsBefore(p) ==
  \A i \in DOMAIN p.steps : \A e \in EdgesAt(p.steps[i]) : \A n \in Ends(e) \cap p.nodes :
    \E k \in 1..(i - 1) : n \in NodesAt(p.steps[k])

\* An end that is matched by a property names the node it has in mind (the key of the
\* row is that of the node written).
MatchesMeant(p) ==
  \A e \in RowsOf(p) : Ends(e) \subseteq p.nodes =>
    /\ e.type = "INHERITS_FROM" => Meant(e.to) # e.from
    /\ \A end \in {e.from, e.to} : ~ PlainEnd(end) =>
         CASE end.by = "id" ->
                /\ end.meant.label = "Table"
                /\ \E x \in p.tables : x.table = end.meant /\ x.id = end.key
           [] end.by = "name" -> end.meant.label = "QlikTable" /\ end.meant.id[4] = end.key
           [] OTHER -> end.meant.label = "QlikScript" /\ end.meant.id[3] = end.key

\* What is contained in a file's node is matched by its own key.
PlainPaths(m) ==
  \A e \in Rows(m) :
    \/ Plain(e)
    \/ /\ \A st \in Deletes(m) : \A path \in st.paths : e.type \notin ToSet(path)
       /\ \A r \in DOMAIN m : \A pair \in m[r].owns : e.type \notin {pair[1], pair[2]}

\* A request deletes from its own files' nodes, which only requests for that file write
\* or hang anything on.
Fenced(m) ==
  \A r \in DOMAIN m : \A st \in DeletesOf(m[r]) :
    /\ st.root \in m[r].roots
    /\ \A q \in DOMAIN m :
         st.root \in m[q].nodes \/ RowsOf(m[q]) \cap Reaching(m, st) # {} => st.root \in m[q].roots

\* A node a delete may come to and another file has too is spared by an edge of each
\* plan that leads there (a column by its table).
SharedSpared(m) ==
  \A r, q \in DOMAIN m : m[r].roots \cap m[q].roots = {} =>
    \A st \in DeletesOf(m[r]) : \A n \in m[q].nodes \cap Reach(m, st) :
      \A p \in DOMAIN m : (\E e \in RowsOf(m[p]) \cap Reaching(m, st) : e.to = n) =>
        \E x \in RowsOf(m[p]) : Plain(x) /\ x.type \in st.sparing /\ x.to = n

\* An edge that spares cannot be taken away by another delete.
GuardsStand(m) ==
  \A st, d \in Deletes(m) : \A q \in DOMAIN m : \A x \in RowsOf(m[q]) :
    Plain(x) /\ x.type \in st.sparing =>
      /\ Ends(x) \subseteq m[q].nodes
      /\ x.from \notin Reach(m, d)
      /\ x.to \in Reach(m, d) => x.type \in d.sparing

\* A request has written nothing yet that its deletes may come to.
CleanFirst(m) ==
  \A r \in DOMAIN m : \A k \in DOMAIN m[r].steps : m[r].steps[k].op = "delete" =>
    \A i \in 1..(k - 1) :
      /\ NodesAt(m[r].steps[i]) \cap Reach(m, m[r].steps[k]) = {}
      /\ EdgesAt(m[r].steps[i]) \cap Reaching(m, m[r].steps[k]) = {}

\* What a request replaces it deletes before it writes any of it; only requests for that
\* file write it, the first hop before the second, and nothing spares the first hop.
Replaces(m) ==
  \A r \in DOMAIN m : \A pair \in m[r].owns : \A root \in m[r].roots :
    /\ \E i \in DOMAIN m[r].steps :
         /\ m[r].steps[i].op = "delete" /\ m[r].steps[i].root = root
         /\ <<pair[1]>> \in m[r].steps[i].paths
         /\ \A k \in 1..i : \A e \in EdgesAt(m[r].steps[k]) : ~ Owned(m, root, pair, e)
    /\ \A q \in DOMAIN m : \A i \in DOMAIN m[q].steps : \A e \in EdgesAt(m[q].steps[i]) :
         /\ Owned(m, root, pair, e) => root \in m[q].roots /\ Ends(e) \subseteq m[q].nodes
         /\ Hung(m, root, pair, e) =>
              \E k \in 1..(i - 1) : Edge(root, pair[1], e.from) \in EdgesAt(m[q].steps[k])
    /\ \A st \in Deletes(m) :
         /\ root \in Reach(m, st) => st.root = root /\ <<pair[1]>> \in st.paths
         /\ \A x \in Rows(m) : x.type \in st.sparing =>
              PlainEnd(x.to) /\ x.to \notin Children(m, root, pair)

WellPlanned(m) ==
  /\ DOMAIN m \subseteq Nat
  /\ \A r \in DOMAIN m : Shaped(m[r]) /\ EndsBefore(m[r]) /\ MatchesMeant(m[r])
  /\ PlainPaths(m) /\ Fenced(m) /\ SharedSpared(m) /\ GuardsStand(m) /\ CleanFirst(m)
  /\ Replaces(m)

-----------------------------------------------------------------------------
\* The nodes a file has for itself name it in their id, after a tag of their kind.
BookTags == {"workbook", "datasource", "worksheet", "dashboard", "parameter", "scope", "blend",
             "calculated"}
ScriptTags == {"spark", "dataframe", "attribute"}
Tag(n) == n.id[1]
Homed(n) == Tag(n) \in BookTags \cup ScriptTags
Home(n) ==
  IF Tag(n) \in ScriptTags THEN Node("SparkScript", <<"spark", n.id[2]>>)
                           ELSE Node("TableauWorkbook", <<"workbook", n.id[2]>>)
IsHome(n) == Tag(n) \in {"workbook", "spark"} /\ Home(n) = n

\* The edges that lead from a file's node to what is its own, by the tags of their ends:
\* those a delete follows, and those a request replaces besides.
Hops == {<<"workbook", "CONTAINS_DATASOURCE", "datasource">>,
         <<"workbook", "CONTAINS_WORKSHEET", "worksheet">>,
         <<"workbook", "CONTAINS_DASHBOARD", "dashboard">>,
         <<"workbook", "HAS_PARAMETER", "parameter">>,
         <<"workbook", "HAS_PARAMETER_SCOPE", "scope">>,
         <<"scope", "HAS_PARAMETER", "parameter">>,
         <<"worksheet", "HAS_BLEND", "blend">>,
         <<"datasource", "HAS_FIELD", "column">>,
         <<"datasource", "HAS_FIELD", "calculated">>,
         <<"spark", "CONTAINS_DATAFRAME", "dataframe">>,
         <<"dataframe", "HAS_FIELD", "attribute">>,
         <<"worksheet", "USES_FIELD", "column">>,
         <<"worksheet", "USES_FIELD", "calculated">>,
         <<"dashboard", "DISPLAYS_WORKSHEET", "worksheet">>}
HopTypes == {h[2] : h \in Hops}

\* Of the plan of a file: a node that names its file is of a file the request is about;
NodesHomed(p) == \A n \in p.nodes : Homed(n) => Home(n) \in p.roots
\* an edge of these types is a hop, between two nodes of the file or to a column;
RowsHomed(p) ==
  \A e \in RowsOf(p) : e.type \in HopTypes =>
    /\ Plain(e) /\ Ends(e) \subseteq p.nodes
    /\ <<Tag(e.from), e.type, Tag(e.to)>> \in Hops
    /\ Homed(e.to) => Home(e.to) = Home(e.from)
\* only a table has a column, and a column is a field only if it has a table;
ColumnsHomed(p) ==
  /\ \A e \in RowsOf(p) : e.type = "HAS_COLUMN" =>
       /\ PlainEnd(e.to) /\ Tag(e.to) \in {"column", "attribute"}
       /\ Plain(e) => Ends(e) \subseteq p.nodes /\ Tag(e.from) = "table" /\ Tag(e.to) = "column"
  /\ \A e \in RowsOf(p) : e.type = "HAS_FIELD" /\ Tag(e.to) = "column" =>
       \E x \in RowsOf(p) : Plain(x) /\ x.type = "HAS_COLUMN" /\ x.to = e.to
\* a delete starts from the node of one of its files, and is one the writers send;
Deleting(st) ==
  /\ IsHome(st.root)
  /\ IF Tag(st.root) = "workbook"
     THEN st.paths = BookPaths /\ st.sparing = {"HAS_COLUMN"}
     ELSE \/ st.paths = {<<"CONTAINS_DATAFRAME", "HAS_FIELD">>} /\ st.sparing = {"HAS_COLUMN"}
          \/ st.paths = {<<"CONTAINS_DATAFRAME">>} /\ st.sparing = {}
DeletesHomed(p) == \A st \in DeletesOf(p) : st.root \in p.roots /\ Deleting(st)
\* what is replaced is deleted first;
OwnsHomed(p) ==
  \A pair \in p.owns : pair \in BookOwns \cup ScriptOwns /\ \A root \in p.roots :
    /\ IsHome(root)
    /\ \/ Tag(root) = "workbook" /\ pair \in BookOwns
       \/ Tag(root) = "spark" /\ pair \in ScriptOwns
    /\ \E i \in DOMAIN p.steps :
         p.steps[i].op = "delete" /\ p.steps[i].root = root /\ <<pair[1]>> \in p.steps[i].paths
\* nothing of a file is written before a delete from its node;
FreshFirst(p) ==
  \A k \in DOMAIN p.steps : p.steps[k].op = "delete" => \A i \in 1..(k - 1) :
    /\ \A n \in NodesAt(p.steps[i]) : Tag(n) # "column" /\ (Homed(n) => Home(n) # p.steps[k].root)
    /\ \A e \in EdgesAt(p.steps[i]) : e.type \in HopTypes => Home(e.from) # p.steps[k].root
\* and a second hop of what is replaced comes after the first.
FirstHop == [datasource |-> "CONTAINS_DATASOURCE", worksheet |-> "CONTAINS_WORKSHEET",
             dashboard |-> "CONTAINS_DASHBOARD", dataframe |-> "CONTAINS_DATAFRAME"]
HopsInOrder(p) ==
  \A i \in DOMAIN p.steps : \A e \in EdgesAt(p.steps[i]) :
    e.type \in {"HAS_FIELD", "USES_FIELD", "DISPLAYS_WORKSHEET"} =>
      \E k \in 1..(i - 1) :
        Edge(Home(e.from), FirstHop[Tag(e.from)], e.from) \in EdgesAt(p.steps[k])

FilePlan(p) ==
  /\ Shaped(p) /\ EndsBefore(p) /\ MatchesMeant(p)
  /\ NodesHomed(p) /\ RowsHomed(p) /\ ColumnsHomed(p) /\ DeletesHomed(p) /\ OwnsHomed(p)
  /\ FreshFirst(p) /\ HopsInOrder(p)

-----------------------------------------------------------------------------
\* The types a delete follows, and that a hop it may start with leads to a node of the file.
LEMMA PathsAre ==
  /\ \A t : <<t>> \in BookPaths <=>
       t \in {"CONTAINS_DATASOURCE", "CONTAINS_WORKSHEET", "CONTAINS_DASHBOARD",
              "HAS_PARAMETER", "HAS_PARAMETER_SCOPE"}
  /\ \A t, u : <<t, u>> \in BookPaths <=>
       <<t, u>> \in {<<"CONTAINS_WORKSHEET", "HAS_BLEND">>, <<"CONTAINS_DATASOURCE", "HAS_FIELD">>}
  /\ <<>> \in BookPaths
BY DEF BookPaths

\* The ends of a hop: a node of a file of one kind, and one of the same kind or a column.
LEMMA HopsAre ==
  ASSUME NEW a, NEW t, NEW b, <<a, t, b>> \in Hops
  PROVE  /\ a \in BookTags \cup ScriptTags /\ b \in BookTags \cup ScriptTags \cup {"column"}
         /\ b \notin {"workbook", "spark"}
         /\ a \in ScriptTags <=> b \in {"dataframe", "attribute"}
         /\ t \in HopTypes
         /\ b = "column" => t \in {"HAS_FIELD", "USES_FIELD"}
         /\ t = "CONTAINS_DATASOURCE" => b = "datasource"
         /\ t = "CONTAINS_WORKSHEET" => b = "worksheet"
         /\ t = "CONTAINS_DASHBOARD" => b = "dashboard"
         /\ t = "CONTAINS_DATAFRAME" => b = "dataframe"
<1>1. t \in HopTypes
  BY DEF HopTypes
<1> QED BY <1>1 DEF Hops, BookTags, ScriptTags

\* The edge types that lead from a file's node to what is its own.
LEMMA HopTypesAre ==
  HopTypes = {"CONTAINS_DATASOURCE", "CONTAINS_WORKSHEET", "CONTAINS_DASHBOARD", "HAS_PARAMETER",
              "HAS_PARAMETER_SCOPE", "HAS_BLEND", "HAS_FIELD", "CONTAINS_DATAFRAME", "USES_FIELD",
              "DISPLAYS_WORKSHEET"}
BY DEF HopTypes, Hops

\* Homes are told apart by their tags.
LEMMA HomesAre ==
  ASSUME NEW n, Homed(n)
  PROVE  /\ Tag(Home(n)) = IF Tag(n) \in ScriptTags THEN "spark" ELSE "workbook"
         /\ IsHome(Home(n)) /\ Homed(Home(n))
BY DEF Homed, Home, Tag, IsHome, Node, ScriptTags, BookTags

\* What a row of a plan that leads from a file's node, or on from there, is.
LEMMA HopIs ==
  ASSUME NEW p, RowsHomed(p), NodesHomed(p), NEW e \in RowsOf(p), e.type \in HopTypes
  PROVE  /\ Plain(e) /\ Ends(e) \subseteq p.nodes /\ e.from \in p.nodes /\ e.to \in p.nodes
         /\ Homed(e.from) /\ Home(e.from) \in p.roots
         /\ Homed(e.to) \/ Tag(e.to) = "column"
         /\ Homed(e.to) => Home(e.to) = Home(e.from)
         /\ Tag(e.to) \notin {"workbook", "spark"}
         /\ <<Tag(e.from), e.type, Tag(e.to)>> \in Hops
<1>1. /\ Plain(e) /\ Ends(e) \subseteq p.nodes /\ <<Tag(e.from), e.type, Tag(e.to)>> \in Hops
      /\ Homed(e.to) => Home(e.to) = Home(e.from)
  BY DEF RowsHomed
<1>2. e.from \in p.nodes /\ e.to \in p.nodes
  BY <1>1 DEF Plain, PlainEnd, Ends, Meant
<1>3. Homed(e.from) /\ (Homed(e.to) \/ Tag(e.to) = "column") /\ Tag(e.to) \notin {"workbook", "spark"}
  BY <1>1, HopsAre DEF Homed
<1> QED BY <1>1, <1>2, <1>3 DEF NodesHomed

\* What a delete may come to: what the files' own hops lead to, and columns from a workbook.
LEMMA ReachedIs ==
  ASSUME NEW m, \A r \in DOMAIN m : RowsHomed(m[r]) /\ NodesHomed(m[r]),
         NEW st, Deleting(st), NEW q \in DOMAIN m, NEW e \in RowsOf(m[q]), e \in Reaching(m, st)
  PROVE  /\ e.type \in HopTypes /\ Home(e.from) = st.root /\ st.root \in m[q].roots
         /\ Homed(e.to) => Home(e.to) = st.root
         /\ Homed(e.to) \/ (Tag(e.to) = "column" /\ Tag(st.root) = "workbook" /\ e.type = "HAS_FIELD")
         /\ Tag(e.to) \notin {"workbook", "spark"}
         /\ Tag(st.root) = "spark" => Tag(e.to) \in {"dataframe", "attribute"}
<1>1. /\ \A t : <<t>> \in st.paths => t \in HopTypes \ {"HAS_FIELD", "USES_FIELD"}
      /\ \A t, u : <<t, u>> \in st.paths => t \in HopTypes /\ u \in HopTypes \ {"USES_FIELD"}
  BY PathsAre, HopTypesAre DEF Deleting
<1>2. IsHome(st.root) /\ Tag(st.root) \in {"workbook", "spark"} /\ Home(st.root) = st.root
  BY DEF Deleting, IsHome
<1>3. e.type \in HopTypes \ {"USES_FIELD"} /\ Home(e.from) = st.root
  <2>1. CASE e.from = st.root /\ <<e.type>> \in st.paths
    BY <1>1, <1>2, <2>1
  <2>2. CASE \E d \in Rows(m) : d.from = st.root /\ d.to = e.from /\ <<d.type, e.type>> \in st.paths
    <3>1. PICK p \in DOMAIN m : \E d \in RowsOf(m[p]) :
            d.from = st.root /\ d.to = e.from /\ <<d.type, e.type>> \in st.paths
      BY <2>2 DEF Rows
    <3>2. PICK d \in RowsOf(m[p]) :
            d.from = st.root /\ d.to = e.from /\ <<d.type, e.type>> \in st.paths
      BY <3>1
    <3>3. d.type \in HopTypes /\ e.type \in HopTypes \ {"USES_FIELD"}
      BY <1>1, <3>2
    <3>4. Homed(e.from)
      BY <3>3, HopIs
    <3> QED BY <1>2, <3>2, <3>3, <3>4, HopIs
  <2> QED BY <2>1, <2>2 DEF Reaching
<1>4. /\ Homed(e.from) /\ Home(e.from) \in m[q].roots
      /\ Homed(e.to) \/ Tag(e.to) = "column"
      /\ Homed(e.to) => Home(e.to) = Home(e.from)
      /\ Tag(e.to) \notin {"workbook", "spark"}
      /\ <<Tag(e.from), e.type, Tag(e.to)>> \in Hops
  BY <1>3, HopIs
<1>5. Tag(st.root) = "spark" <=> Tag(e.from) \in ScriptTags
  BY <1>3, <1>4, HomesAre
<1>6. /\ Tag(e.from) \in ScriptTags <=> Tag(e.to) \in {"dataframe", "attribute"}
      /\ Tag(e.to) = "column" => e.type \in {"HAS_FIELD", "USES_FIELD"}
  BY <1>4, HopsAre
<1> QED BY <1>2, <1>3, <1>4, <1>5, <1>6

\* A node a delete may come to.
LEMMA ReachIs ==
  ASSUME NEW m, \A r \in DOMAIN m : RowsHomed(m[r]) /\ NodesHomed(m[r]),
         NEW st, Deleting(st), NEW n \in Reach(m, st)
  PROVE  /\ Homed(n) => Home(n) = st.root
         /\ Homed(n) \/ (Tag(n) = "column" /\ Tag(st.root) = "workbook" /\ n # st.root)
         /\ Tag(n) \in {"workbook", "spark"} => n = st.root /\ Tag(n) = "workbook"
         /\ n = st.root \/ \E e \in Reaching(m, st) : e.to = n
<1>1. IsHome(st.root) /\ Homed(st.root) /\ Tag(st.root) \in {"workbook", "spark"}
  BY DEF Deleting, IsHome, Homed, BookTags, ScriptTags
<1>2. CASE n = st.root /\ <<>> \in st.paths
  <2>1. Tag(st.root) = "workbook"
    BY <1>1, <1>2 DEF Deleting
  <2> QED BY <1>1, <1>2, <2>1 DEF IsHome
<1>3. CASE n \in {e.to : e \in Reaching(m, st)}
  <2>1. PICK e \in Reaching(m, st) : e.to = n
    BY <1>3
  <2>2. PICK q \in DOMAIN m : e \in RowsOf(m[q])
    BY <2>1 DEF Reaching, Rows
  <2>3. /\ Homed(n) => Home(n) = st.root
        /\ Homed(n) \/ (Tag(n) = "column" /\ Tag(st.root) = "workbook")
        /\ Tag(n) \notin {"workbook", "spark"}
    BY <2>1, <2>2, ReachedIs
  <2> QED BY <1>1, <2>1, <2>3
<1> QED BY <1>2, <1>3 DEF Reach

\* What a request owns under a file's node is reached by hops from there.
LEMMA OwnedIs ==
  ASSUME NEW m, \A r \in DOMAIN m : RowsHomed(m[r]) /\ NodesHomed(m[r]) /\ OwnsHomed(m[r]),
         NEW r \in DOMAIN m, NEW pair \in m[r].owns, NEW root \in m[r].roots
  PROVE  /\ IsHome(root) /\ pair \in BookOwns \cup ScriptOwns
         /\ pair[1] \in {"CONTAINS_DATASOURCE", "CONTAINS_WORKSHEET", "CONTAINS_DASHBOARD",
                         "CONTAINS_DATAFRAME"}
         /\ pair[2] \in {"HAS_FIELD", "USES_FIELD", "DISPLAYS_WORKSHEET"}
         /\ Tag(root) = "workbook" => <<pair[1]>> \in BookPaths
         /\ \A n \in Children(m, root, pair) :
              /\ Homed(n) /\ Home(n) = root /\ Tag(n) \in DOMAIN FirstHop
              /\ FirstHop[Tag(n)] = pair[1]
         /\ \A e \in Rows(m) : Owned(m, root, pair, e) => e.type \in HopTypes /\ Home(e.from) = root
<1>1. /\ IsHome(root) /\ pair \in BookOwns \cup ScriptOwns
      /\ Tag(root) = "workbook" => pair \in BookOwns
  BY DEF OwnsHomed
<1>2. /\ pair[1] \in {"CONTAINS_DATASOURCE", "CONTAINS_WORKSHEET", "CONTAINS_DASHBOARD",
                      "CONTAINS_DATAFRAME"}
      /\ pair[2] \in {"HAS_FIELD", "USES_FIELD", "DISPLAYS_WORKSHEET"}
      /\ Tag(root) = "workbook" => pair[1] # "CONTAINS_DATAFRAME"
  BY <1>1 DEF BookOwns, ScriptOwns
<1>3. Tag(root) = "workbook" => <<pair[1]>> \in BookPaths
  BY <1>2, PathsAre
<1>4. pair[1] \in HopTypes /\ pair[2] \in HopTypes
  BY <1>2, HopTypesAre
<1>5. ASSUME NEW n \in Children(m, root, pair)
      PROVE  /\ Homed(n) /\ Home(n) = root /\ Tag(n) \in DOMAIN FirstHop
             /\ FirstHop[Tag(n)] = pair[1]
  <2>1. PICK q \in DOMAIN m : \E e \in RowsOf(m[q]) : e.from = root /\ e.type = pair[1] /\ e.to = n
    BY DEF Children, Rows
  <2>2. PICK e \in RowsOf(m[q]) : e.from = root /\ e.type = pair[1] /\ e.to = n
    BY <2>1
  <2>3. /\ Homed(n) \/ Tag(n) = "column"
        /\ Homed(n) => Home(n) = Home(root)
        /\ <<Tag(e.from), pair[1], Tag(n)>> \in Hops
    BY <1>4, <2>2, HopIs
  <2>4. /\ Tag(n) = "column" => pair[1] \in {"HAS_FIELD", "USES_FIELD"}
        /\ pair[1] = "CONTAINS_DATASOURCE" => Tag(n) = "datasource"
        /\ pair[1] = "CONTAINS_WORKSHEET" => Tag(n) = "worksheet"
        /\ pair[1] = "CONTAINS_DASHBOARD" => Tag(n) = "dashboard"
        /\ pair[1] = "CONTAINS_DATAFRAME" => Tag(n) = "dataframe"
    BY <2>3, HopsAre
  <2>5. Homed(n) /\ Home(n) = root
    BY <1>1, <1>2, <2>3, <2>4 DEF IsHome
  <2>6. Tag(n) \in DOMAIN FirstHop /\ FirstHop[Tag(n)] = pair[1]
    BY <1>2, <2>4 DEF FirstHop
  <2> QED BY <2>5, <2>6
<1>6. ASSUME NEW e \in Rows(m), Owned(m, root, pair, e)
      PROVE  e.type \in HopTypes /\ Home(e.from) = root
  BY <1>1, <1>4, <1>5, <1>6 DEF Owned, Hung, IsHome
<1> QED BY <1>1, <1>2, <1>3, <1>5, <1>6

\* Plans of files make a mix the writers' invariant can rest on.
THEOREM FilesFit ==
  ASSUME NEW m, DOMAIN m \subseteq Nat, \A r \in DOMAIN m : FilePlan(m[r])
  PROVE  WellPlanned(m)
<1>1. \A r \in DOMAIN m :
        /\ Shaped(m[r]) /\ EndsBefore(m[r]) /\ MatchesMeant(m[r])
        /\ NodesHomed(m[r]) /\ RowsHomed(m[r]) /\ ColumnsHomed(m[r]) /\ DeletesHomed(m[r])
        /\ OwnsHomed(m[r]) /\ FreshFirst(m[r]) /\ HopsInOrder(m[r])
  BY DEF FilePlan
<1>2. ASSUME NEW st \in Deletes(m)
      PROVE  /\ Deleting(st) /\ IsHome(st.root) /\ Homed(st.root)
             /\ st.sparing \subseteq {"HAS_COLUMN"}
  BY <1>1 DEF Deletes, DeletesHomed, Deleting, IsHome, Homed, BookTags, ScriptTags
<1>3. PlainPaths(m)
  <2> SUFFICES ASSUME NEW e \in Rows(m), ~ Plain(e)
               PROVE  /\ \A st \in Deletes(m) : \A path \in st.paths : e.type \notin ToSet(path)
                      /\ \A r \in DOMAIN m : \A pair \in m[r].owns : e.type \notin {pair[1], pair[2]}
    BY DEF PlainPaths
  <2>1. e.type \notin HopTypes
    BY <1>1 DEF Rows, RowsHomed
  <2>2. ASSUME NEW st \in Deletes(m), NEW path \in st.paths PROVE e.type \notin ToSet(path)
    <3>1. Deleting(st)
      BY <1>2
    <3>2. path \in BookPaths \cup {<<"CONTAINS_DATAFRAME", "HAS_FIELD">>, <<"CONTAINS_DATAFRAME">>}
      BY <3>1 DEF Deleting
    <3> QED BY <2>1, <3>2, HopTypesAre DEF BookPaths, ToSet
  <2>3. ASSUME NEW r \in DOMAIN m, NEW pair \in m[r].owns PROVE e.type \notin {pair[1], pair[2]}
    <3>1. pair \in BookOwns \cup ScriptOwns
      BY <1>1 DEF OwnsHomed
    <3>2. pair[1] \in HopTypes /\ pair[2] \in HopTypes
      BY <3>1, HopTypesAre DEF BookOwns, ScriptOwns
    <3> QED BY <2>1, <3>2
  <2> QED BY <2>2, <2>3
<1>4. Fenced(m)
  <2> SUFFICES ASSUME NEW r \in DOMAIN m, NEW st \in DeletesOf(m[r])
               PROVE  /\ st.root \in m[r].roots
                      /\ \A q \in DOMAIN m :
                           st.root \in m[q].nodes \/ RowsOf(m[q]) \cap Reaching(m, st) # {}
                             => st.root \in m[q].roots
    BY DEF Fenced
  <2>1. st.root \in m[r].roots
    BY <1>1 DEF DeletesHomed
  <2>2. st \in Deletes(m)
    BY DEF Deletes
  <2>3. ASSUME NEW q \in DOMAIN m, st.root \in m[q].nodes PROVE st.root \in m[q].roots
    BY <1>1, <1>2, <2>2, <2>3 DEF NodesHomed, IsHome
  <2>4. ASSUME NEW q \in DOMAIN m, NEW e \in RowsOf(m[q]), e \in Reaching(m, st)
        PROVE  st.root \in m[q].roots
    BY <1>1, <1>2, <2>2, <2>4, ReachedIs
  <2> QED BY <2>1, <2>3, <2>4
<1>5. SharedSpared(m)
  <2> SUFFICES ASSUME NEW r \in DOMAIN m, NEW q \in DOMAIN m, m[r].roots \cap m[q].roots = {},
                      NEW st \in DeletesOf(m[r]), NEW n \in m[q].nodes, n \in Reach(m, st),
                      NEW p \in DOMAIN m, NEW e \in RowsOf(m[p]), e \in Reaching(m, st), e.to = n
               PROVE  \E x \in RowsOf(m[p]) : Plain(x) /\ x.type \in st.sparing /\ x.to = n
    BY DEF SharedSpared
  <2>1. st \in Deletes(m) /\ st.root \in m[r].roots
    BY <1>1 DEF Deletes, DeletesHomed
  <2>2. ~ Homed(n)
    BY <1>1, <1>2, <2>1, ReachIs DEF NodesHomed
  <2>3. Tag(n) = "column" /\ Tag(st.root) = "workbook" /\ e.type = "HAS_FIELD"
    BY <1>1, <1>2, <2>1, <2>2, ReachedIs
  <2>4. "HAS_COLUMN" \in st.sparing
    BY <1>2, <2>1, <2>3 DEF Deleting
  <2>5. PICK x \in RowsOf(m[p]) : Plain(x) /\ x.type = "HAS_COLUMN" /\ x.to = e.to
    BY <1>1, <2>3 DEF ColumnsHomed
  <2> QED BY <2>4, <2>5
<1>6. GuardsStand(m)
  <2> SUFFICES ASSUME NEW st \in Deletes(m), NEW d \in Deletes(m), NEW q \in DOMAIN m,
                      NEW x \in RowsOf(m[q]), Plain(x), x.type \in st.sparing
               PROVE  /\ Ends(x) \subseteq m[q].nodes
                      /\ x.from \notin Reach(m, d)
                      /\ x.to \in Reach(m, d) => x.type \in d.sparing
    BY DEF GuardsStand
  <2>1. x.type = "HAS_COLUMN"
    BY <1>2
  <2>2. Ends(x) \subseteq m[q].nodes /\ Tag(x.from) = "table" /\ Tag(x.to) = "column"
    BY <1>1, <2>1 DEF ColumnsHomed
  <2>3. ~ Homed(x.from) /\ ~ Homed(x.to)
    BY <2>2 DEF Homed, BookTags, ScriptTags
  <2>4. x.from \notin Reach(m, d)
    BY <1>1, <1>2, <2>2, <2>3, ReachIs
  <2>5. ASSUME x.to \in Reach(m, d) PROVE x.type \in d.sparing
    BY <1>1, <1>2, <2>1, <2>3, <2>5, ReachIs DEF Deleting
  <2> QED BY <2>2, <2>4, <2>5
<1>7. CleanFirst(m)
  <2> SUFFICES ASSUME NEW r \in DOMAIN m, NEW k \in DOMAIN m[r].steps,
                      m[r].steps[k].op = "delete", NEW i \in 1..(k - 1)
               PROVE  /\ NodesAt(m[r].steps[i]) \cap Reach(m, m[r].steps[k]) = {}
                      /\ EdgesAt(m[r].steps[i]) \cap Reaching(m, m[r].steps[k]) = {}
    BY DEF CleanFirst
  <2> DEFINE st == m[r].steps[k]
  <2>1. Shaped(m[r]) /\ FreshFirst(m[r])
    BY <1>1
  <2>2. i \in DOMAIN m[r].steps
    BY <2>1 DEF Shaped
  <2>3. st \in Deletes(m)
    BY DEF Deletes, DeletesOf
  <2>4. Deleting(st)
    BY <1>2, <2>3
  <2>5. ASSUME NEW n \in NodesAt(m[r].steps[i]) PROVE n \notin Reach(m, st)
    <3>1. Tag(n) # "column" /\ (Homed(n) => Home(n) # st.root)
      BY <2>1 DEF FreshFirst
    <3> HIDE DEF st
    <3> QED BY <1>1, <2>4, <3>1, ReachIs
  <2>6. ASSUME NEW e \in EdgesAt(m[r].steps[i]) PROVE e \notin Reaching(m, st)
    <3>1. e.type \in HopTypes => Home(e.from) # st.root
      BY <2>1 DEF FreshFirst
    <3>2. e \in RowsOf(m[r])
      BY <2>2 DEF RowsOf
    <3> HIDE DEF st
    <3> QED BY <1>1, <2>4, <3>1, <3>2, ReachedIs
  <2> QED BY <2>5, <2>6
<1>8. Replaces(m)
  <2> SUFFICES ASSUME NEW r \in DOMAIN m, NEW pair \in m[r].owns, NEW root \in m[r].roots
               PROVE  /\ \E i \in DOMAIN m[r].steps :
                           /\ m[r].steps[i].op = "delete" /\ m[r].steps[i].root = root
                           /\ <<pair[1]>> \in m[r].steps[i].paths
                           /\ \A k \in 1..i : \A e \in EdgesAt(m[r].steps[k]) :
                                ~ Owned(m, root, pair, e)
                      /\ \A q \in DOMAIN m : \A i \in DOMAIN m[q].steps :
                           \A e \in EdgesAt(m[q].steps[i]) :
                             /\ Owned(m, root, pair, e) =>
                                  root \in m[q].roots /\ Ends(e) \subseteq m[q].nodes
                             /\ Hung(m, root, pair, e) =>
                                  \E k \in 1..(i - 1) :
                                    Edge(root, pair[1], e.from) \in EdgesAt(m[q].steps[k])
                      /\ \A st \in Deletes(m) :
                           /\ root \in Reach(m, st) => st.root = root /\ <<pair[1]>> \in st.paths
                           /\ \A x \in Rows(m) : x.type \in st.sparing =>
                                PlainEnd(x.to) /\ x.to \notin Children(m, root, pair)
    BY DEF Replaces
  <2>1. /\ IsHome(root) /\ pair \in BookOwns \cup ScriptOwns
        /\ pair[2] \in {"HAS_FIELD", "USES_FIELD", "DISPLAYS_WORKSHEET"}
        /\ Tag(root) = "workbook" => <<pair[1]>> \in BookPaths
        /\ \A n \in Children(m, root, pair) :
             /\ Homed(n) /\ Home(n) = root /\ Tag(n) \in DOMAIN FirstHop
             /\ FirstHop[Tag(n)] = pair[1]
        /\ \A e \in Rows(m) : Owned(m, root, pair, e) => e.type \in HopTypes /\ Home(e.from) = root
    BY <1>1, OwnedIs
  <2>2. PICK i \in DOMAIN m[r].steps :
          /\ m[r].steps[i].op = "delete" /\ m[r].steps[i].root = root
          /\ <<pair[1]>> \in m[r].steps[i].paths
    BY <1>1 DEF OwnsHomed
  <2>3. ASSUME NEW k \in 1..i, NEW e \in EdgesAt(m[r].steps[k]) PROVE ~ Owned(m, root, pair, e)
    <3>1. Shaped(m[r]) /\ FreshFirst(m[r])
      BY <1>1
    <3>2. k # i /\ k \in 1..(i - 1) /\ k \in DOMAIN m[r].steps
      BY <2>2, <2>3, <3>1 DEF EdgesAt, Shaped
    <3>3. e.type \in HopTypes => Home(e.from) # root
      BY <2>2, <2>3, <3>1, <3>2 DEF FreshFirst
    <3>4. e \in Rows(m)
      BY <2>3, <3>2 DEF Rows, RowsOf
    <3> QED BY <2>1, <3>3, <3>4
  <2>4. ASSUME NEW q \in DOMAIN m, NEW j \in DOMAIN m[q].steps, NEW e \in EdgesAt(m[q].steps[j])
        PROVE  /\ Owned(m, root, pair, e) => root \in m[q].roots /\ Ends(e) \subseteq m[q].nodes
               /\ Hung(m, root, pair, e) =>
                    \E k \in 1..(j - 1) : Edge(root, pair[1], e.from) \in EdgesAt(m[q].steps[k])
    <3>1. e \in RowsOf(m[q]) /\ e \in Rows(m)
      BY <2>4 DEF Rows, RowsOf
    <3>2. ASSUME Owned(m, root, pair, e) PROVE root \in m[q].roots /\ Ends(e) \subseteq m[q].nodes
      BY <1>1, <2>1, <3>1, <3>2, HopIs
    <3>3. ASSUME Hung(m, root, pair, e)
          PROVE  \E k \in 1..(j - 1) : Edge(root, pair[1], e.from) \in EdgesAt(m[q].steps[k])
      BY <1>1, <2>1, <2>4, <3>3 DEF Hung, HopsInOrder
    <3> QED BY <3>2, <3>3
  <2>5. ASSUME NEW st \in Deletes(m), root \in Reach(m, st)
        PROVE  st.root = root /\ <<pair[1]>> \in st.paths
    BY <1>1, <1>2, <2>1, <2>5, ReachIs DEF Deleting, IsHome
  <2>6. ASSUME NEW st \in Deletes(m), NEW x \in Rows(m), x.type \in st.sparing
        PROVE  PlainEnd(x.to) /\ x.to \notin Children(m, root, pair)
    <3>1. x.type = "HAS_COLUMN"
      BY <1>2, <2>6
    <3>2. PlainEnd(x.to) /\ Tag(x.to) \in {"column", "attribute"}
      BY <1>1, <3>1 DEF Rows, ColumnsHomed
    <3>3. Tag(x.to) \notin DOMAIN FirstHop
      BY <3>2 DEF FirstHop
    <3> QED BY <2>1, <3>2, <3>3
  <2> QED BY <2>2, <2>3, <2>4, <2>5, <2>6
<1> QED BY <1>1, <1>3, <1>4, <1>5, <1>6, <1>7, <1>8 DEF WellPlanned

-----------------------------------------------------------------------------
\* Sequences.
LEMMA SequenceIs ==
  ASSUME NEW s, IsSeq(s)
  PROVE  Len(s) \in Nat /\ DOMAIN s = 1..Len(s) /\ \A i \in DOMAIN s : s[i] \in ToSet(s)
BY DEF IsSeq, ToSet

\* A sequence over a set is one over what is in it.
LEMMA SequencesAre ==
  ASSUME NEW S, NEW s \in Seq(S)
  PROVE  IsSeq(s) /\ ToSet(s) \subseteq S
<1>1. Len(s) \in Nat /\ DOMAIN s = 1..Len(s) /\ \A i \in 1..Len(s) : s[i] \in S
  OBVIOUS
<1>2. \A i \in 1..Len(s) : s[i] \in ToSet(s)
  BY <1>1 DEF ToSet
<1>3. s \in Seq(ToSet(s))
  BY <1>1, <1>2
<1> QED BY <1>1, <1>3 DEF IsSeq, ToSet

Joined(a, b, c) ==
  /\ IsSeq(c) /\ Len(c) = Len(a) + Len(b) /\ DOMAIN c = 1..(Len(a) + Len(b))
  /\ \A i \in DOMAIN a : c[i] = a[i]
  /\ \A j \in DOMAIN b : \A i : i = Len(a) + j => c[i] = b[j]
  /\ \A i \in DOMAIN c : i \in DOMAIN a \/ \E j \in DOMAIN b : i = Len(a) + j
  /\ ToSet(c) = ToSet(a) \cup ToSet(b)

\* Two sequences one after the other.
LEMMA JoinIs ==
  ASSUME NEW a, IsSeq(a), NEW b, IsSeq(b)
  PROVE  Joined(a, b, a \o b)
<1> SUFFICES ASSUME NEW c, c = a \o b PROVE Joined(a, b, c)
  OBVIOUS
<1> DEFINE S == ToSet(a) \cup ToSet(b)
<1>1. /\ Len(a) \in Nat /\ DOMAIN a = 1..Len(a) /\ \A i \in DOMAIN a : a[i] \in S
      /\ Len(b) \in Nat /\ DOMAIN b = 1..Len(b) /\ \A i \in DOMAIN b : b[i] \in S
  BY SequenceIs
<1>2. a \in Seq(S) /\ b \in Seq(S)
  BY <1>1 DEF IsSeq
<1> HIDE DEF S
<1>3. /\ c \in Seq(S) /\ Len(c) = Len(a) + Len(b)
      /\ DOMAIN c = 1..(Len(a) + Len(b))
      /\ \A i \in 1..Len(a) : c[i] = a[i]
      /\ \A i \in (Len(a) + 1)..(Len(a) + Len(b)) : c[i] = b[i - Len(a)]
  <2>1. /\ a \o b \in Seq(S) /\ Len(a \o b) = Len(a) + Len(b)
        /\ DOMAIN (a \o b) = 1..(Len(a) + Len(b))
        /\ \A i \in 1..Len(a) : (a \o b)[i] = a[i]
        /\ \A i \in (Len(a) + 1)..(Len(a) + Len(b)) : (a \o b)[i] = b[i - Len(a)]
    BY <1>1, <1>2
  <2> QED BY <2>1
<1>4. IsSeq(c)
  BY <1>3, SequencesAre
<1>5. \A j \in DOMAIN b : \A i : i = Len(a) + j => c[i] = b[j]
  <2> TAKE j \in DOMAIN b
  <2>1. Len(a) + j \in (Len(a) + 1)..(Len(a) + Len(b)) /\ (Len(a) + j) - Len(a) = j
    BY <1>1
  <2> QED BY <1>3, <2>1
<1>6. \A i \in DOMAIN c : i \in DOMAIN a \/ \E j \in DOMAIN b : i = Len(a) + j
  <2> TAKE i \in DOMAIN c
  <2>1. CASE i > Len(a)
    <3>1. i - Len(a) \in DOMAIN b /\ i = Len(a) + (i - Len(a))
      BY <1>1, <1>3, <2>1
    <3> QED BY <3>1
  <2> QED BY <1>1, <1>3, <2>1
<1>7. ToSet(c) = ToSet(a) \cup ToSet(b)
  <2>1. \A i \in DOMAIN a : i \in DOMAIN c
    BY <1>1, <1>3
  <2>2. \A j \in DOMAIN b : Len(a) + j \in DOMAIN c
    BY <1>1, <1>3
  <2>3. ASSUME NEW x \in ToSet(c) PROVE x \in ToSet(a) \cup ToSet(b)
    <3>1. PICK i \in DOMAIN c : x = c[i]
      BY DEF ToSet
    <3> QED BY <1>1, <1>3, <1>5, <1>6, <3>1 DEF ToSet
  <2>4. ASSUME NEW x \in ToSet(a) PROVE x \in ToSet(c)
    BY <1>1, <1>3, <2>1 DEF ToSet
  <2>5. ASSUME NEW x \in ToSet(b) PROVE x \in ToSet(c)
    BY <1>5, <2>2 DEF ToSet
  <2> QED BY <2>3, <2>4, <2>5
<1> QED BY <1>1, <1>3, <1>4, <1>5, <1>6, <1>7 DEF Joined

\* Induction over the numbers up to n, on a set of them.
LEMMA UpTo ==
  ASSUME NEW n \in Nat, NEW S, 0 \in S, \A i \in 0..(n - 1) : i \in S => i + 1 \in S
  PROVE  0..n \subseteq S
<1> DEFINE Out == (0..n) \ S
<1>1. Out \subseteq Nat
  OBVIOUS
<1>2. SUFFICES ASSUME Out # {} PROVE FALSE
  OBVIOUS
<1>3. PICK d \in Out : \A e \in Out : <<e, d>> \notin OpToRel(<, Nat)
  BY <1>1, <1>2, NatLessThanWellFounded, WFMin
<1>4. d \in Nat /\ d # 0 /\ d - 1 \in 0..(n - 1) /\ d - 1 \in Nat /\ d - 1 < d
  OBVIOUS
<1>5. d - 1 \notin Out
  BY <1>3, <1>4 DEF OpToRel
<1> QED BY <1>4, <1>5

\* A sequence of sequences one after the other: where each begins.
LEMMA FlattenIs ==
  ASSUME NEW ss, IsSeq(ss), \A k \in DOMAIN ss : IsSeq(ss[k])
  PROVE  /\ IsSeq(FlattenSeq(ss))
         /\ \E from \in [DOMAIN ss -> Nat] :
              /\ \A k \in DOMAIN ss : \A j \in DOMAIN ss[k] :
                   from[k] + j \in DOMAIN FlattenSeq(ss) /\ FlattenSeq(ss)[from[k] + j] = ss[k][j]
              /\ \A i \in DOMAIN FlattenSeq(ss) :
                   \E k \in DOMAIN ss : \E j \in DOMAIN ss[k] : i = from[k] + j
              /\ \A l, k \in DOMAIN ss : l < k => from[l] + Len(ss[l]) <= from[k]
<1> DEFINE N == Len(ss)
           Rec(n, f) == f = [i \in 1..n |-> IF i = 1 THEN ss[i] ELSE f[i - 1] \o ss[i]]
<1>1. N \in Nat /\ DOMAIN ss = 1..N
  BY SequenceIs
<1>2. CASE N = 0
  <2>1. FlattenSeq(ss) = ss /\ DOMAIN ss = {}
    BY <1>1, <1>2 DEF FlattenSeq
  <2>2. [k \in DOMAIN ss |-> 0] \in [DOMAIN ss -> Nat]
    OBVIOUS
  <2> QED BY <2>1, <2>2
<1>3. CASE N # 0
  <2> DEFINE S == {n \in 0..N : \E f : Rec(n, f)}
  <2>1. 0..N \subseteq S
    <3>1. 0 \in S
      <4>1. Rec(0, [i \in 1..0 |-> 0])
        OBVIOUS
      <4> HIDE DEF Rec
      <4> QED BY <1>1, <4>1
    <3>2. ASSUME NEW n \in 0..(N - 1), n \in S PROVE n + 1 \in S
      <4>1. PICK f : Rec(n, f)
        BY <3>2
      <4> DEFINE g == [i \in 1..(n + 1) |->
                         IF i = n + 1 THEN (IF i = 1 THEN ss[i] ELSE f[n] \o ss[i]) ELSE f[i]]
      <4>2. \A i \in 1..n : f[i] = IF i = 1 THEN ss[i] ELSE f[i - 1] \o ss[i]
        BY <4>1
      <4>3. ASSUME NEW i \in 1..(n + 1)
            PROVE g[i] = IF i = 1 THEN ss[i] ELSE g[i - 1] \o ss[i]
        <5>1. CASE i = n + 1
          BY <1>1, <5>1
        <5>2. CASE i # n + 1
          <6>1. i \in 1..n /\ g[i] = f[i] /\ (i # 1 => i - 1 \in 1..(n + 1) /\ i - 1 # n + 1)
            BY <1>1, <5>2
          <6>2. i # 1 => g[i - 1] = f[i - 1]
            BY <6>1
          <6> QED BY <4>2, <6>1, <6>2
        <5> QED BY <5>1, <5>2
      <4>4. Rec(n + 1, g)
        <5>1. g = [i \in 1..(n + 1) |-> g[i]]
          OBVIOUS
        <5> HIDE DEF g
        <5> QED BY <4>3, <5>1
      <4>5. n + 1 \in 0..N
        BY <1>1
      <4> HIDE DEF Rec, g
      <4> QED BY <4>4, <4>5
    <3> HIDE DEF S
    <3> QED BY <1>1, <3>1, <3>2, UpTo
  <2>2. N \in S
    <3>1. N \in 0..N
      BY <1>1
    <3> HIDE DEF S
    <3> QED BY <2>1, <3>1
  <2> DEFINE fl == CHOOSE f : Rec(N, f)
  <2>3. Rec(N, fl)
    <3> HIDE DEF Rec
    <3> QED BY <2>2
  <2>4. FlattenSeq(ss) = fl[N]
    BY <1>3 DEF FlattenSeq
  <2>5. \A i \in 1..N : fl[i] = IF i = 1 THEN ss[i] ELSE fl[i - 1] \o ss[i]
    <3> HIDE DEF fl
    <3> QED BY <2>3
  <2> HIDE DEF fl, Rec, S
  <2> DEFINE from == [k \in 1..N |-> IF k = 1 THEN 0 ELSE Len(fl[k - 1])]
             Placed(n) ==
               /\ IsSeq(fl[n]) /\ from[n] + Len(ss[n]) = Len(fl[n])
               /\ \A k \in 1..n : \A j \in DOMAIN ss[k] :
                    from[k] + j \in DOMAIN fl[n] /\ fl[n][from[k] + j] = ss[k][j]
               /\ \A i \in DOMAIN fl[n] : \E k \in 1..n : \E j \in DOMAIN ss[k] : i = from[k] + j
               /\ \A k \in 1..n : from[k] \in Nat /\ from[k] + Len(ss[k]) <= Len(fl[n])
               /\ \A l, k \in 1..n : l < k => from[l] + Len(ss[l]) <= from[k]
             T == {n \in 0..N : n = 0 \/ Placed(n)}
  <2>6. \A k \in 1..N : IsSeq(ss[k]) /\ Len(ss[k]) \in Nat /\ DOMAIN ss[k] = 1..Len(ss[k])
    BY <1>1, SequenceIs
  <2>7. 0..N \subseteq T
    <3>1. ASSUME NEW n \in 0..(N - 1), n \in T PROVE n + 1 \in T
      <4>0. n + 1 \in 1..N /\ n \in Nat /\ n + 1 \in 0..N
        BY <1>1
      <4>1. CASE n = 0
        <5>1. fl[1] = ss[1] /\ from[1] = 0 /\ 1 \in 1..N
          BY <2>5, <4>0, <4>1
        <5> HIDE DEF from
        <5>2. IsSeq(fl[1]) /\ from[1] + Len(ss[1]) = Len(fl[1])
          BY <2>6, <5>1
        <5>3. \A k \in 1..1 : \A j \in DOMAIN ss[k] :
                from[k] + j \in DOMAIN fl[1] /\ fl[1][from[k] + j] = ss[k][j]
          BY <2>6, <5>1
        <5>4. \A i \in DOMAIN fl[1] : \E k \in 1..1 : \E j \in DOMAIN ss[k] : i = from[k] + j
          BY <2>6, <5>1
        <5>5. Placed(1)
          BY <2>6, <5>1, <5>2, <5>3, <5>4
        <5> HIDE DEF Placed
        <5> QED BY <4>0, <4>1, <5>5
      <4>2. CASE n # 0
        <5>1. Placed(n) /\ n \in 1..N
          <6>1. n \in 1..N
            BY <1>1, <4>2
          <6> HIDE DEF Placed
          <6> QED BY <3>1, <4>2, <6>1
        <5>2. fl[n + 1] = fl[n] \o ss[n + 1] /\ from[n + 1] = Len(fl[n])
          <6>1. n + 1 # 1 /\ (n + 1) - 1 = n
            BY <4>0, <4>2
          <6>2. from[n + 1] = Len(fl[n])
            BY <4>0, <6>1
          <6> HIDE DEF from
          <6> QED BY <2>5, <4>0, <6>1, <6>2
        <5> HIDE DEF from
        <5> DEFINE a == fl[n]
                   b == ss[n + 1]
                   c == fl[n + 1]
        <5>3. IsSeq(a) /\ IsSeq(b)
          BY <1>1, <2>6, <4>0, <5>1
        <5> HIDE DEF Placed
        <5>4. Joined(a, b, c)
          BY <5>2, <5>3, JoinIs
        <5>5. Len(a) \in Nat /\ Len(b) \in Nat /\ DOMAIN a = 1..Len(a) /\ DOMAIN b = 1..Len(b)
          BY <5>3, SequenceIs
        <5>6. c = a \o b /\ from[n + 1] = Len(a)
          BY <5>2
        <5>7. \A k \in 1..(n + 1) : \A j \in DOMAIN ss[k] :
                from[k] + j \in DOMAIN c /\ c[from[k] + j] = ss[k][j]
          <6> SUFFICES ASSUME NEW k \in 1..(n + 1), NEW j \in DOMAIN ss[k]
                       PROVE  from[k] + j \in DOMAIN c /\ c[from[k] + j] = ss[k][j]
            OBVIOUS
          <6>1. CASE k = n + 1
            <7>1. j \in DOMAIN b /\ from[k] + j = Len(a) + j /\ b[j] = ss[k][j]
              BY <5>6, <6>1
            <7>2. Len(a) + j \in 1..(Len(a) + Len(b))
              <8> HIDE DEF a, b, c
              <8> QED BY <5>5, <7>1
            <7> QED BY <5>4, <7>1, <7>2 DEF Joined
          <6>2. CASE k # n + 1
            <7>1. k \in 1..n
              BY <4>0, <6>2
            <7>2. from[k] + j \in DOMAIN a /\ a[from[k] + j] = ss[k][j]
              BY <5>1, <7>1 DEF Placed
            <7>3. from[k] + j \in 1..(Len(a) + Len(b))
              <8> HIDE DEF a, b, c
              <8> QED BY <5>5, <7>2
            <7> QED BY <5>4, <7>2, <7>3 DEF Joined
          <6> QED BY <6>1, <6>2
        <5>8. \A i \in DOMAIN c : \E k \in 1..(n + 1) : \E j \in DOMAIN ss[k] : i = from[k] + j
          <6> SUFFICES ASSUME NEW i \in DOMAIN c
                       PROVE  \E k \in 1..(n + 1) : \E j \in DOMAIN ss[k] : i = from[k] + j
            OBVIOUS
          <6>1. CASE i \in DOMAIN a
            <7>1. PICK k \in 1..n : \E j \in DOMAIN ss[k] : i = from[k] + j
              BY <5>1, <6>1 DEF Placed
            <7>2. k \in 1..(n + 1)
              BY <4>0
            <7> QED BY <7>1, <7>2
          <6>2. CASE i \notin DOMAIN a
            <7>1. PICK j \in DOMAIN b : i = Len(a) + j
              BY <5>4, <6>2 DEF Joined
            <7>2. n + 1 \in 1..(n + 1)
              BY <4>0
            <7> QED BY <5>6, <7>1, <7>2
          <6> QED BY <6>1, <6>2
        <5>9. \A k \in 1..(n + 1) : k \in 1..n \/ k = n + 1
          BY <4>0
        <5>10. \A k \in 1..n : from[k] \in Nat /\ from[k] + Len(ss[k]) <= Len(a)
          BY <5>1 DEF Placed
        <5>11. /\ IsSeq(fl[n + 1]) /\ from[n + 1] + Len(ss[n + 1]) = Len(fl[n + 1])
               /\ \A k \in 1..(n + 1) : from[k] \in Nat /\ from[k] + Len(ss[k]) <= Len(fl[n + 1])
          <6>1. Len(fl[n + 1]) = Len(a) + Len(b) /\ IsSeq(fl[n + 1])
            BY <5>4, <5>6 DEF Joined
          <6>2. \A k \in 1..n : k \in 1..N
            BY <1>1
          <6>3. ASSUME NEW k \in 1..(n + 1)
                PROVE  from[k] \in Nat /\ from[k] + Len(ss[k]) <= Len(a) + Len(b)
            <7>1. CASE k \in 1..n
              <8>1. from[k] \in Nat /\ from[k] + Len(ss[k]) <= Len(a) /\ Len(ss[k]) \in Nat
                BY <2>6, <5>10, <6>2, <7>1
              <8> HIDE DEF a, b, c
              <8> QED BY <5>5, <8>1
            <7>2. CASE k = n + 1
              <8>1. from[k] = Len(a) /\ ss[k] = b
                BY <5>6, <7>2
              <8> HIDE DEF a, b, c
              <8> QED BY <5>5, <8>1
            <7> QED BY <5>9, <7>1, <7>2
          <6> QED BY <5>6, <6>1, <6>3
        <5>12. \A l, k \in 1..(n + 1) : l < k => from[l] + Len(ss[l]) <= from[k]
          <6> SUFFICES ASSUME NEW l \in 1..(n + 1), NEW k \in 1..(n + 1), l < k
                       PROVE  from[l] + Len(ss[l]) <= from[k]
            OBVIOUS
          <6>1. l \in 1..n
            BY <4>0
          <6>2. CASE k \in 1..n
            BY <5>1, <6>1, <6>2 DEF Placed
          <6>3. CASE k = n + 1
            BY <5>6, <5>10, <6>1, <6>3
          <6> QED BY <5>9, <6>2, <6>3
        <5>13. Placed(n + 1)
          <6> HIDE DEF a, b
          <6> QED BY <5>6, <5>7, <5>8, <5>11, <5>12 DEF Placed
        <5> QED BY <4>0, <5>13
      <4> QED BY <4>1, <4>2
    <3>2. 0 \in T
      BY <1>1
    <3> HIDE DEF T
    <3> QED BY <1>1, <3>1, <3>2, UpTo
  <2>8. N \in T
    <3>1. N \in 0..N
      BY <1>1
    <3> HIDE DEF T
    <3> QED BY <2>7, <3>1
  <2>9. Placed(N)
    <3> HIDE DEF Placed
    <3> QED BY <1>3, <2>8
  <2>10. from \in [DOMAIN ss -> Nat]
    <3>1. \A k \in 1..N : from[k] \in Nat
      <4> HIDE DEF from
      <4> QED BY <2>9
    <3>2. from = [k \in 1..N |-> from[k]]
      OBVIOUS
    <3> HIDE DEF from
    <3> QED BY <1>1, <3>1, <3>2
  <2> HIDE DEF from
  <2>11. IsSeq(fl[N]) /\ \A k \in 1..N : Len(ss[k]) \in Nat
    BY <2>6, <2>9
  <2> DEFINE all == fl[N]
  <2>12. /\ \A k \in DOMAIN ss : \A j \in DOMAIN ss[k] :
             from[k] + j \in DOMAIN all /\ all[from[k] + j] = ss[k][j]
         /\ \A i \in DOMAIN all : \E k \in DOMAIN ss : \E j \in DOMAIN ss[k] : i = from[k] + j
         /\ \A l, k \in DOMAIN ss : l < k => from[l] + Len(ss[l]) <= from[k]
    <3> HIDE DEF N
    <3> QED BY <1>1, <2>9
  <2>13. IsSeq(all) /\ FlattenSeq(ss) = all
    BY <2>4, <2>11
  <2> HIDE DEF all, N, Placed
  <2> QED BY <2>10, <2>12, <2>13
<1> QED BY <1>2, <1>3

-----------------------------------------------------------------------------
\* What a plan of a file is put together from: sequences of statements, each fit to come
\* after what is already done.

\* What a statement leaves: nodes, tables with their ids, edges.
Things(st) ==
  {<<"node", n>> : n \in NodesAt(st)} \cup {<<"id", x>> : x \in IdsAt(st)}
    \cup {<<"edge", e>> : e \in EdgesAt(st)}
Done(s) == UNION {Things(st) : st \in ToSet(s)}
Earlier(s, i) == UNION {Things(s[k]) : k \in 1..(i - 1)}

SecondTypes == {"HAS_FIELD", "USES_FIELD", "DISPLAYS_WORKSHEET"}

\* The things known when a row is sent have its ends, of the nodes the plan has (all of them
\* when the row is a hop, or a table's column), the table it matches by id, and the first hop.
Ready(nodes, known, e) ==
  /\ \A n \in Ends(e) :
       n \in nodes \/ e.type \in HopTypes \/ (e.type = "HAS_COLUMN" /\ Plain(e))
         => <<"node", n>> \in known
  /\ \A end \in {e.from, e.to} : ~ PlainEnd(end) /\ end.by = "id"
       => <<"id", [table |-> end.meant, id |-> end.key]>> \in known
  /\ e.type \in SecondTypes
       => <<"edge", Edge(Home(e.from), FirstHop[Tag(e.from)], e.from)>> \in known

\* A row, and a statement, of a plan for the files with the nodes in roots.
MeantEnd(end) ==
  PlainEnd(end) \/ CASE end.by = "id" -> end.meant.label = "Table"
                     [] end.by = "name" ->
                          Tag(end.meant) = "none"
                            \/ (end.meant.label = "QlikTable" /\ end.meant.id[4] = end.key)
                     [] OTHER -> Tag(end.meant) = "unknown"
AptRow(roots, e) ==
  /\ e = Edge(e.from, e.type, e.to) /\ MeantEnd(e.from) /\ MeantEnd(e.to)
  /\ e.type = "INHERITS_FROM" => Tag(Meant(e.to)) = "unknown"
  /\ e.type = "HAS_COLUMN" =>
       /\ PlainEnd(e.to) /\ Tag(e.to) \in {"column", "attribute"}
       /\ Plain(e) => Tag(e.from) = "table" /\ Tag(e.to) = "column"
  /\ e.type \in HopTypes =>
       /\ Plain(e) /\ <<Tag(e.from), e.type, Tag(e.to)>> \in Hops
       /\ Home(e.from) \in roots /\ (Homed(e.to) => Home(e.to) = Home(e.from))
AptNode(roots, n) ==
  /\ Tag(n) \notin {"none", "unknown"}
  /\ Homed(n) => Home(n) \in roots
  /\ Tag(n) = "column" => \E root \in roots : Tag(root) = "workbook"
Apt(roots, st) ==
  /\ ShapedStep(st)
  /\ \A n \in NodesAt(st) : AptNode(roots, n)
  /\ \A e \in EdgesAt(st) : AptRow(roots, e)
  /\ st.op = "delete" => st.root \in roots /\ Deleting(st)

Ordered(nodes, known, s) ==
  \A i \in DOMAIN s : \A e \in EdgesAt(s[i]) : Ready(nodes, known \cup Earlier(s, i), e)

\* A delete needs leave to start from its node.
Allowed(known, st) == st.op = "delete" => <<"delete", st.root>> \in known

Fit(nodes, known, roots, s) ==
  /\ IsSeq(s) /\ \A st \in ToSet(s) : Apt(roots, st) /\ Allowed(known, st)
  /\ Ordered(nodes, known, s)

\* A row that can be sent still can when more is there.
LEMMA ReadyMore ==
  ASSUME NEW nodes, NEW known, NEW e, Ready(nodes, known, e), NEW more, known \subseteq more
  PROVE  Ready(nodes, more, e)
BY DEF Ready

\* Statements that are fit still are when more is there, for a request about more files.
LEMMA FitMore ==
  ASSUME NEW nodes, NEW known, NEW roots, NEW s, Fit(nodes, known, roots, s),
         NEW more, known \subseteq more, NEW files, roots \subseteq files
  PROVE  Fit(nodes, more, files, s)
<1>1. IsSeq(s)
  BY DEF Fit
<1>2. \A st \in ToSet(s) : Apt(files, st) /\ Allowed(more, st)
  <2> SUFFICES ASSUME NEW st \in ToSet(s) PROVE Apt(files, st) /\ Allowed(more, st)
    OBVIOUS
  <2>1. Apt(roots, st) /\ Allowed(known, st)
    BY DEF Fit
  <2>2. Allowed(more, st)
    BY <2>1 DEF Allowed
  <2> QED BY <2>1, <2>2 DEF Apt, AptRow, AptNode
<1>3. Ordered(nodes, more, s)
  <2> SUFFICES ASSUME NEW i \in DOMAIN s, NEW e \in EdgesAt(s[i])
               PROVE  Ready(nodes, more \cup Earlier(s, i), e)
    BY DEF Ordered
  <2>1. Ready(nodes, known \cup Earlier(s, i), e)
    BY DEF Fit, Ordered
  <2>2. known \cup Earlier(s, i) \subseteq more \cup Earlier(s, i)
    OBVIOUS
  <2> QED BY <2>1, <2>2, ReadyMore
<1> QED BY <1>1, <1>2, <1>3 DEF Fit

\* No statements are fit, and leave nothing.
LEMMA FitNone ==
  ASSUME NEW nodes, NEW known, NEW roots
  PROVE  Fit(nodes, known, roots, <<>>) /\ Done(<<>>) = {}
<1>1. ToSet(<<>>) = {}
  BY DEF ToSet
<1> QED BY <1>1 DEF Fit, Done, Ordered, IsSeq

\* One statement that is apt, allowed and ready is fit.
LEMMA FitOne ==
  ASSUME NEW nodes, NEW known, NEW roots, NEW st, Apt(roots, st), Allowed(known, st),
         \A e \in EdgesAt(st) : Ready(nodes, known, e)
  PROVE  Fit(nodes, known, roots, <<st>>) /\ Done(<<st>>) = Things(st)
<1> DEFINE s == <<st>>
<1>1. DOMAIN s = {1} /\ s[1] = st /\ s \in Seq({st})
  OBVIOUS
<1> HIDE DEF s
<1>2. ToSet(s) = {st}
  BY <1>1 DEF ToSet
<1>3. Earlier(s, 1) = {}
  BY DEF Earlier
<1>4. Fit(nodes, known, roots, s)
  <2>1. Ordered(nodes, known, s)
    BY <1>1, <1>3 DEF Ordered
  <2> QED BY <1>1, <1>2, <2>1 DEF Fit, IsSeq
<1>5. Done(s) = Things(st)
  BY <1>2 DEF Done
<1> QED BY <1>4, <1>5 DEF s

\* What is done gives no leave to delete.
LEMMA DoneNoLeave ==
  ASSUME NEW s, NEW root
  PROVE  <<"delete", root>> \notin Done(s)
BY DEF Done, Things

\* Two sequences of statements leave what each leaves.
LEMMA DoneJoin ==
  ASSUME NEW a, IsSeq(a), NEW b, IsSeq(b)
  PROVE  Done(a \o b) = Done(a) \cup Done(b)
<1>1. ToSet(a \o b) = ToSet(a) \cup ToSet(b)
  BY JoinIs DEF Joined
<1> QED BY <1>1 DEF Done

\* Statements that are fit after others, one after the other.
LEMMA FitJoin ==
  ASSUME NEW nodes, NEW known, NEW roots, NEW a, Fit(nodes, known, roots, a),
         NEW b, Fit(nodes, known \cup Done(a), roots, b)
  PROVE  Fit(nodes, known, roots, a \o b)
<1> SUFFICES ASSUME NEW c, c = a \o b
             PROVE  Fit(nodes, known, roots, c)
  OBVIOUS
<1>1. IsSeq(a) /\ IsSeq(b)
  BY DEF Fit
<1>2. Joined(a, b, c)
  BY <1>1, JoinIs
<1>3. ToSet(c) = ToSet(a) \cup ToSet(b) /\ IsSeq(c)
  BY <1>2 DEF Joined
<1>4. /\ Len(a) \in Nat /\ DOMAIN a = 1..Len(a) /\ Len(b) \in Nat /\ DOMAIN b = 1..Len(b)
      /\ Len(c) \in Nat /\ DOMAIN c = 1..Len(c) /\ Len(c) = Len(a) + Len(b)
  BY <1>1, <1>2, <1>3, SequenceIs DEF Joined
<1>5. Ordered(nodes, known, c)
  <2> SUFFICES ASSUME NEW i \in DOMAIN c, NEW e \in EdgesAt(c[i])
               PROVE  Ready(nodes, known \cup Earlier(c, i), e)
    BY DEF Ordered
  <2>1. CASE i \in DOMAIN a
    <3>1. c[i] = a[i]
      BY <1>2, <2>1 DEF Joined
    <3>2. Ready(nodes, known \cup Earlier(a, i), e)
      BY <2>1, <3>1 DEF Fit, Ordered
    <3>3. \A k \in 1..(i - 1) : k \in DOMAIN a /\ c[k] = a[k]
      BY <1>2, <1>4, <2>1 DEF Joined
    <3>4. Earlier(a, i) \subseteq Earlier(c, i)
      BY <3>3 DEF Earlier
    <3> QED BY <3>2, <3>4, ReadyMore
  <2>2. CASE i \notin DOMAIN a
    <3>1. PICK j \in DOMAIN b : i = Len(a) + j
      BY <1>2, <2>2 DEF Joined
    <3>2. c[i] = b[j]
      BY <1>2, <3>1 DEF Joined
    <3>3. Ready(nodes, (known \cup Done(a)) \cup Earlier(b, j), e)
      BY <3>2 DEF Fit, Ordered
    <3>4. Done(a) \subseteq Earlier(c, i)
      <4>1. \A k \in DOMAIN a : k \in 1..(i - 1) /\ c[k] = a[k]
        BY <1>2, <1>4, <3>1 DEF Joined
      <4> QED BY <4>1 DEF Earlier, Done, ToSet
    <3>5. Earlier(b, j) \subseteq Earlier(c, i)
      <4>1. ASSUME NEW k \in 1..(j - 1) PROVE \E l \in 1..(i - 1) : c[l] = b[k]
        <5>1. k \in DOMAIN b /\ Len(a) + k \in 1..(i - 1)
          BY <1>4, <3>1
        <5> QED BY <1>2, <5>1 DEF Joined
      <4> QED BY <4>1 DEF Earlier
    <3>6. (known \cup Done(a)) \cup Earlier(b, j) \subseteq known \cup Earlier(c, i)
      BY <3>4, <3>5
    <3> QED BY <3>3, <3>6, ReadyMore
  <2> QED BY <2>1, <2>2
<1>6. ASSUME NEW st \in ToSet(c) PROVE Apt(roots, st) /\ Allowed(known, st)
  <2>1. Apt(roots, st) /\ (Allowed(known, st) \/ Allowed(known \cup Done(a), st))
    BY <1>3 DEF Fit
  <2> QED BY <2>1, DoneNoLeave DEF Allowed
<1> QED BY <1>3, <1>5, <1>6 DEF Fit

\* The items of a flattened sequence are those of its parts.
LEMMA FlattenedAre ==
  ASSUME NEW ss, IsSeq(ss), \A k \in DOMAIN ss : IsSeq(ss[k])
  PROVE  ToSet(FlattenSeq(ss)) = UNION {ToSet(ss[k]) : k \in DOMAIN ss}
<1> SUFFICES ASSUME NEW c, c = FlattenSeq(ss) PROVE ToSet(c) = UNION {ToSet(ss[k]) : k \in DOMAIN ss}
  OBVIOUS
<1>1. PICK from \in [DOMAIN ss -> Nat] :
        /\ \A k \in DOMAIN ss : \A j \in DOMAIN ss[k] :
             from[k] + j \in DOMAIN c /\ c[from[k] + j] = ss[k][j]
        /\ \A i \in DOMAIN c : \E k \in DOMAIN ss : \E j \in DOMAIN ss[k] : i = from[k] + j
  BY FlattenIs
<1>2. ASSUME NEW st \in ToSet(c) PROVE \E k \in DOMAIN ss : st \in ToSet(ss[k])
  <2>1. PICK i \in DOMAIN c : st = c[i]
    BY DEF ToSet
  <2>2. PICK k \in DOMAIN ss : \E j \in DOMAIN ss[k] : i = from[k] + j
    BY <1>1
  <2>3. PICK j \in DOMAIN ss[k] : i = from[k] + j
    BY <2>2
  <2> QED BY <1>1, <2>1, <2>3 DEF ToSet
<1>3. ASSUME NEW k \in DOMAIN ss, NEW st \in ToSet(ss[k]) PROVE st \in ToSet(c)
  <2>1. PICK j \in DOMAIN ss[k] : st = ss[k][j]
    BY DEF ToSet
  <2> QED BY <1>1, <2>1 DEF ToSet
<1> QED BY <1>2, <1>3

\* A flattened sequence leaves what its parts leave.
LEMMA DoneFlatten ==
  ASSUME NEW ss, IsSeq(ss), \A k \in DOMAIN ss : IsSeq(ss[k])
  PROVE  \A x : x \in Done(FlattenSeq(ss)) <=> \E k \in DOMAIN ss : x \in Done(ss[k])
BY FlattenedAre DEF Done

\* Parts that each are fit after the ones before are fit one after the other.
LEMMA FitFlatten ==
  ASSUME NEW nodes, NEW known, NEW roots, NEW ss, IsSeq(ss),
         \A k \in DOMAIN ss :
           Fit(nodes, known \cup UNION {Done(ss[l]) : l \in 1..(k - 1)}, roots, ss[k])
  PROVE  Fit(nodes, known, roots, FlattenSeq(ss))
<1> SUFFICES ASSUME NEW c, c = FlattenSeq(ss)
             PROVE  Fit(nodes, known, roots, c)
  OBVIOUS
<1>1. \A k \in DOMAIN ss : IsSeq(ss[k])
  BY DEF Fit
<1>2. IsSeq(c)
  BY <1>1, FlattenIs
<1>3. PICK from \in [DOMAIN ss -> Nat] :
        /\ \A k \in DOMAIN ss : \A j \in DOMAIN ss[k] :
             from[k] + j \in DOMAIN c /\ c[from[k] + j] = ss[k][j]
        /\ \A i \in DOMAIN c : \E k \in DOMAIN ss : \E j \in DOMAIN ss[k] : i = from[k] + j
        /\ \A l, k \in DOMAIN ss : l < k => from[l] + Len(ss[l]) <= from[k]
  BY <1>1, FlattenIs
<1>4. /\ Len(ss) \in Nat /\ DOMAIN ss = 1..Len(ss) /\ Len(c) \in Nat /\ DOMAIN c = 1..Len(c)
      /\ \A k \in DOMAIN ss : Len(ss[k]) \in Nat /\ DOMAIN ss[k] = 1..Len(ss[k])
  BY <1>1, <1>2, SequenceIs
<1>5. ToSet(c) = UNION {ToSet(ss[k]) : k \in DOMAIN ss}
  BY <1>1, FlattenedAre
<1>6. Ordered(nodes, known, c)
  <2> SUFFICES ASSUME NEW i \in DOMAIN c, NEW e \in EdgesAt(c[i])
               PROVE  Ready(nodes, known \cup Earlier(c, i), e)
    BY DEF Ordered
  <2>0. PICK k \in DOMAIN ss : \E j \in DOMAIN ss[k] : i = from[k] + j
    BY <1>3
  <2>1. PICK j \in DOMAIN ss[k] : i = from[k] + j
    BY <2>0
  <2> DEFINE before == UNION {Done(ss[l]) : l \in 1..(k - 1)}
  <2>2. Ready(nodes, (known \cup before) \cup Earlier(ss[k], j), e)
    <3>1. Fit(nodes, known \cup before, roots, ss[k])
      OBVIOUS
    <3>2. c[i] = ss[k][j]
      BY <1>3, <2>1
    <3> HIDE DEF before
    <3> QED BY <3>1, <3>2 DEF Fit, Ordered
  <2>3. before \subseteq Earlier(c, i)
    <3>1. ASSUME NEW l \in 1..(k - 1), NEW h \in DOMAIN ss[l] PROVE \E q \in 1..(i - 1) : c[q] = ss[l][h]
      <4>1. l \in DOMAIN ss /\ l < k
        BY <1>4
      <4>2. from[l] \in Nat /\ from[k] \in Nat /\ from[l] + Len(ss[l]) <= from[k] /\ h <= Len(ss[l])
            /\ h \in Nat /\ h >= 1 /\ Len(ss[l]) \in Nat /\ j \in Nat /\ j >= 1
        <5>1. from[l] \in Nat /\ from[k] \in Nat
          BY <4>1
        <5>2. l \in Nat /\ k \in Nat
          BY <1>4
        <5>3. from[l] + Len(ss[l]) <= from[k]
          BY <1>3, <4>1
        <5>4. DOMAIN ss[l] = 1..Len(ss[l]) /\ Len(ss[l]) \in Nat
          BY <1>4, <4>1
        <5>5. j \in 1..Len(ss[k]) /\ Len(ss[k]) \in Nat
          BY <1>4
        <5>6. j \in Nat /\ j >= 1
          BY <5>5
        <5>7. h \in Nat /\ h >= 1 /\ h <= Len(ss[l])
          BY <5>4
        <5> QED BY <5>1, <5>3, <5>4, <5>6, <5>7
      <4>3. from[l] + h \in 1..(i - 1)
        BY <2>1, <4>2
      <4> QED BY <1>3, <4>1, <4>3
    <3> QED BY <3>1 DEF Earlier, Done, ToSet
  <2>4. Earlier(ss[k], j) \subseteq Earlier(c, i)
    <3>1. ASSUME NEW h \in 1..(j - 1) PROVE \E q \in 1..(i - 1) : c[q] = ss[k][h]
      <4>1. h \in DOMAIN ss[k] /\ from[k] \in Nat /\ j \in Nat
        <5>1. from[k] \in Nat
          OBVIOUS
        <5>2. DOMAIN ss[k] = 1..Len(ss[k]) /\ Len(ss[k]) \in Nat
          BY <1>4
        <5>3. j \in 1..Len(ss[k])
          BY <5>2
        <5> QED BY <5>1, <5>2, <5>3
      <4>2. from[k] + h \in 1..(i - 1)
        BY <2>1, <4>1
      <4> QED BY <1>3, <4>1, <4>2
    <3> QED BY <3>1 DEF Earlier
  <2>5. (known \cup before) \cup Earlier(ss[k], j) \subseteq known \cup Earlier(c, i)
    BY <2>3, <2>4
  <2> HIDE DEF before
  <2> QED BY <2>2, <2>5, ReadyMore
<1>7. ASSUME NEW st \in ToSet(c) PROVE Apt(roots, st) /\ Allowed(known, st)
  <2>1. PICK k \in DOMAIN ss : st \in ToSet(ss[k])
    BY <1>5
  <2> DEFINE before == UNION {Done(ss[l]) : l \in 1..(k - 1)}
  <2>2. \A root : <<"delete", root>> \notin before
    BY DoneNoLeave
  <2>3. Apt(roots, st) /\ Allowed(known \cup before, st)
    <3>1. Fit(nodes, known \cup before, roots, ss[k])
      OBVIOUS
    <3> HIDE DEF before
    <3> QED BY <2>1, <3>1 DEF Fit
  <2> HIDE DEF before
  <2> QED BY <2>2, <2>3 DEF Allowed
<1> QED BY <1>2, <1>6, <1>7 DEF Fit

\* Every column that is a field is also a table's.
FieldsHaveTables(p) ==
  \A e \in RowsOf(p) : e.type = "HAS_FIELD" /\ Tag(e.to) = "column" =>
    \E x \in RowsOf(p) : Plain(x) /\ x.type = "HAS_COLUMN" /\ x.to = e.to

\* Statements that are fit make the plan of a file.
LEMMA FitPlan ==
  ASSUME NEW roots, NEW steps, NEW resume, NEW owns, NEW p, p = Plan(roots, steps, resume, owns),
         Fit(p.nodes, {<<"delete", root>> : root \in roots}, roots, steps), FreshFirst(p), OwnsHomed(p), FieldsHaveTables(p)
  PROVE  FilePlan(p)
<1>1. /\ p.roots = roots /\ p.steps = steps /\ p.tables = TablesOf(steps)
      /\ p.nodes = WrittenBy(steps)
      /\ p = Plan(p.roots, p.steps, p.resume, p.owns)
  BY DEF Plan
<1>2. /\ IsSeq(steps) /\ Len(steps) \in Nat /\ DOMAIN steps = 1..Len(steps)
      /\ \A i \in DOMAIN steps : Apt(roots, steps[i])
  BY SequenceIs DEF Fit
<1>3. /\ p.nodes = UNION {NodesAt(steps[i]) : i \in DOMAIN steps}
      /\ p.tables = UNION {IdsAt(steps[i]) : i \in DOMAIN steps}
  <2>1. ASSUME NEW n \in p.nodes PROVE \E i \in DOMAIN steps : n \in NodesAt(steps[i])
    <3>1. CASE n \in NodesOf(steps)
      BY <3>1 DEF NodesOf, NodesAt
    <3>2. CASE n \in {x.table : x \in TablesOf(steps)}
      BY <3>2 DEF TablesOf, NodesAt
    <3> QED BY <1>1, <3>1, <3>2 DEF WrittenBy
  <2>2. ASSUME NEW i \in DOMAIN steps, NEW n \in NodesAt(steps[i]) PROVE n \in p.nodes
    <3>1. CASE steps[i].op = "nodes"
      BY <1>1, <3>1 DEF WrittenBy, NodesOf, NodesAt
    <3>2. CASE steps[i].op # "nodes"
      <4>1. steps[i].op = "tables" /\ n \in {x.table : x \in steps[i].rows}
        BY <3>2 DEF NodesAt
      <4> QED BY <1>1, <4>1 DEF WrittenBy, TablesOf
    <3> QED BY <3>1, <3>2
  <2>3. p.tables = UNION {IdsAt(steps[i]) : i \in DOMAIN steps}
    BY <1>1 DEF TablesOf, IdsAt
  <2> QED BY <2>1, <2>2, <2>3
<1>4. ASSUME NEW i \in DOMAIN steps, NEW e \in EdgesAt(steps[i])
      PROVE  AptRow(roots, e) /\ Ready(p.nodes, Earlier(steps, i), e)
  <2> DEFINE leave == {<<"delete", root>> : root \in roots}
  <2>1. \A x : <<"node", x>> \notin leave /\ <<"id", x>> \notin leave /\ <<"edge", x>> \notin leave
    OBVIOUS
  <2>2. Ready(p.nodes, leave \cup Earlier(steps, i), e)
    <3> HIDE DEF leave
    <3>1. Fit(p.nodes, leave, roots, steps)
      BY DEF leave
    <3> QED BY <3>1 DEF Fit, Ordered
  <2> HIDE DEF leave
  <2>3. Ready(p.nodes, Earlier(steps, i), e)
    BY <2>1, <2>2 DEF Ready
  <2> QED BY <1>2, <2>3 DEF Apt
<1>5. ASSUME NEW i \in DOMAIN steps, NEW n, <<"node", n>> \in Earlier(steps, i)
      PROVE  (\E k \in 1..(i - 1) : n \in NodesAt(steps[k])) /\ n \in p.nodes
  <2>1. PICK k \in 1..(i - 1) : <<"node", n>> \in Things(steps[k])
    BY <1>5 DEF Earlier
  <2>2. n \in NodesAt(steps[k])
    BY <2>1 DEF Things
  <2>3. k \in DOMAIN steps
    BY <1>2
  <2> QED BY <1>3, <2>2, <2>3
<1>6. \A e \in RowsOf(p) : \E i \in DOMAIN steps : e \in EdgesAt(steps[i])
  BY <1>1 DEF RowsOf
<1>7. Shaped(p)
  BY <1>1, <1>2 DEF Shaped, IsSeq, Apt
<1>8. EndsBefore(p)
  <2> SUFFICES ASSUME NEW i \in DOMAIN steps, NEW e \in EdgesAt(steps[i]), NEW n \in Ends(e) \cap p.nodes
               PROVE  \E k \in 1..(i - 1) : n \in NodesAt(steps[k])
    BY <1>1 DEF EndsBefore
  <2>1. <<"node", n>> \in Earlier(steps, i)
    BY <1>4 DEF Ready
  <2> QED BY <1>5, <2>1
<1>9. \A n \in p.nodes : AptNode(roots, n)
  BY <1>2, <1>3 DEF Apt
<1>10. MatchesMeant(p)
  <2> SUFFICES ASSUME NEW e \in RowsOf(p), Ends(e) \subseteq p.nodes
               PROVE  /\ e.type = "INHERITS_FROM" => Meant(e.to) # e.from
                      /\ \A end \in {e.from, e.to} : ~ PlainEnd(end) =>
                           CASE end.by = "id" ->
                                  /\ end.meant.label = "Table"
                                  /\ \E x \in p.tables : x.table = end.meant /\ x.id = end.key
                             [] end.by = "name" ->
                                  end.meant.label = "QlikTable" /\ end.meant.id[4] = end.key
                             [] OTHER -> end.meant.label = "QlikScript" /\ end.meant.id[3] = end.key
    BY DEF MatchesMeant
  <2>1. PICK i \in DOMAIN steps : e \in EdgesAt(steps[i])
    BY <1>6
  <2>2. AptRow(roots, e) /\ Ready(p.nodes, Earlier(steps, i), e)
    BY <1>4, <2>1
  <2>3. Tag(Meant(e.from)) \notin {"none", "unknown"} /\ Tag(Meant(e.to)) \notin {"none", "unknown"}
    BY <1>9 DEF AptNode, Ends
  <2>4. e.type # "INHERITS_FROM"
    BY <2>2, <2>3 DEF AptRow
  <2>5. ASSUME NEW end \in {e.from, e.to}, ~ PlainEnd(end)
        PROVE  CASE end.by = "id" ->
                      /\ end.meant.label = "Table"
                      /\ \E x \in p.tables : x.table = end.meant /\ x.id = end.key
                 [] end.by = "name" -> end.meant.label = "QlikTable" /\ end.meant.id[4] = end.key
                 [] OTHER -> end.meant.label = "QlikScript" /\ end.meant.id[3] = end.key
    <3>1. MeantEnd(end)
      BY <2>2 DEF AptRow
    <3>2. Tag(end.meant) \notin {"none", "unknown"}
      BY <2>3, <2>5 DEF Meant, PlainEnd
    <3>3. CASE end.by = "id"
      <4>1. end.meant.label = "Table"
        BY <2>5, <3>1, <3>3 DEF MeantEnd
      <4> DEFINE x == [table |-> end.meant, id |-> end.key]
      <4>2. <<"id", x>> \in Earlier(steps, i)
        BY <2>2, <2>5, <3>3 DEF Ready
      <4>3. PICK k \in 1..(i - 1) : <<"id", x>> \in Things(steps[k])
        BY <4>2 DEF Earlier
      <4>4. x \in IdsAt(steps[k]) /\ k \in DOMAIN steps
        BY <1>2, <4>3 DEF Things
      <4>5. x \in p.tables
        BY <1>3, <4>4
      <4> QED BY <3>3, <4>1, <4>5
    <3>4. CASE end.by = "name"
      BY <2>5, <3>1, <3>2, <3>4 DEF MeantEnd
    <3>5. CASE end.by \notin {"id", "name"}
      BY <2>5, <3>1, <3>2, <3>5 DEF MeantEnd
    <3> QED BY <3>3, <3>4, <3>5
  <2> QED BY <2>4, <2>5
<1>11. NodesHomed(p)
  BY <1>1, <1>9 DEF NodesHomed, AptNode
<1>12. RowsHomed(p)
  <2> SUFFICES ASSUME NEW e \in RowsOf(p), e.type \in HopTypes
               PROVE  /\ Plain(e) /\ Ends(e) \subseteq p.nodes
                      /\ <<Tag(e.from), e.type, Tag(e.to)>> \in Hops
                      /\ Homed(e.to) => Home(e.to) = Home(e.from)
    BY DEF RowsHomed
  <2>1. PICK i \in DOMAIN steps : e \in EdgesAt(steps[i])
    BY <1>6
  <2>2. \A n \in Ends(e) : <<"node", n>> \in Earlier(steps, i)
    BY <1>4, <2>1 DEF Ready
  <2>3. Ends(e) \subseteq p.nodes
    BY <1>5, <2>2
  <2> QED BY <1>4, <2>1, <2>3 DEF AptRow
<1>13. ColumnsHomed(p)
  <2> SUFFICES ASSUME NEW e \in RowsOf(p), e.type = "HAS_COLUMN"
               PROVE  /\ PlainEnd(e.to) /\ Tag(e.to) \in {"column", "attribute"}
                      /\ Plain(e) =>
                           Ends(e) \subseteq p.nodes /\ Tag(e.from) = "table" /\ Tag(e.to) = "column"
    BY DEF ColumnsHomed, FieldsHaveTables
  <2>1. PICK i \in DOMAIN steps : e \in EdgesAt(steps[i])
    BY <1>6
  <2>2. Plain(e) => \A n \in Ends(e) : <<"node", n>> \in Earlier(steps, i)
    BY <1>4, <2>1 DEF Ready
  <2>3. Plain(e) => Ends(e) \subseteq p.nodes
    BY <1>5, <2>2
  <2> QED BY <1>4, <2>1, <2>3 DEF AptRow
<1>14. DeletesHomed(p)
  BY <1>1, <1>2 DEF DeletesHomed, DeletesOf, Apt
<1>15. HopsInOrder(p)
  <2> SUFFICES ASSUME NEW i \in DOMAIN steps, NEW e \in EdgesAt(steps[i]),
                      e.type \in {"HAS_FIELD", "USES_FIELD", "DISPLAYS_WORKSHEET"}
               PROVE  \E k \in 1..(i - 1) :
                        Edge(Home(e.from), FirstHop[Tag(e.from)], e.from) \in EdgesAt(steps[k])
    BY <1>1 DEF HopsInOrder
  <2> DEFINE up == Edge(Home(e.from), FirstHop[Tag(e.from)], e.from)
  <2>1. <<"edge", up>> \in Earlier(steps, i)
    BY <1>4 DEF Ready, SecondTypes
  <2> HIDE DEF up
  <2>2. PICK k \in 1..(i - 1) : <<"edge", up>> \in Things(steps[k])
    BY <2>1 DEF Earlier
  <2>3. up \in EdgesAt(steps[k])
    BY <2>2 DEF Things
  <2> QED BY <2>3 DEF up
<1> QED
  BY <1>7, <1>8, <1>10, <1>11, <1>12, <1>13, <1>14, <1>15 DEF FilePlan

-----------------------------------------------------------------------------
\* Single statements.
LEMMA TwoIs ==
  ASSUME NEW x, NEW y
  PROVE  <<x, y>> = <<x>> \o <<y>>
<1> DEFINE a == <<x>>
           b == <<y>>
           c == <<x, y>>
<1>1. /\ a \in Seq({x, y}) /\ Len(a) = 1 /\ a[1] = x
      /\ b \in Seq({x, y}) /\ Len(b) = 1 /\ b[1] = y
      /\ c \in Seq({x, y}) /\ Len(c) = 2 /\ c[1] = x /\ c[2] = y
  OBVIOUS
<1> HIDE DEF a, b, c
<1>2. Joined(a, b, a \o b)
  BY <1>1, SequencesAre, JoinIs
<1>3. c = a \o b
  <2> SUFFICES ASSUME NEW d, Joined(a, b, d) PROVE c = d
    BY <1>2
  <2>1. IsSeq(d) /\ Len(d) = 2 /\ d[1] = x /\ d[2] = y
    BY <1>1 DEF Joined
  <2>2. d \in Seq(ToSet(d))
    BY <2>1 DEF IsSeq
  <2> QED BY <1>1, <2>1, <2>2
<1> QED BY <1>3 DEF a, b, c

\* A statement that merges one node, one table or one edge.
LEMMA FitNode ==
  ASSUME NEW nodes, NEW known, NEW roots, NEW n, AptNode(roots, n), n.label # "Table"
  PROVE  /\ Fit(nodes, known, roots, <<OneNode(n)>>)
         /\ Done(<<OneNode(n)>>) = {<<"node", n>>}
<1> SUFFICES ASSUME NEW st, st = OneNode(n)
             PROVE  Fit(nodes, known, roots, <<st>>) /\ Done(<<st>>) = {<<"node", n>>}
  OBVIOUS
<1>1. st.op = "nodes" /\ st.rows = {n}
  BY DEF OneNode, NodeRows
<1>2. NodesAt(st) = {n} /\ IdsAt(st) = {} /\ EdgesAt(st) = {}
  BY <1>1 DEF NodesAt, IdsAt, EdgesAt
<1>3. Apt(roots, st) /\ Allowed(known, st)
  BY <1>1, <1>2 DEF Apt, Allowed, ShapedStep
<1>4. Things(st) = {<<"node", n>>}
  BY <1>2 DEF Things
<1> QED BY <1>2, <1>3, <1>4, FitOne

\* MERGE of one table with its id.
LEMMA FitTable ==
  ASSUME NEW nodes, NEW known, NEW roots, NEW t, AptNode(roots, t), t.label = "Table", NEW id
  PROVE  /\ Fit(nodes, known, roots, <<OneTable(t, id)>>)
         /\ Done(<<OneTable(t, id)>>) = {<<"node", t>>, <<"id", [table |-> t, id |-> id]>>}
<1> DEFINE x == [table |-> t, id |-> id]
<1> SUFFICES ASSUME NEW st, st = OneTable(t, id)
             PROVE  Fit(nodes, known, roots, <<st>>) /\ Done(<<st>>) = {<<"node", t>>, <<"id", x>>}
  OBVIOUS
<1>1. st.op = "tables" /\ st.rows = {x} /\ x.table = t
  BY DEF OneTable, TableRows
<1> HIDE DEF x
<1>2. NodesAt(st) = {t} /\ IdsAt(st) = {x} /\ EdgesAt(st) = {}
  BY <1>1 DEF NodesAt, IdsAt, EdgesAt
<1>3. Apt(roots, st) /\ Allowed(known, st)
  BY <1>1, <1>2 DEF Apt, Allowed, ShapedStep
<1>4. Things(st) = {<<"node", t>>, <<"id", x>>}
  BY <1>2 DEF Things
<1> QED BY <1>2, <1>3, <1>4, FitOne

\* One edge row on its own.
LEMMA FitRow ==
  ASSUME NEW nodes, NEW known, NEW roots, NEW e, AptRow(roots, e), Ready(nodes, known, e)
  PROVE  Fit(nodes, known, roots, <<EdgeRows({e})>>) /\ Done(<<EdgeRows({e})>>) = {<<"edge", e>>}
<1> SUFFICES ASSUME NEW st, st = EdgeRows({e})
             PROVE  Fit(nodes, known, roots, <<st>>) /\ Done(<<st>>) = {<<"edge", e>>}
  OBVIOUS
<1>1. st.op = "edges" /\ st.rows = {e}
  BY DEF EdgeRows
<1>2. NodesAt(st) = {} /\ IdsAt(st) = {} /\ EdgesAt(st) = {e}
  BY <1>1 DEF NodesAt, IdsAt, EdgesAt
<1>3. e = Edge(e.from, e.type, e.to)
  BY DEF AptRow
<1>4. Apt(roots, st) /\ Allowed(known, st)
  BY <1>1, <1>2, <1>3 DEF Apt, Allowed, ShapedStep
<1>5. Things(st) = {<<"edge", e>>}
  BY <1>2 DEF Things
<1> QED BY <1>2, <1>4, <1>5, FitOne

\* One edge on its own.
LEMMA FitEdge ==
  ASSUME NEW nodes, NEW known, NEW roots, NEW from, NEW type, NEW to,
         AptRow(roots, Edge(from, type, to)), Ready(nodes, known, Edge(from, type, to))
  PROVE  /\ Fit(nodes, known, roots, <<OneEdge(from, type, to)>>)
         /\ Done(<<OneEdge(from, type, to)>>) = {<<"edge", Edge(from, type, to)>>}
BY FitRow DEF OneEdge

\* A node and an edge at it.
LEMMA FitNodeEdge ==
  ASSUME NEW nodes, NEW known, NEW roots, NEW n, AptNode(roots, n), n.label # "Table",
         NEW from, NEW type, NEW to, AptRow(roots, Edge(from, type, to)),
         Ready(nodes, known \cup {<<"node", n>>}, Edge(from, type, to))
  PROVE  /\ Fit(nodes, known, roots, <<OneNode(n), OneEdge(from, type, to)>>)
         /\ Done(<<OneNode(n), OneEdge(from, type, to)>>)
              = {<<"node", n>>, <<"edge", Edge(from, type, to)>>}
<1> DEFINE a == <<OneNode(n)>>
           b == <<OneEdge(from, type, to)>>
<1>1. Fit(nodes, known, roots, a) /\ Done(a) = {<<"node", n>>}
  BY FitNode
<1>2. Fit(nodes, known \cup {<<"node", n>>}, roots, b) /\ Done(b) = {<<"edge", Edge(from, type, to)>>}
  BY FitEdge
<1>3. <<OneNode(n), OneEdge(from, type, to)>> = a \o b
  BY TwoIs
<1> HIDE DEF a, b
<1>4. Fit(nodes, known \cup Done(a), roots, b)
  BY <1>1, <1>2
<1>5. Fit(nodes, known, roots, a \o b)
  BY <1>1, <1>4, FitJoin
<1>6. Done(a \o b) = Done(a) \cup Done(b)
  BY <1>1, <1>4, DoneJoin DEF Fit
<1> QED BY <1>1, <1>2, <1>3, <1>5, <1>6

\* The steps of every item of a sequence, none of which needs those of another.
LEMMA FitAll ==
  ASSUME NEW nodes, NEW known, NEW roots, NEW ss, IsSeq(ss),
         \A k \in DOMAIN ss : Fit(nodes, known, roots, ss[k])
  PROVE  Fit(nodes, known, roots, FlattenSeq(ss))
<1>1. ASSUME NEW k \in DOMAIN ss
      PROVE  Fit(nodes, known \cup UNION {Done(ss[l]) : l \in 1..(k - 1)}, roots, ss[k])
  <2>1. Fit(nodes, known, roots, ss[k])
    OBVIOUS
  <2>2. known \subseteq known \cup UNION {Done(ss[l]) : l \in 1..(k - 1)}
    OBVIOUS
  <2>3. roots \subseteq roots
    OBVIOUS
  <2> QED BY <2>1, <2>2, <2>3, FitMore
<1> QED BY <1>1, FitFlatten

\* A row of a type no delete follows, and a node of the file's or of no file's.
Link(type) == type \notin HopTypes \cup {"HAS_COLUMN", "INHERITS_FROM"}
Writable(roots, n) == AptNode(roots, n) /\ n.label \notin {"Table", "?"}

\* A row of a type no delete follows can be sent once its ends, and the id it matches, are there.
LEMMA LinkIs ==
  ASSUME NEW roots, NEW from, NEW to, MeantEnd(from), MeantEnd(to), NEW type,
         Link(type)
  PROVE  /\ AptRow(roots, Edge(from, type, to))
         /\ \A nodes, known :
              /\ \A n \in {Meant(from), Meant(to)} \cap nodes : <<"node", n>> \in known
              /\ \A end \in {from, to} : ~ PlainEnd(end) /\ end.by = "id" =>
                   <<"id", [table |-> end.meant, id |-> end.key]>> \in known
              => Ready(nodes, known, Edge(from, type, to))
<1> DEFINE e == Edge(from, type, to)
<1>1. e.from = from /\ e.type = type /\ e.to = to /\ e = Edge(e.from, e.type, e.to)
  BY DEF Edge
<1>2. type \notin SecondTypes
  BY HopTypesAre DEF SecondTypes, Link
<1> HIDE DEF e
<1>3. AptRow(roots, e)
  BY <1>1 DEF AptRow, Link
<1>4. ASSUME NEW nodes, NEW known,
             \A n \in {Meant(from), Meant(to)} \cap nodes : <<"node", n>> \in known,
             \A end \in {from, to} : ~ PlainEnd(end) /\ end.by = "id" =>
               <<"id", [table |-> end.meant, id |-> end.key]>> \in known
      PROVE  Ready(nodes, known, e)
  BY <1>1, <1>2, <1>4 DEF Ready, Ends, Link
<1> QED BY <1>3, <1>4 DEF e

\* The same between two nodes matched by their own keys.
LEMMA PlainLinkIs ==
  ASSUME NEW roots, NEW from, NEW to, PlainEnd(from), PlainEnd(to), NEW type, Link(type)
  PROVE  /\ AptRow(roots, Edge(from, type, to))
         /\ \A nodes, known : (\A n \in {from, to} \cap nodes : <<"node", n>> \in known)
              => Ready(nodes, known, Edge(from, type, to))
<1>1. Meant(from) = from /\ Meant(to) = to
  BY DEF PlainEnd, Meant
<1>2. MeantEnd(from) /\ MeantEnd(to)
  BY DEF MeantEnd
<1> QED BY <1>1, <1>2, LinkIs

\* A node with a tag that no file's own nodes have is written by any request.
LEMMA ForeignIs ==
  ASSUME NEW label, NEW id, label \notin {"Table", "?"},
         id[1] \notin BookTags \cup ScriptTags \cup {"none", "unknown", "column"}
  PROVE  /\ \A roots : Writable(roots, Node(label, id))
         /\ PlainEnd(Node(label, id))
<1>1. Node(label, id).label = label /\ Tag(Node(label, id)) = id[1]
  BY DEF Node, Tag
<1> QED BY <1>1 DEF Writable, AptNode, Homed, PlainEnd

\* The steps of every item, by the sequence of them.
Over(ss, items) == ss = [i \in DOMAIN items |-> ss[i]]

\* The statements of every item, each item's fit on its own.
LEMMA EachFits ==
  ASSUME NEW nodes, NEW known, NEW roots, NEW items, IsSeq(items), NEW ss,
         Over(ss, items),
         \A i \in DOMAIN items : Fit(nodes, known, roots, ss[i])
  PROVE  /\ Fit(nodes, known, roots, FlattenSeq(ss))
         /\ \A x : x \in Done(FlattenSeq(ss)) <=> \E i \in DOMAIN items : x \in Done(ss[i])
<1>0. DOMAIN ss = DOMAIN items /\ ss = [i \in DOMAIN items |-> ss[i]]
  BY DEF Over
<1>1. IsSeq(ss)
  <2>1. Len(items) \in Nat /\ DOMAIN items = 1..Len(items)
    BY SequenceIs
  <2>2. \A i \in DOMAIN items : ss[i] \in ToSet(ss)
    BY <1>0 DEF ToSet
  <2>3. ss \in Seq(ToSet(ss))
    BY <1>0, <2>1, <2>2
  <2> QED BY <2>3 DEF IsSeq
<1>2. Fit(nodes, known, roots, FlattenSeq(ss))
  BY <1>0, <1>1, FitAll
<1>3. \A i \in DOMAIN ss : IsSeq(ss[i])
  BY <1>0 DEF Fit
<1>4. \A x : x \in Done(FlattenSeq(ss)) <=> \E i \in DOMAIN ss : x \in Done(ss[i])
  BY <1>1, <1>3, DoneFlatten
<1> QED BY <1>0, <1>2, <1>4

\* A node and a link between it and one that is there.
LEMMA FitNodeLink ==
  ASSUME NEW nodes, NEW known, NEW roots, NEW n, Writable(roots, n),
         NEW from, NEW to, PlainEnd(from), PlainEnd(to), NEW type, Link(type),
         \A m \in {from, to} \cap nodes : m = n \/ <<"node", m>> \in known
  PROVE  /\ Fit(nodes, known, roots, <<OneNode(n), OneEdge(from, type, to)>>)
         /\ \A m : <<"node", m>> \in Done(<<OneNode(n), OneEdge(from, type, to)>>) <=> m = n
<1>1. /\ AptRow(roots, Edge(from, type, to))
      /\ Ready(nodes, known \cup {<<"node", n>>}, Edge(from, type, to))
  BY PlainLinkIs
<1>3. AptNode(roots, n) /\ n.label # "Table"
  BY DEF Writable
<1>2. /\ Fit(nodes, known, roots, <<OneNode(n), OneEdge(from, type, to)>>)
      /\ Done(<<OneNode(n), OneEdge(from, type, to)>>)
           = {<<"node", n>>, <<"edge", Edge(from, type, to)>>}
  BY <1>1, <1>3, FitNodeEdge
<1> QED BY <1>2

-----------------------------------------------------------------------------
\* The plan of an app.
OtherLabels == {"UiObject", "ServerTask", "Trigger", "Variable"}

\* The nodes of an app: none of them is a workbook's or a script's own.
LEMMA AppsNodesAre ==
  ASSUME NEW roots, NEW app
  PROVE  /\ Writable(roots, AppNode(app)) /\ PlainEnd(AppNode(app))
         /\ \A c : Writable(roots, QlikConnection(c)) /\ PlainEnd(QlikConnection(c))
         /\ \A k : Writable(roots, LoadNode(app, k)) /\ PlainEnd(LoadNode(app, k))
         /\ \A k : Writable(roots, Platform(k)) /\ PlainEnd(Platform(k))
         /\ \A c : Writable(roots, DataConnection(c)) /\ PlainEnd(DataConnection(c))
         /\ \A c, l : Writable(roots, PhysicalSource(c, l)) /\ PlainEnd(PhysicalSource(c, l))
         /\ \A d : Writable(roots, Dataset(app, d)) /\ PlainEnd(Dataset(app, d))
         /\ \A d, f : Writable(roots, Field(app, d, f)) /\ PlainEnd(Field(app, d, f))
         /\ \A d, k : Writable(roots, KeyOf(app, d, k)) /\ PlainEnd(KeyOf(app, d, k))
         /\ \A l, x : l \in OtherLabels => Writable(roots, Other(app, l, x)) /\ PlainEnd(Other(app, l, x))
         /\ \A t : AptNode(roots, LoadedTable(t)) /\ LoadedTable(t).label = "Table" /\ PlainEnd(LoadedTable(t))
<1>1. Writable(roots, AppNode(app)) /\ PlainEnd(AppNode(app))
  BY ForeignIs DEF AppNode, BookTags, ScriptTags
<1>2. \A c : Writable(roots, QlikConnection(c)) /\ PlainEnd(QlikConnection(c))
  BY ForeignIs DEF QlikConnection, BookTags, ScriptTags
<1>3. \A k : Writable(roots, LoadNode(app, k)) /\ PlainEnd(LoadNode(app, k))
  BY ForeignIs DEF LoadNode, BookTags, ScriptTags
<1>4. \A k : Writable(roots, Platform(k)) /\ PlainEnd(Platform(k))
  BY ForeignIs DEF Platform, BookTags, ScriptTags
<1>5. \A c : Writable(roots, DataConnection(c)) /\ PlainEnd(DataConnection(c))
  BY ForeignIs DEF DataConnection, BookTags, ScriptTags
<1>6. \A c, l : Writable(roots, PhysicalSource(c, l)) /\ PlainEnd(PhysicalSource(c, l))
  BY ForeignIs DEF PhysicalSource, BookTags, ScriptTags
<1>7. \A d : Writable(roots, Dataset(app, d)) /\ PlainEnd(Dataset(app, d))
  BY ForeignIs DEF Dataset, BookTags, ScriptTags
<1>8. \A d, f : Writable(roots, Field(app, d, f)) /\ PlainEnd(Field(app, d, f))
  BY ForeignIs DEF Field, BookTags, ScriptTags
<1>9. \A d, k : Writable(roots, KeyOf(app, d, k)) /\ PlainEnd(KeyOf(app, d, k))
  BY ForeignIs DEF KeyOf, BookTags, ScriptTags
<1>10. \A l, x : l \in OtherLabels => Writable(roots, Other(app, l, x)) /\ PlainEnd(Other(app, l, x))
  BY ForeignIs DEF Other, OtherLabels, BookTags, ScriptTags
<1>11. \A t : AptNode(roots, LoadedTable(t)) /\ LoadedTable(t).label = "Table" /\ PlainEnd(LoadedTable(t))
  BY DEF LoadedTable, TableNode, Node, AptNode, Homed, Tag, PlainEnd, BookTags, ScriptTags
<1> QED BY <1>1, <1>2, <1>3, <1>4, <1>5, <1>6, <1>7, <1>8, <1>9, <1>10, <1>11

\* The edge types of the QlikView writer are none that a delete follows.
LEMMA LinkTypesAre ==
  \A type \in {"USES_CONNECTION", "CONTAINS_TABLE", "LOADS_FROM_TABLE", "JOINS_WITH", "CONNECTS_VIA",
              "SOURCED_FROM", "HAS_ATTRIBUTE", "HAS_CONSTRAINT"} \cup REL_ALLOWLIST : Link(type)
BY HopTypesAre DEF Link, REL_ALLOWLIST

\* The statements for a connection of the app.
LEMMA ConnectionStepsFit ==
  ASSUME NEW app, IsApp(app), NEW nodes, NEW known, NEW roots, <<"node", AppNode(app)>> \in known
  PROVE  /\ Fit(nodes, known, roots, ConnectionSteps(app))
         /\ \A n : <<"node", n>> \in Done(ConnectionSteps(app))
              <=> \E c \in ToSet(app.connections) : n = QlikConnection(c)
<1> DEFINE items == app.connections
           step(c) == <<OneNode(QlikConnection(c)),
                        OneEdge(AppNode(app), "USES_CONNECTION", QlikConnection(c))>>
           ss == [i \in DOMAIN items |-> step(items[i])]
<1>1. ConnectionSteps(app) = FlattenSeq(ss)
  BY DEF ConnectionSteps, Each
<1>2. ASSUME NEW c
      PROVE  Fit(nodes, known, roots, step(c)) /\ \A n : <<"node", n>> \in Done(step(c)) <=> n = QlikConnection(c)
  <2>1. Writable(roots, QlikConnection(c)) /\ PlainEnd(AppNode(app)) /\ PlainEnd(QlikConnection(c))
    BY AppsNodesAre
  <2>2. Link("USES_CONNECTION")
    BY LinkTypesAre
  <2> QED BY <2>1, <2>2, FitNodeLink
<1>3. Over(ss, items) /\ \A i \in DOMAIN items : ss[i] = step(items[i])
  BY DEF Over
<1>4. IsSeq(items)
  BY DEF IsApp
<1> HIDE DEF items, step, ss
<1>5. \A i \in DOMAIN items : Fit(nodes, known, roots, ss[i])
  BY <1>2, <1>3
<1>6. /\ Fit(nodes, known, roots, FlattenSeq(ss))
      /\ \A x : x \in Done(FlattenSeq(ss)) <=> \E i \in DOMAIN items : x \in Done(ss[i])
  BY <1>3, <1>4, <1>5, EachFits
<1>7. \A n : <<"node", n>> \in Done(FlattenSeq(ss)) <=> \E c \in ToSet(items) : n = QlikConnection(c)
  <2>1. ASSUME NEW n, <<"node", n>> \in Done(FlattenSeq(ss)) PROVE \E c \in ToSet(items) : n = QlikConnection(c)
    <3>1. PICK i \in DOMAIN items : <<"node", n>> \in Done(ss[i])
      BY <1>6, <2>1
    <3>2. items[i] \in ToSet(items)
      BY DEF ToSet
    <3> QED BY <1>2, <1>3, <3>1, <3>2
  <2>2. ASSUME NEW n, NEW c \in ToSet(items), n = QlikConnection(c) PROVE <<"node", n>> \in Done(FlattenSeq(ss))
    <3>1. PICK i \in DOMAIN items : c = items[i]
      BY DEF ToSet
    <3> QED BY <1>2, <1>3, <1>6, <2>2, <3>1
  <2> QED BY <2>1, <2>2
<1> QED BY <1>1, <1>6, <1>7 DEF items

DatasetNodeSteps(app) ==
  Each(app.datasets, LAMBDA d :
    <<OneNode(Dataset(app, d.name)),
      OneEdge(AppNode(app), "CONTAINS_TABLE", Dataset(app, d.name))>>)

\* The nodes of the app's datasets, _write_datasets.
LEMMA DatasetNodeStepsFit ==
  ASSUME NEW app, IsApp(app), NEW nodes, NEW known, NEW roots, <<"node", AppNode(app)>> \in known
  PROVE  /\ Fit(nodes, known, roots, DatasetNodeSteps(app))
         /\ \A n : <<"node", n>> \in Done(DatasetNodeSteps(app))
              <=> \E d \in ToSet(app.datasets) : n = Dataset(app, d.name)
<1> DEFINE items == app.datasets
           step(d) == <<OneNode(Dataset(app, d.name)),
                        OneEdge(AppNode(app), "CONTAINS_TABLE", Dataset(app, d.name))>>
           ss == [i \in DOMAIN items |-> step(items[i])]
<1>1. DatasetNodeSteps(app) = FlattenSeq(ss)
  BY DEF DatasetNodeSteps, Each
<1>2. ASSUME NEW d
      PROVE  Fit(nodes, known, roots, step(d)) /\ \A n : <<"node", n>> \in Done(step(d)) <=> n = Dataset(app, d.name)
  <2>1. Writable(roots, Dataset(app, d.name)) /\ PlainEnd(AppNode(app)) /\ PlainEnd(Dataset(app, d.name))
    BY AppsNodesAre
  <2>2. Link("CONTAINS_TABLE")
    BY LinkTypesAre
  <2> QED BY <2>1, <2>2, FitNodeLink
<1>3. Over(ss, items) /\ \A i \in DOMAIN items : ss[i] = step(items[i])
  BY DEF Over
<1>4. IsSeq(items)
  BY DEF IsApp
<1> HIDE DEF items, step, ss
<1>5. \A i \in DOMAIN items : Fit(nodes, known, roots, ss[i])
  BY <1>2, <1>3
<1>6. /\ Fit(nodes, known, roots, FlattenSeq(ss))
      /\ \A x : x \in Done(FlattenSeq(ss)) <=> \E i \in DOMAIN items : x \in Done(ss[i])
  BY <1>3, <1>4, <1>5, EachFits
<1>7. \A n : <<"node", n>> \in Done(FlattenSeq(ss)) <=> \E d \in ToSet(items) : n = Dataset(app, d.name)
  <2>1. ASSUME NEW n, <<"node", n>> \in Done(FlattenSeq(ss)) PROVE \E d \in ToSet(items) : n = Dataset(app, d.name)
    <3>1. PICK i \in DOMAIN items : <<"node", n>> \in Done(ss[i])
      BY <1>6, <2>1
    <3>2. items[i] \in ToSet(items)
      BY DEF ToSet
    <3> QED BY <1>2, <1>3, <3>1, <3>2
  <2>2. ASSUME NEW n, NEW d \in ToSet(items), n = Dataset(app, d.name) PROVE <<"node", n>> \in Done(FlattenSeq(ss))
    <3>1. PICK i \in DOMAIN items : d = items[i]
      BY DEF ToSet
    <3> QED BY <1>2, <1>3, <1>6, <2>2, <3>1
  <2> QED BY <2>1, <2>2
<1> QED BY <1>1, <1>6, <1>7 DEF items

FieldStepsOf(app, d) ==
  Each(d.fields, LAMBDA f :
    <<OneNode(Field(app, d.name, f)),
      OneEdge(Dataset(app, d.name), "HAS_ATTRIBUTE", Field(app, d.name, f))>>)

\* The statements for the fields of one dataset.
LEMMA FieldStepsFit ==
  ASSUME NEW app, NEW d, IsSeq(d.fields), NEW nodes, NEW known, NEW roots,
         <<"node", Dataset(app, d.name)>> \in known
  PROVE  /\ Fit(nodes, known, roots, FieldStepsOf(app, d))
         /\ \A n : <<"node", n>> \in Done(FieldStepsOf(app, d))
              <=> \E f \in ToSet(d.fields) : n = Field(app, d.name, f)
<1> DEFINE items == d.fields
           step(f) == <<OneNode(Field(app, d.name, f)),
                        OneEdge(Dataset(app, d.name), "HAS_ATTRIBUTE", Field(app, d.name, f))>>
           ss == [i \in DOMAIN items |-> step(items[i])]
<1>1. FieldStepsOf(app, d) = FlattenSeq(ss)
  BY DEF FieldStepsOf, Each
<1>2. ASSUME NEW f
      PROVE  Fit(nodes, known, roots, step(f)) /\ \A n : <<"node", n>> \in Done(step(f)) <=> n = Field(app, d.name, f)
  <2>1. Writable(roots, Field(app, d.name, f)) /\ PlainEnd(Dataset(app, d.name)) /\ PlainEnd(Field(app, d.name, f))
    BY AppsNodesAre
  <2>2. Link("HAS_ATTRIBUTE")
    BY LinkTypesAre
  <2> QED BY <2>1, <2>2, FitNodeLink
<1>3. Over(ss, items) /\ \A i \in DOMAIN items : ss[i] = step(items[i])
  BY DEF Over
<1>4. IsSeq(items)
  OBVIOUS
<1> HIDE DEF items, step, ss
<1>5. \A i \in DOMAIN items : Fit(nodes, known, roots, ss[i])
  BY <1>2, <1>3
<1>6. /\ Fit(nodes, known, roots, FlattenSeq(ss))
      /\ \A x : x \in Done(FlattenSeq(ss)) <=> \E i \in DOMAIN items : x \in Done(ss[i])
  BY <1>3, <1>4, <1>5, EachFits
<1>7. \A n : <<"node", n>> \in Done(FlattenSeq(ss)) <=> \E f \in ToSet(items) : n = Field(app, d.name, f)
  <2>1. ASSUME NEW n, <<"node", n>> \in Done(FlattenSeq(ss)) PROVE \E f \in ToSet(items) : n = Field(app, d.name, f)
    <3>1. PICK i \in DOMAIN items : <<"node", n>> \in Done(ss[i])
      BY <1>6, <2>1
    <3>2. items[i] \in ToSet(items)
      BY DEF ToSet
    <3> QED BY <1>2, <1>3, <3>1, <3>2
  <2>2. ASSUME NEW n, NEW f \in ToSet(items), n = Field(app, d.name, f) PROVE <<"node", n>> \in Done(FlattenSeq(ss))
    <3>1. PICK i \in DOMAIN items : f = items[i]
      BY DEF ToSet
    <3> QED BY <1>2, <1>3, <1>6, <2>2, <3>1
  <2> QED BY <2>1, <2>2
<1> QED BY <1>1, <1>6, <1>7 DEF items

KeyStepsOf(app, d) ==
  Each(d.keys, LAMBDA k :
    <<OneNode(KeyOf(app, d.name, k)),
      OneEdge(Dataset(app, d.name), "HAS_CONSTRAINT", KeyOf(app, d.name, k))>>)

\* The statements for the keys of one dataset.
LEMMA KeyStepsFit ==
  ASSUME NEW app, NEW d, IsSeq(d.keys), NEW nodes, NEW known, NEW roots,
         <<"node", Dataset(app, d.name)>> \in known
  PROVE  /\ Fit(nodes, known, roots, KeyStepsOf(app, d))
         /\ \A n : <<"node", n>> \in Done(KeyStepsOf(app, d))
              <=> \E k \in ToSet(d.keys) : n = KeyOf(app, d.name, k)
<1> DEFINE items == d.keys
           step(k) == <<OneNode(KeyOf(app, d.name, k)),
                        OneEdge(Dataset(app, d.name), "HAS_CONSTRAINT", KeyOf(app, d.name, k))>>
           ss == [i \in DOMAIN items |-> step(items[i])]
<1>1. KeyStepsOf(app, d) = FlattenSeq(ss)
  BY DEF KeyStepsOf, Each
<1>2. ASSUME NEW k
      PROVE  Fit(nodes, known, roots, step(k)) /\ \A n : <<"node", n>> \in Done(step(k)) <=> n = KeyOf(app, d.name, k)
  <2>1. Writable(roots, KeyOf(app, d.name, k)) /\ PlainEnd(Dataset(app, d.name)) /\ PlainEnd(KeyOf(app, d.name, k))
    BY AppsNodesAre
  <2>2. Link("HAS_CONSTRAINT")
    BY LinkTypesAre
  <2> QED BY <2>1, <2>2, FitNodeLink
<1>3. Over(ss, items) /\ \A i \in DOMAIN items : ss[i] = step(items[i])
  BY DEF Over
<1>4. IsSeq(items)
  OBVIOUS
<1> HIDE DEF items, step, ss
<1>5. \A i \in DOMAIN items : Fit(nodes, known, roots, ss[i])
  BY <1>2, <1>3
<1>6. /\ Fit(nodes, known, roots, FlattenSeq(ss))
      /\ \A x : x \in Done(FlattenSeq(ss)) <=> \E i \in DOMAIN items : x \in Done(ss[i])
  BY <1>3, <1>4, <1>5, EachFits
<1>7. \A n : <<"node", n>> \in Done(FlattenSeq(ss)) <=> \E k \in ToSet(items) : n = KeyOf(app, d.name, k)
  <2>1. ASSUME NEW n, <<"node", n>> \in Done(FlattenSeq(ss)) PROVE \E k \in ToSet(items) : n = KeyOf(app, d.name, k)
    <3>1. PICK i \in DOMAIN items : <<"node", n>> \in Done(ss[i])
      BY <1>6, <2>1
    <3>2. items[i] \in ToSet(items)
      BY DEF ToSet
    <3> QED BY <1>2, <1>3, <3>1, <3>2
  <2>2. ASSUME NEW n, NEW k \in ToSet(items), n = KeyOf(app, d.name, k) PROVE <<"node", n>> \in Done(FlattenSeq(ss))
    <3>1. PICK i \in DOMAIN items : k = items[i]
      BY DEF ToSet
    <3> QED BY <1>2, <1>3, <1>6, <2>2, <3>1
  <2> QED BY <2>1, <2>2
<1> QED BY <1>1, <1>6, <1>7 DEF items

ConnStepsOf(p) ==
  Each(p.conns, LAMBDA c :
    <<OneNode(DataConnection(c)), OneEdge(DataConnection(c), "CONNECTS_VIA", Platform(p.kind))>>)

\* The statements for the connection of one platform.
LEMMA ConnStepsFit ==
  ASSUME NEW p, IsSeq(p.conns), NEW nodes, NEW known, NEW roots,
         <<"node", Platform(p.kind)>> \in known
  PROVE  /\ Fit(nodes, known, roots, ConnStepsOf(p))
         /\ \A n : <<"node", n>> \in Done(ConnStepsOf(p))
              <=> \E c \in ToSet(p.conns) : n = DataConnection(c)
<1> DEFINE items == p.conns
           step(c) == <<OneNode(DataConnection(c)),
                        OneEdge(DataConnection(c), "CONNECTS_VIA", Platform(p.kind))>>
           ss == [i \in DOMAIN items |-> step(items[i])]
<1>1. ConnStepsOf(p) = FlattenSeq(ss)
  BY DEF ConnStepsOf, Each
<1>2. ASSUME NEW c
      PROVE  Fit(nodes, known, roots, step(c)) /\ \A n : <<"node", n>> \in Done(step(c)) <=> n = DataConnection(c)
  <2>1. Writable(roots, DataConnection(c)) /\ PlainEnd(DataConnection(c)) /\ PlainEnd(Platform(p.kind))
    BY AppsNodesAre
  <2>2. Link("CONNECTS_VIA")
    BY LinkTypesAre
  <2> QED BY <2>1, <2>2, FitNodeLink
<1>3. Over(ss, items) /\ \A i \in DOMAIN items : ss[i] = step(items[i])
  BY DEF Over
<1>4. IsSeq(items)
  OBVIOUS
<1> HIDE DEF items, step, ss
<1>5. \A i \in DOMAIN items : Fit(nodes, known, roots, ss[i])
  BY <1>2, <1>3
<1>6. /\ Fit(nodes, known, roots, FlattenSeq(ss))
      /\ \A x : x \in Done(FlattenSeq(ss)) <=> \E i \in DOMAIN items : x \in Done(ss[i])
  BY <1>3, <1>4, <1>5, EachFits
<1>7. \A n : <<"node", n>> \in Done(FlattenSeq(ss)) <=> \E c \in ToSet(items) : n = DataConnection(c)
  <2>1. ASSUME NEW n, <<"node", n>> \in Done(FlattenSeq(ss)) PROVE \E c \in ToSet(items) : n = DataConnection(c)
    <3>1. PICK i \in DOMAIN items : <<"node", n>> \in Done(ss[i])
      BY <1>6, <2>1
    <3>2. items[i] \in ToSet(items)
      BY DEF ToSet
    <3> QED BY <1>2, <1>3, <3>1, <3>2
  <2>2. ASSUME NEW n, NEW c \in ToSet(items), n = DataConnection(c) PROVE <<"node", n>> \in Done(FlattenSeq(ss))
    <3>1. PICK i \in DOMAIN items : c = items[i]
      BY DEF ToSet
    <3> QED BY <1>2, <1>3, <1>6, <2>2, <3>1
  <2> QED BY <2>1, <2>2
<1> QED BY <1>1, <1>6, <1>7 DEF items

\* The statements for what an app has besides: objects, tasks, triggers, variables.
LEMMA OtherStepsFit ==
  ASSUME NEW app, IsApp(app), NEW nodes, NEW known, NEW roots
  PROVE  /\ Fit(nodes, known, roots, OtherSteps(app))
         /\ \A n : <<"node", n>> \in Done(OtherSteps(app))
              <=> \E o \in ToSet(app.others) : n = Other(app, o[1], o[2])
<1> DEFINE items == app.others
           step(o) == <<OneNode(Other(app, o[1], o[2]))>>
           ss == [i \in DOMAIN items |-> step(items[i])]
<1>1. OtherSteps(app) = FlattenSeq(ss)
  BY DEF OtherSteps, Each
<1>2. ASSUME NEW o \in ToSet(items)
      PROVE  Fit(nodes, known, roots, step(o)) /\ \A n : <<"node", n>> \in Done(step(o)) <=> n = Other(app, o[1], o[2])
  <2>1. AptNode(roots, Other(app, o[1], o[2])) /\ Other(app, o[1], o[2]).label # "Table"
    <3>1. o[1] \in OtherLabels
      BY DEF IsApp, OtherLabels
    <3> HIDE DEF items, step, ss
    <3>2. Writable(roots, Other(app, o[1], o[2]))
      BY <3>1, AppsNodesAre
    <3> QED BY <3>2 DEF Writable
  <2>2. Fit(nodes, known, roots, <<OneNode(Other(app, o[1], o[2]))>>) /\ Done(<<OneNode(Other(app, o[1], o[2]))>>) = {<<"node", Other(app, o[1], o[2])>>}
    BY <2>1, FitNode
  <2> QED BY <2>2
<1>3. Over(ss, items) /\ \A i \in DOMAIN items : ss[i] = step(items[i])
  BY DEF Over
<1>4. IsSeq(items)
  BY DEF IsApp
<1> HIDE DEF items, step, ss
<1>5. \A i \in DOMAIN items : Fit(nodes, known, roots, ss[i])
  BY <1>2, <1>3 DEF ToSet
<1>6. /\ Fit(nodes, known, roots, FlattenSeq(ss))
      /\ \A x : x \in Done(FlattenSeq(ss)) <=> \E i \in DOMAIN items : x \in Done(ss[i])
  BY <1>3, <1>4, <1>5, EachFits
<1>7. \A n : <<"node", n>> \in Done(FlattenSeq(ss)) <=> \E o \in ToSet(items) : n = Other(app, o[1], o[2])
  <2>1. ASSUME NEW n, <<"node", n>> \in Done(FlattenSeq(ss)) PROVE \E o \in ToSet(items) : n = Other(app, o[1], o[2])
    <3>1. PICK i \in DOMAIN items : <<"node", n>> \in Done(ss[i])
      BY <1>6, <2>1
    <3>2. items[i] \in ToSet(items)
      BY DEF ToSet
    <3> QED BY <1>2, <1>3, <3>1, <3>2
  <2>2. ASSUME NEW n, NEW o \in ToSet(items), n = Other(app, o[1], o[2]) PROVE <<"node", n>> \in Done(FlattenSeq(ss))
    <3>1. PICK i \in DOMAIN items : o = items[i]
      BY DEF ToSet
    <3> QED BY <1>2, <1>3, <1>6, <2>2, <3>1
  <2> QED BY <2>1, <2>2
<1> QED BY <1>1, <1>6, <1>7 DEF items

PlatformSteps(app) == Each(app.platforms, LAMBDA p : <<OneNode(Platform(p.kind))>>)

\* The nodes of the platforms an app reads from.
LEMMA PlatformStepsFit ==
  ASSUME NEW app, IsApp(app), NEW nodes, NEW known, NEW roots
  PROVE  /\ Fit(nodes, known, roots, PlatformSteps(app))
         /\ \A n : <<"node", n>> \in Done(PlatformSteps(app))
              <=> \E p \in ToSet(app.platforms) : n = Platform(p.kind)
<1> DEFINE items == app.platforms
           step(p) == <<OneNode(Platform(p.kind))>>
           ss == [i \in DOMAIN items |-> step(items[i])]
<1>1. PlatformSteps(app) = FlattenSeq(ss)
  BY DEF PlatformSteps, Each
<1>2. ASSUME NEW p \in ToSet(items)
      PROVE  Fit(nodes, known, roots, step(p)) /\ \A n : <<"node", n>> \in Done(step(p)) <=> n = Platform(p.kind)
  <2>1. AptNode(roots, Platform(p.kind)) /\ Platform(p.kind).label # "Table"
    BY AppsNodesAre DEF Writable
  <2>2. Fit(nodes, known, roots, <<OneNode(Platform(p.kind))>>) /\ Done(<<OneNode(Platform(p.kind))>>) = {<<"node", Platform(p.kind)>>}
    BY <2>1, FitNode
  <2> QED BY <2>2
<1>3. Over(ss, items) /\ \A i \in DOMAIN items : ss[i] = step(items[i])
  BY DEF Over
<1>4. IsSeq(items)
  BY DEF IsApp
<1> HIDE DEF items, step, ss
<1>5. \A i \in DOMAIN items : Fit(nodes, known, roots, ss[i])
  BY <1>2, <1>3 DEF ToSet
<1>6. /\ Fit(nodes, known, roots, FlattenSeq(ss))
      /\ \A x : x \in Done(FlattenSeq(ss)) <=> \E i \in DOMAIN items : x \in Done(ss[i])
  BY <1>3, <1>4, <1>5, EachFits
<1>7. \A n : <<"node", n>> \in Done(FlattenSeq(ss)) <=> \E p \in ToSet(items) : n = Platform(p.kind)
  <2>1. ASSUME NEW n, <<"node", n>> \in Done(FlattenSeq(ss)) PROVE \E p \in ToSet(items) : n = Platform(p.kind)
    <3>1. PICK i \in DOMAIN items : <<"node", n>> \in Done(ss[i])
      BY <1>6, <2>1
    <3>2. items[i] \in ToSet(items)
      BY DEF ToSet
    <3> QED BY <1>2, <1>3, <3>1, <3>2
  <2>2. ASSUME NEW n, NEW p \in ToSet(items), n = Platform(p.kind) PROVE <<"node", n>> \in Done(FlattenSeq(ss))
    <3>1. PICK i \in DOMAIN items : p = items[i]
      BY DEF ToSet
    <3> QED BY <1>2, <1>3, <1>6, <2>2, <3>1
  <2> QED BY <2>1, <2>2
<1> QED BY <1>1, <1>6, <1>7 DEF items

DataConnectionSteps(app) == Each(app.platforms, LAMBDA p : ConnStepsOf(p))

\* The statements for the connections of all platforms.
LEMMA DataConnectionStepsFit ==
  ASSUME NEW app, IsApp(app), NEW nodes, NEW known, NEW roots,
         \A p \in ToSet(app.platforms) : <<"node", Platform(p.kind)>> \in known
  PROVE  /\ Fit(nodes, known, roots, DataConnectionSteps(app))
         /\ \A n : <<"node", n>> \in Done(DataConnectionSteps(app))
              <=> \E p \in ToSet(app.platforms) : \E c \in ToSet(p.conns) : n = DataConnection(c)
<1> DEFINE items == app.platforms
           ss == [i \in DOMAIN items |-> ConnStepsOf(items[i])]
<1>1. DataConnectionSteps(app) = FlattenSeq(ss)
  BY DEF DataConnectionSteps, Each
<1>2. ASSUME NEW p \in ToSet(items)
      PROVE  /\ Fit(nodes, known, roots, ConnStepsOf(p))
             /\ \A n : <<"node", n>> \in Done(ConnStepsOf(p)) <=> \E c \in ToSet(p.conns) : n = DataConnection(c)
  BY ConnStepsFit DEF IsApp
<1>3. Over(ss, items) /\ \A i \in DOMAIN items : ss[i] = ConnStepsOf(items[i])
  BY DEF Over
<1>4. IsSeq(items)
  BY DEF IsApp
<1> HIDE DEF items, ss
<1>5. \A i \in DOMAIN items : Fit(nodes, known, roots, ss[i])
  BY <1>2, <1>3 DEF ToSet
<1>6. /\ Fit(nodes, known, roots, FlattenSeq(ss))
      /\ \A x : x \in Done(FlattenSeq(ss)) <=> \E i \in DOMAIN items : x \in Done(ss[i])
  BY <1>3, <1>4, <1>5, EachFits
<1>7. \A n : <<"node", n>> \in Done(FlattenSeq(ss)) <=> \E p \in ToSet(items) : \E c \in ToSet(p.conns) : n = DataConnection(c)
  <2>1. ASSUME NEW n, <<"node", n>> \in Done(FlattenSeq(ss)) PROVE \E p \in ToSet(items) : \E c \in ToSet(p.conns) : n = DataConnection(c)
    <3>1. PICK i \in DOMAIN items : <<"node", n>> \in Done(ss[i])
      BY <1>6, <2>1
    <3>2. items[i] \in ToSet(items)
      BY DEF ToSet
    <3> QED BY <1>2, <1>3, <3>1, <3>2
  <2>2. ASSUME NEW n, NEW p \in ToSet(items), \E c \in ToSet(p.conns) : n = DataConnection(c) PROVE <<"node", n>> \in Done(FlattenSeq(ss))
    <3>1. PICK i \in DOMAIN items : p = items[i]
      BY DEF ToSet
    <3> QED BY <1>2, <1>3, <1>6, <2>2, <3>1
  <2> QED BY <2>1, <2>2
<1> QED BY <1>1, <1>6, <1>7 DEF items

FieldSteps(app) == Each(app.datasets, LAMBDA d : FieldStepsOf(app, d))

\* The statements for the fields of all datasets.
LEMMA AllFieldStepsFit ==
  ASSUME NEW app, IsApp(app), NEW nodes, NEW known, NEW roots,
         \A d \in ToSet(app.datasets) : <<"node", Dataset(app, d.name)>> \in known
  PROVE  /\ Fit(nodes, known, roots, FieldSteps(app))
         /\ \A n : <<"node", n>> \in Done(FieldSteps(app))
              <=> \E d \in ToSet(app.datasets) : \E f \in ToSet(d.fields) : n = Field(app, d.name, f)
<1> DEFINE items == app.datasets
           ss == [i \in DOMAIN items |-> FieldStepsOf(app, items[i])]
<1>1. FieldSteps(app) = FlattenSeq(ss)
  BY DEF FieldSteps, Each
<1>2. ASSUME NEW d \in ToSet(items)
      PROVE  /\ Fit(nodes, known, roots, FieldStepsOf(app, d))
             /\ \A n : <<"node", n>> \in Done(FieldStepsOf(app, d)) <=> \E f \in ToSet(d.fields) : n = Field(app, d.name, f)
  <2>1. IsSeq(d.fields)
    BY DEF IsApp
  <2>2. <<"node", Dataset(app, d.name)>> \in known
    OBVIOUS
  <2> HIDE DEF items, ss
  <2> QED BY <2>1, <2>2, FieldStepsFit
<1>3. Over(ss, items) /\ \A i \in DOMAIN items : ss[i] = FieldStepsOf(app, items[i])
  BY DEF Over
<1>4. IsSeq(items)
  BY DEF IsApp
<1> HIDE DEF items, ss
<1>5. \A i \in DOMAIN items : Fit(nodes, known, roots, ss[i])
  BY <1>2, <1>3 DEF ToSet
<1>6. /\ Fit(nodes, known, roots, FlattenSeq(ss))
      /\ \A x : x \in Done(FlattenSeq(ss)) <=> \E i \in DOMAIN items : x \in Done(ss[i])
  BY <1>3, <1>4, <1>5, EachFits
<1>7. \A n : <<"node", n>> \in Done(FlattenSeq(ss)) <=> \E d \in ToSet(items) : \E f \in ToSet(d.fields) : n = Field(app, d.name, f)
  <2>1. ASSUME NEW n, <<"node", n>> \in Done(FlattenSeq(ss)) PROVE \E d \in ToSet(items) : \E f \in ToSet(d.fields) : n = Field(app, d.name, f)
    <3>1. PICK i \in DOMAIN items : <<"node", n>> \in Done(ss[i])
      BY <1>6, <2>1
    <3>2. items[i] \in ToSet(items)
      BY DEF ToSet
    <3> QED BY <1>2, <1>3, <3>1, <3>2
  <2>2. ASSUME NEW n, NEW d \in ToSet(items), \E f \in ToSet(d.fields) : n = Field(app, d.name, f) PROVE <<"node", n>> \in Done(FlattenSeq(ss))
    <3>1. PICK i \in DOMAIN items : d = items[i]
      BY DEF ToSet
    <3> QED BY <1>2, <1>3, <1>6, <2>2, <3>1
  <2> QED BY <2>1, <2>2
<1> QED BY <1>1, <1>6, <1>7 DEF items

KeySteps(app) == Each(app.datasets, LAMBDA d : KeyStepsOf(app, d))

\* The statements for the keys of all datasets.
LEMMA AllKeyStepsFit ==
  ASSUME NEW app, IsApp(app), NEW nodes, NEW known, NEW roots,
         \A d \in ToSet(app.datasets) : <<"node", Dataset(app, d.name)>> \in known
  PROVE  /\ Fit(nodes, known, roots, KeySteps(app))
         /\ \A n : <<"node", n>> \in Done(KeySteps(app))
              <=> \E d \in ToSet(app.datasets) : \E k \in ToSet(d.keys) : n = KeyOf(app, d.name, k)
<1> DEFINE items == app.datasets
           ss == [i \in DOMAIN items |-> KeyStepsOf(app, items[i])]
<1>1. KeySteps(app) = FlattenSeq(ss)
  BY DEF KeySteps, Each
<1>2. ASSUME NEW d \in ToSet(items)
      PROVE  /\ Fit(nodes, known, roots, KeyStepsOf(app, d))
             /\ \A n : <<"node", n>> \in Done(KeyStepsOf(app, d)) <=> \E k \in ToSet(d.keys) : n = KeyOf(app, d.name, k)
  <2>1. IsSeq(d.keys)
    BY DEF IsApp
  <2>2. <<"node", Dataset(app, d.name)>> \in known
    OBVIOUS
  <2> HIDE DEF items, ss
  <2> QED BY <2>1, <2>2, KeyStepsFit
<1>3. Over(ss, items) /\ \A i \in DOMAIN items : ss[i] = KeyStepsOf(app, items[i])
  BY DEF Over
<1>4. IsSeq(items)
  BY DEF IsApp
<1> HIDE DEF items, ss
<1>5. \A i \in DOMAIN items : Fit(nodes, known, roots, ss[i])
  BY <1>2, <1>3 DEF ToSet
<1>6. /\ Fit(nodes, known, roots, FlattenSeq(ss))
      /\ \A x : x \in Done(FlattenSeq(ss)) <=> \E i \in DOMAIN items : x \in Done(ss[i])
  BY <1>3, <1>4, <1>5, EachFits
<1>7. \A n : <<"node", n>> \in Done(FlattenSeq(ss)) <=> \E d \in ToSet(items) : \E k \in ToSet(d.keys) : n = KeyOf(app, d.name, k)
  <2>1. ASSUME NEW n, <<"node", n>> \in Done(FlattenSeq(ss)) PROVE \E d \in ToSet(items) : \E k \in ToSet(d.keys) : n = KeyOf(app, d.name, k)
    <3>1. PICK i \in DOMAIN items : <<"node", n>> \in Done(ss[i])
      BY <1>6, <2>1
    <3>2. items[i] \in ToSet(items)
      BY DEF ToSet
    <3> QED BY <1>2, <1>3, <3>1, <3>2
  <2>2. ASSUME NEW n, NEW d \in ToSet(items), \E k \in ToSet(d.keys) : n = KeyOf(app, d.name, k) PROVE <<"node", n>> \in Done(FlattenSeq(ss))
    <3>1. PICK i \in DOMAIN items : d = items[i]
      BY DEF ToSet
    <3> QED BY <1>2, <1>3, <1>6, <2>2, <3>1
  <2> QED BY <2>1, <2>2
<1> QED BY <1>1, <1>6, <1>7 DEF items

\* What a lone edge leaves.
LEMMA DoneEdge ==
  ASSUME NEW from, NEW type, NEW to
  PROVE  Done(<<OneEdge(from, type, to)>>) = {<<"edge", Edge(from, type, to)>>}
<1> SUFFICES ASSUME NEW st, st = OneEdge(from, type, to)
             PROVE  Done(<<st>>) = {<<"edge", Edge(from, type, to)>>}
  OBVIOUS
<1>1. st.op = "edges" /\ st.rows = {Edge(from, type, to)}
  BY DEF OneEdge, EdgeRows
<1>2. NodesAt(st) = {} /\ IdsAt(st) = {} /\ EdgesAt(st) = {Edge(from, type, to)}
  BY <1>1 DEF NodesAt, IdsAt, EdgesAt
<1>3. Things(st) = {<<"edge", Edge(from, type, to)>>}
  BY <1>2 DEF Things
<1>4. ToSet(<<st>>) = {st}
  BY DEF ToSet
<1> HIDE DEF Done
<1> QED BY <1>3, <1>4 DEF Done

\* An edge alone, which writes no node.
LEMMA FitLink ==
  ASSUME NEW nodes, NEW known, NEW roots, NEW from, NEW to, NEW type,
         AptRow(roots, Edge(from, type, to)), Ready(nodes, known, Edge(from, type, to))
  PROVE  /\ Fit(nodes, known, roots, <<OneEdge(from, type, to)>>)
         /\ \A n : <<"node", n>> \notin Done(<<OneEdge(from, type, to)>>)
<1>1. Fit(nodes, known, roots, <<OneEdge(from, type, to)>>)
  BY FitEdge
<1>2. Done(<<OneEdge(from, type, to)>>) = {<<"edge", Edge(from, type, to)>>}
  BY DoneEdge
<1>3. \A n : <<"node", n>> # <<"edge", Edge(from, type, to)>>
  OBVIOUS
<1> DEFINE s == <<OneEdge(from, type, to)>>
<1>4. Fit(nodes, known, roots, s) /\ Done(s) = {<<"edge", Edge(from, type, to)>>}
  BY <1>1, <1>2
<1> HIDE DEF s
<1>5. Fit(nodes, known, roots, s) /\ \A n : <<"node", n>> \notin Done(s)
  BY <1>3, <1>4
<1> QED BY <1>5 DEF s

\* The statements that write a table and link it to what is there.
LEMMA FitTableLink ==
  ASSUME NEW nodes, NEW known, NEW roots, NEW t, AptNode(roots, t), t.label = "Table", NEW id,
         NEW from, NEW to, PlainEnd(from), PlainEnd(to), NEW type, Link(type),
         \A m \in {from, to} \cap nodes : m = t \/ <<"node", m>> \in known
  PROVE  /\ Fit(nodes, known, roots, <<OneTable(t, id), OneEdge(from, type, to)>>)
         /\ \A m : <<"node", m>> \in Done(<<OneTable(t, id), OneEdge(from, type, to)>>) <=> m = t
<1> DEFINE a == <<OneTable(t, id)>>
           b == <<OneEdge(from, type, to)>>
<1>1. Fit(nodes, known, roots, a) /\ Done(a) = {<<"node", t>>, <<"id", [table |-> t, id |-> id]>>}
  BY FitTable
<1>2. /\ AptRow(roots, Edge(from, type, to))
      /\ Ready(nodes, known \cup Done(a), Edge(from, type, to))
  <2> HIDE DEF a, b
  <2> QED BY <1>1, PlainLinkIs
<1>3. <<OneTable(t, id), OneEdge(from, type, to)>> = a \o b
  BY TwoIs
<1>4. Fit(nodes, known \cup Done(a), roots, b) /\ \A m : <<"node", m>> \notin Done(b)
  <2> DEFINE more == known \cup Done(a)
  <2>1. AptRow(roots, Edge(from, type, to)) /\ Ready(nodes, more, Edge(from, type, to))
    BY <1>2
  <2> HIDE DEF a, more
  <2>2. Fit(nodes, more, roots, b) /\ \A m : <<"node", m>> \notin Done(b)
    BY <2>1, FitLink
  <2> QED BY <2>2 DEF more
<1> HIDE DEF a, b
<1>5. Fit(nodes, known, roots, a \o b)
  BY <1>1, <1>4, FitJoin
<1>6. Done(a \o b) = Done(a) \cup Done(b)
  BY <1>1, <1>4, DoneJoin DEF Fit
<1> QED BY <1>1, <1>3, <1>4, <1>5, <1>6

\* The node of the script, and the edge to an upstream app nobody has in mind.
LEMMA AppNodeStepsFit ==
  ASSUME NEW app, NEW nodes, NEW known, NEW roots,
         \A n \in nodes : Tag(n) \notin {"none", "unknown"}
  PROVE  /\ Fit(nodes, known, roots, AppNodeSteps(app))
         /\ \A n : <<"node", n>> \in Done(AppNodeSteps(app)) <=> n = AppNode(app)
<1> DEFINE up == Node("QlikScript", <<"unknown">>)
           to == Match("base", app.binary, up)
           e == Edge(AppNode(app), "INHERITS_FROM", to)
           a == <<OneNode(AppNode(app))>>
           b == IF app.binary = "" THEN <<>> ELSE <<OneEdge(AppNode(app), "INHERITS_FROM", to)>>
<1>0. AppNodeSteps(app) = a \o b
  BY DEF AppNodeSteps
<1>1. Fit(nodes, known, roots, a) /\ Done(a) = {<<"node", AppNode(app)>>}
  <2>1. AptNode(roots, AppNode(app)) /\ AppNode(app).label # "Table"
    BY AppsNodesAre DEF Writable
  <2> QED BY <2>1, FitNode
<1>2. /\ to.label = "?" /\ to.by = "base" /\ to.meant = up /\ Tag(up) = "unknown"
      /\ e.from = AppNode(app) /\ e.type = "INHERITS_FROM" /\ e.to = to
      /\ e = Edge(e.from, e.type, e.to)
  BY DEF Match, Edge, Tag, Node
<1>3. PlainEnd(AppNode(app)) /\ Meant(AppNode(app)) = AppNode(app)
  BY AppsNodesAre DEF Meant, PlainEnd
<1>4. "INHERITS_FROM" \notin HopTypes \cup SecondTypes \cup {"HAS_COLUMN"}
  BY HopTypesAre DEF SecondTypes
<1>5. ~ PlainEnd(to) /\ Meant(to) = up
  BY <1>2 DEF PlainEnd, Meant
<1> HIDE DEF up, to, e
<1>6. AptRow(roots, e)
  BY <1>2, <1>3, <1>4, <1>5 DEF AptRow, MeantEnd
<1>7. Ready(nodes, known \cup Done(a), e)
  <2>1. up \notin nodes
    BY <1>2
  <2>2. Ends(e) = {AppNode(app), up}
    BY <1>2, <1>3, <1>5 DEF Ends
  <2>3. <<"node", AppNode(app)>> \in known \cup Done(a)
    BY <1>1
  <2> HIDE DEF a
  <2> QED BY <1>2, <1>3, <1>4, <2>1, <2>2, <2>3 DEF Ready
<1>8. Fit(nodes, known \cup Done(a), roots, b) /\ \A n : <<"node", n>> \notin Done(b)
  <2>1. CASE app.binary = ""
    <3> HIDE DEF a
    <3> QED BY <2>1, FitNone
  <2>2. CASE app.binary # ""
    <3>1. b = <<OneEdge(AppNode(app), "INHERITS_FROM", to)>> /\ e = Edge(AppNode(app), "INHERITS_FROM", to)
      BY <2>2 DEF e
    <3> DEFINE more == known \cup Done(a)
               s == <<OneEdge(AppNode(app), "INHERITS_FROM", to)>>
    <3>2. AptRow(roots, Edge(AppNode(app), "INHERITS_FROM", to))
            /\ Ready(nodes, more, Edge(AppNode(app), "INHERITS_FROM", to))
      BY <1>6, <1>7, <3>1
    <3> HIDE DEF a, b, more
    <3>3. Fit(nodes, more, roots, s) /\ \A n : <<"node", n>> \notin Done(s)
      BY <3>2, FitLink
    <3> QED BY <3>1, <3>3 DEF more
  <2> QED BY <2>1, <2>2
<1> HIDE DEF a, b
<1>9. Fit(nodes, known, roots, a \o b)
  BY <1>1, <1>8, FitJoin
<1>10. Done(a \o b) = Done(a) \cup Done(b)
  BY <1>1, <1>8, DoneJoin DEF Fit
<1> QED BY <1>0, <1>1, <1>8, <1>9, <1>10

SqlSteps(app, k) ==
  Each(app.loads[k].sql, LAMBDA t :
    <<OneTable(LoadedTable(t), LoadedId(t)), OneEdge(LoadNode(app, k), "LOADS_FROM_TABLE", LoadedTable(t))>>)

\* The statements for the tables an SQL load reads.
LEMMA SqlStepsFit ==
  ASSUME NEW app, NEW k, IsSeq(app.loads[k].sql), NEW nodes, NEW known, NEW roots,
         <<"node", LoadNode(app, k)>> \in known
  PROVE  /\ Fit(nodes, known, roots, SqlSteps(app, k))
         /\ \A n : <<"node", n>> \in Done(SqlSteps(app, k))
              <=> \E t \in ToSet(app.loads[k].sql) : n = LoadedTable(t)
<1> DEFINE items == app.loads[k].sql
           step(t) == <<OneTable(LoadedTable(t), LoadedId(t)),
                        OneEdge(LoadNode(app, k), "LOADS_FROM_TABLE", LoadedTable(t))>>
           ss == [i \in DOMAIN items |-> step(items[i])]
<1>1. SqlSteps(app, k) = FlattenSeq(ss)
  BY DEF SqlSteps, Each
<1>2. ASSUME NEW t
      PROVE  Fit(nodes, known, roots, step(t)) /\ \A n : <<"node", n>> \in Done(step(t)) <=> n = LoadedTable(t)
  <2>1. /\ AptNode(roots, LoadedTable(t)) /\ LoadedTable(t).label = "Table" /\ PlainEnd(LoadedTable(t))
        /\ PlainEnd(LoadNode(app, k))
    BY AppsNodesAre
  <2>2. Link("LOADS_FROM_TABLE")
    BY LinkTypesAre
  <2> QED BY <2>1, <2>2, FitTableLink
<1>3. Over(ss, items) /\ \A i \in DOMAIN items : ss[i] = step(items[i])
  BY DEF Over
<1>4. IsSeq(items)
  OBVIOUS
<1> HIDE DEF items, step, ss
<1>5. \A i \in DOMAIN items : Fit(nodes, known, roots, ss[i])
  BY <1>2, <1>3
<1>6. /\ Fit(nodes, known, roots, FlattenSeq(ss))
      /\ \A x : x \in Done(FlattenSeq(ss)) <=> \E i \in DOMAIN items : x \in Done(ss[i])
  BY <1>3, <1>4, <1>5, EachFits
<1>7. \A n : <<"node", n>> \in Done(FlattenSeq(ss)) <=> \E t \in ToSet(items) : n = LoadedTable(t)
  <2>1. ASSUME NEW n, <<"node", n>> \in Done(FlattenSeq(ss)) PROVE \E t \in ToSet(items) : n = LoadedTable(t)
    <3>1. PICK i \in DOMAIN items : <<"node", n>> \in Done(ss[i])
      BY <1>6, <2>1
    <3>2. items[i] \in ToSet(items)
      BY DEF ToSet
    <3> QED BY <1>2, <1>3, <3>1, <3>2
  <2>2. ASSUME NEW n, NEW t \in ToSet(items), n = LoadedTable(t) PROVE <<"node", n>> \in Done(FlattenSeq(ss))
    <3>1. PICK i \in DOMAIN items : t = items[i]
      BY DEF ToSet
    <3> QED BY <1>2, <1>3, <1>6, <2>2, <3>1
  <2> QED BY <2>1, <2>2
<1> QED BY <1>1, <1>6, <1>7 DEF items

\* The statements for one LOAD.
LEMMA LoadStepsFit ==
  ASSUME NEW app, NEW k, IsSeq(app.loads[k].sql), NEW nodes, NEW known, NEW roots,
         <<"node", AppNode(app)>> \in known
  PROVE  /\ Fit(nodes, known, roots, LoadSteps(app, k))
         /\ \A n : <<"node", n>> \in Done(LoadSteps(app, k))
              <=> n = LoadNode(app, k) \/ \E t \in ToSet(app.loads[k].sql) : n = LoadedTable(t)
<1> DEFINE a == <<OneNode(LoadNode(app, k)), OneEdge(AppNode(app), "CONTAINS_TABLE", LoadNode(app, k))>>
           b == SqlSteps(app, k)
<1>0. LoadSteps(app, k) = a \o b
  BY DEF LoadSteps, SqlSteps
<1>1. Fit(nodes, known, roots, a) /\ \A n : <<"node", n>> \in Done(a) <=> n = LoadNode(app, k)
  <2>1. Writable(roots, LoadNode(app, k)) /\ PlainEnd(LoadNode(app, k)) /\ PlainEnd(AppNode(app))
    BY AppsNodesAre
  <2>2. Link("CONTAINS_TABLE")
    BY LinkTypesAre
  <2> QED BY <2>1, <2>2, FitNodeLink
<1> HIDE DEF a
<1>2. /\ Fit(nodes, known \cup Done(a), roots, b)
      /\ \A n : <<"node", n>> \in Done(b) <=> \E t \in ToSet(app.loads[k].sql) : n = LoadedTable(t)
  <2>1. <<"node", LoadNode(app, k)>> \in known \cup Done(a)
    BY <1>1
  <2> QED BY <2>1, SqlStepsFit
<1> HIDE DEF b
<1>3. Fit(nodes, known, roots, a \o b)
  BY <1>1, <1>2, FitJoin
<1>4. Done(a \o b) = Done(a) \cup Done(b)
  BY <1>1, <1>2, DoneJoin DEF Fit
<1> QED BY <1>0, <1>1, <1>2, <1>3, <1>4

AllLoadSteps(app) == FlattenSeq([k \in DOMAIN app.loads |-> LoadSteps(app, k)])

\* The statements for all LOADs.
LEMMA AllLoadStepsFit ==
  ASSUME NEW app, IsApp(app), NEW nodes, NEW known, NEW roots, <<"node", AppNode(app)>> \in known
  PROVE  /\ Fit(nodes, known, roots, AllLoadSteps(app))
         /\ \A n : <<"node", n>> \in Done(AllLoadSteps(app))
              <=> \E k \in DOMAIN app.loads :
                    n = LoadNode(app, k) \/ \E t \in ToSet(app.loads[k].sql) : n = LoadedTable(t)
<1> DEFINE items == app.loads
           ss == [k \in DOMAIN items |-> LoadSteps(app, k)]
<1>1. AllLoadSteps(app) = FlattenSeq(ss)
  BY DEF AllLoadSteps
<1>2. ASSUME NEW k \in DOMAIN items
      PROVE  /\ Fit(nodes, known, roots, LoadSteps(app, k))
             /\ \A n : <<"node", n>> \in Done(LoadSteps(app, k))
                  <=> n = LoadNode(app, k) \/ \E t \in ToSet(app.loads[k].sql) : n = LoadedTable(t)
  <2>1. IsSeq(app.loads[k].sql)
    BY DEF IsApp, ToSet
  <2> QED BY <2>1, LoadStepsFit
<1>3. Over(ss, items) /\ \A k \in DOMAIN items : ss[k] = LoadSteps(app, k)
  BY DEF Over
<1>4. IsSeq(items)
  BY DEF IsApp
<1>5. \A k \in DOMAIN items : Fit(nodes, known, roots, ss[k])
  BY <1>2, <1>3
<1> HIDE DEF ss
<1>6. /\ Fit(nodes, known, roots, FlattenSeq(ss))
      /\ \A x : x \in Done(FlattenSeq(ss)) <=> \E k \in DOMAIN items : x \in Done(ss[k])
  BY <1>3, <1>4, <1>5, EachFits
<1> QED BY <1>1, <1>2, <1>3, <1>6

\* An end that is matched by name has a load of that name in mind, or nothing.
LEMMA ByNameIs ==
  ASSUME NEW app, IsApp(app), NEW name
  PROVE  /\ MeantEnd(ByName(app, name)) /\ ~ PlainEnd(ByName(app, name)) /\ ByName(app, name).by = "name"
         /\ \/ Tag(Meant(ByName(app, name))) = "none"
            \/ \E k \in DOMAIN app.loads : Meant(ByName(app, name)) = LoadNode(app, k)
<1> DEFINE I == {i \in 1..Len(app.loads) : app.loads[i].name = name}
           k == SelectInSeq(app.loads, LAMBDA l : l.name = name)
           meant == IF k = 0 THEN Node("QlikTable", <<"none">>) ELSE LoadNode(app, k)
           end == ByName(app, name)
<1>1. end = Match("name", name, meant)
  BY DEF ByName
<1>2. k = IF I # {} THEN Min(I) ELSE 0
  BY DEF SelectInSeq
<1>3. IsSeq(app.loads) /\ Len(app.loads) \in Nat /\ DOMAIN app.loads = 1..Len(app.loads)
  BY SequenceIs DEF IsApp
<1>4. I # {} => Min(I) \in I
  <2> SUFFICES ASSUME I # {} PROVE Min(I) \in I
    OBVIOUS
  <2>1. I \subseteq Nat
    BY <1>3
  <2>2. PICK i \in I : \A j \in I : <<j, i>> \notin OpToRel(<, Nat)
    BY <2>1, NatLessThanWellFounded, WFMin
  <2>3. ASSUME NEW j \in I PROVE i <= j
    <3>1. i \in Nat /\ j \in Nat
      BY <2>1
    <3>2. ~ (j < i)
      BY <2>2, <3>1 DEF OpToRel
    <3> QED BY <3>1, <3>2
  <2> HIDE DEF I
  <2> QED BY <2>3 DEF Min
<1> HIDE DEF I, k
<1>5. CASE k = 0
  <2>1. meant = Node("QlikTable", <<"none">>) /\ Tag(meant) = "none"
    BY <1>5 DEF Tag, Node
  <2> HIDE DEF meant
  <2> QED BY <1>1, <2>1 DEF Match, MeantEnd, PlainEnd, Meant
<1>6. CASE k # 0
  <2>1. k \in DOMAIN app.loads /\ app.loads[k].name = name
    BY <1>2, <1>3, <1>4, <1>6 DEF I
  <2>2. meant = LoadNode(app, k) /\ meant.label = "QlikTable" /\ meant.id[4] = name
    BY <1>6, <2>1 DEF LoadNode, Node
  <2> HIDE DEF meant
  <2> QED BY <1>1, <2>1, <2>2 DEF Match, MeantEnd, PlainEnd, Meant
<1> QED BY <1>5, <1>6

\* The statements for the joins of an app, whose ends are matched by name.
LEMMA JoinStepsFit ==
  ASSUME NEW app, IsApp(app), NEW nodes, NEW known, NEW roots,
         \A n \in nodes : Tag(n) \notin {"none", "unknown"},
         \A k \in DOMAIN app.loads : <<"node", LoadNode(app, k)>> \in known
  PROVE  Fit(nodes, known, roots, JoinSteps(app)) /\ \A n : <<"node", n>> \notin Done(JoinSteps(app))
<1> DEFINE items == app.joins
           step(j) == <<OneEdge(ByName(app, j[1]), "JOINS_WITH", ByName(app, j[2]))>>
           ss == [i \in DOMAIN items |-> step(items[i])]
<1>1. JoinSteps(app) = FlattenSeq(ss)
  BY DEF JoinSteps, Each
<1>2. ASSUME NEW j
      PROVE  Fit(nodes, known, roots, step(j)) /\ \A n : <<"node", n>> \notin Done(step(j))
  <2> DEFINE from == ByName(app, j[1])
             to == ByName(app, j[2])
  <2>1. /\ MeantEnd(from) /\ ~ PlainEnd(from) /\ from.by = "name"
        /\ Tag(Meant(from)) = "none" \/ \E k \in DOMAIN app.loads : Meant(from) = LoadNode(app, k)
    BY ByNameIs
  <2>2. /\ MeantEnd(to) /\ ~ PlainEnd(to) /\ to.by = "name"
        /\ Tag(Meant(to)) = "none" \/ \E k \in DOMAIN app.loads : Meant(to) = LoadNode(app, k)
    BY ByNameIs
  <2>3. Link("JOINS_WITH")
    BY LinkTypesAre
  <2> HIDE DEF from, to
  <2>4. \A n \in {Meant(from), Meant(to)} \cap nodes : <<"node", n>> \in known
    BY <2>1, <2>2
  <2>5. AptRow(roots, Edge(from, "JOINS_WITH", to)) /\ Ready(nodes, known, Edge(from, "JOINS_WITH", to))
    BY <2>1, <2>2, <2>3, <2>4, LinkIs
  <2> QED BY <2>5, FitLink DEF from, to
<1>3. Over(ss, items) /\ \A i \in DOMAIN items : ss[i] = step(items[i])
  BY DEF Over
<1>4. IsSeq(items)
  BY DEF IsApp
<1> HIDE DEF items, step, ss
<1>5. \A i \in DOMAIN items : Fit(nodes, known, roots, ss[i])
  BY <1>2, <1>3
<1>6. /\ Fit(nodes, known, roots, FlattenSeq(ss))
      /\ \A x : x \in Done(FlattenSeq(ss)) <=> \E i \in DOMAIN items : x \in Done(ss[i])
  BY <1>3, <1>4, <1>5, EachFits
<1>7. \A n : <<"node", n>> \notin Done(FlattenSeq(ss))
  BY <1>2, <1>3, <1>6
<1> QED BY <1>1, <1>6, <1>7

PhysicalSteps(app) ==
  Each(app.sources, LAMBDA s :
    <<OneNode(PhysicalSource(s[1], s[2]))>>
      \o IF s[1] = "" THEN <<>>
         ELSE <<OneEdge(DataConnection(s[1]), "SOURCED_FROM", PhysicalSource(s[1], s[2]))>>)

\* The nodes of the physical sources, and their connections.
LEMMA PhysicalStepsFit ==
  ASSUME NEW app, IsApp(app), NEW nodes, NEW known, NEW roots,
         \A c : DataConnection(c) \in nodes => <<"node", DataConnection(c)>> \in known
  PROVE  /\ Fit(nodes, known, roots, PhysicalSteps(app))
         /\ \A n : <<"node", n>> \in Done(PhysicalSteps(app))
              <=> \E s \in ToSet(app.sources) : n = PhysicalSource(s[1], s[2])
<1> DEFINE items == app.sources
           step(s) == <<OneNode(PhysicalSource(s[1], s[2]))>>
                        \o IF s[1] = "" THEN <<>>
                           ELSE <<OneEdge(DataConnection(s[1]), "SOURCED_FROM", PhysicalSource(s[1], s[2]))>>
           ss == [i \in DOMAIN items |-> step(items[i])]
<1>1. PhysicalSteps(app) = FlattenSeq(ss)
  BY DEF PhysicalSteps, Each
<1>2. ASSUME NEW s
      PROVE  Fit(nodes, known, roots, step(s)) /\ \A n : <<"node", n>> \in Done(step(s)) <=> n = PhysicalSource(s[1], s[2])
  <2> DEFINE source == PhysicalSource(s[1], s[2])
             conn == DataConnection(s[1])
             a == <<OneNode(source)>>
             b == IF s[1] = "" THEN <<>> ELSE <<OneEdge(conn, "SOURCED_FROM", source)>>
             more == known \cup Done(a)
  <2>0. step(s) = a \o b
    OBVIOUS
  <2>1. /\ Writable(roots, source) /\ PlainEnd(source) /\ PlainEnd(conn)
        /\ conn \in nodes => <<"node", conn>> \in known
    BY AppsNodesAre
  <2>2. Link("SOURCED_FROM")
    BY LinkTypesAre
  <2> HIDE DEF source, conn
  <2>3. Fit(nodes, known, roots, a) /\ Done(a) = {<<"node", source>>}
    BY <2>1, FitNode DEF Writable
  <2> HIDE DEF a
  <2>4. \A n \in {conn, source} \cap nodes : <<"node", n>> \in more
    BY <2>1, <2>3
  <2> HIDE DEF more
  <2>5. Fit(nodes, more, roots, b) /\ \A n : <<"node", n>> \notin Done(b)
    <3>1. CASE s[1] = ""
      BY <3>1, FitNone
    <3>2. CASE s[1] # ""
      <4>1. /\ AptRow(roots, Edge(conn, "SOURCED_FROM", source))
            /\ Ready(nodes, more, Edge(conn, "SOURCED_FROM", source))
        BY <2>1, <2>2, <2>4, PlainLinkIs
      <4>2. b = <<OneEdge(conn, "SOURCED_FROM", source)>>
        BY <3>2
      <4> HIDE DEF b
      <4> QED BY <4>1, <4>2, FitLink
    <3> QED BY <3>1, <3>2
  <2> HIDE DEF b
  <2>6. Fit(nodes, known, roots, a \o b)
    BY <2>3, <2>5, FitJoin DEF more
  <2>7. Done(a \o b) = Done(a) \cup Done(b)
    BY <2>3, <2>5, DoneJoin DEF Fit
  <2>8. \A n : <<"node", n>> \in Done(a \o b) <=> n = source
    BY <2>3, <2>5, <2>7
  <2> HIDE DEF step
  <2> QED BY <2>0, <2>6, <2>8 DEF source
<1>3. Over(ss, items) /\ \A i \in DOMAIN items : ss[i] = step(items[i])
  BY DEF Over
<1>4. IsSeq(items)
  BY DEF IsApp
<1> HIDE DEF items, step, ss
<1>5. \A i \in DOMAIN items : Fit(nodes, known, roots, ss[i])
  BY <1>2, <1>3
<1>6. /\ Fit(nodes, known, roots, FlattenSeq(ss))
      /\ \A x : x \in Done(FlattenSeq(ss)) <=> \E i \in DOMAIN items : x \in Done(ss[i])
  BY <1>3, <1>4, <1>5, EachFits
<1>7. \A n : <<"node", n>> \in Done(FlattenSeq(ss)) <=> \E s \in ToSet(items) : n = PhysicalSource(s[1], s[2])
  <2>1. ASSUME NEW n, <<"node", n>> \in Done(FlattenSeq(ss)) PROVE \E s \in ToSet(items) : n = PhysicalSource(s[1], s[2])
    <3>1. PICK i \in DOMAIN items : <<"node", n>> \in Done(ss[i])
      BY <1>6, <2>1
    <3>2. items[i] \in ToSet(items)
      BY DEF ToSet
    <3> QED BY <1>2, <1>3, <3>1, <3>2
  <2>2. ASSUME NEW n, NEW s \in ToSet(items), n = PhysicalSource(s[1], s[2]) PROVE <<"node", n>> \in Done(FlattenSeq(ss))
    <3>1. PICK i \in DOMAIN items : s = items[i]
      BY DEF ToSet
    <3> QED BY <1>2, <1>3, <1>6, <2>2, <3>1
  <2> QED BY <2>1, <2>2
<1> QED BY <1>1, <1>6, <1>7 DEF items

\* The statements for the lineage of an app.
LEMMA LineageStepsFit ==
  ASSUME NEW app, IsApp(app), NEW nodes, NEW known, NEW roots, \A n \in nodes : <<"node", n>> \in known
  PROVE  Fit(nodes, known, roots, LineageSteps(app)) /\ \A n : <<"node", n>> \notin Done(LineageSteps(app))
<1> DEFINE items == app.lineage
           step(e) == <<EdgeRows({e})>>
           ss == [i \in DOMAIN items |-> step(items[i])]
<1>1. LineageSteps(app) = FlattenSeq(ss)
  BY DEF LineageSteps, Each
<1>2. ASSUME NEW e \in ToSet(items)
      PROVE  Fit(nodes, known, roots, step(e)) /\ \A n : <<"node", n>> \notin Done(step(e))
  <2>1. e = Edge(e.from, e.type, e.to) /\ PlainEnd(e.from) /\ PlainEnd(e.to) /\ e.type \in REL_ALLOWLIST
    BY DEF IsApp, IsLineage, Plain
  <2>2. Link(e.type)
    BY <2>1, LinkTypesAre
  <2>3. AptRow(roots, e) /\ Ready(nodes, known, e)
    <3>1. /\ AptRow(roots, Edge(e.from, e.type, e.to))
          /\ Ready(nodes, known, Edge(e.from, e.type, e.to))
      BY <2>1, <2>2, PlainLinkIs
    <3> QED BY <2>1, <3>1
  <2>4. Fit(nodes, known, roots, step(e)) /\ Done(step(e)) = {<<"edge", e>>}
    BY <2>3, FitRow
  <2>5. \A n : <<"node", n>> # <<"edge", e>>
    OBVIOUS
  <2> HIDE DEF step
  <2> QED BY <2>4, <2>5
<1>3. Over(ss, items) /\ \A i \in DOMAIN items : ss[i] = step(items[i])
  BY DEF Over
<1>4. IsSeq(items)
  BY DEF IsApp
<1> HIDE DEF items, step, ss
<1>5. \A i \in DOMAIN items : Fit(nodes, known, roots, ss[i])
  BY <1>2, <1>3 DEF ToSet
<1>6. /\ Fit(nodes, known, roots, FlattenSeq(ss))
      /\ \A x : x \in Done(FlattenSeq(ss)) <=> \E i \in DOMAIN items : x \in Done(ss[i])
  BY <1>3, <1>4, <1>5, EachFits
<1>7. \A n : <<"node", n>> \notin Done(FlattenSeq(ss))
  <2>1. \A i \in DOMAIN items : items[i] \in ToSet(items)
    BY DEF ToSet
  <2> QED BY <1>2, <1>3, <1>6, <2>1
<1> QED BY <1>1, <1>6, <1>7

\* The nodes of an app.
AppHas(app, n) ==
  \/ n = AppNode(app)
  \/ \E c \in ToSet(app.connections) : n = QlikConnection(c)
  \/ \E k \in DOMAIN app.loads : n = LoadNode(app, k) \/ \E t \in ToSet(app.loads[k].sql) : n = LoadedTable(t)
  \/ \E p \in ToSet(app.platforms) : n = Platform(p.kind) \/ \E c \in ToSet(p.conns) : n = DataConnection(c)
  \/ \E s \in ToSet(app.sources) : n = PhysicalSource(s[1], s[2])
  \/ \E d \in ToSet(app.datasets) :
       \/ n = Dataset(app, d.name)
       \/ \E f \in ToSet(d.fields) : n = Field(app, d.name, f)
       \/ \E k \in ToSet(d.keys) : n = KeyOf(app, d.name, k)
  \/ \E o \in ToSet(app.others) : n = Other(app, o[1], o[2])

AppTags == {"qlik_script", "qlik_connection", "qlik_table", "table", "platform", "source",
            "dataset", "field", "constraint", "other"}

\* What an app writes has the tags of no other kind of file.
LEMMA AppTagsAre ==
  ASSUME NEW app, NEW n, AppHas(app, n)
  PROVE  \/ Tag(n) \in AppTags
         \/ Tag(n) = "conn" /\ \E p \in ToSet(app.platforms) : \E c \in ToSet(p.conns) : n = DataConnection(c)
<1>1. /\ Tag(AppNode(app)) \in AppTags
      /\ \A c : Tag(QlikConnection(c)) \in AppTags
      /\ \A k : Tag(LoadNode(app, k)) \in AppTags
      /\ \A t : Tag(LoadedTable(t)) \in AppTags
      /\ \A k : Tag(Platform(k)) \in AppTags
      /\ \A c : Tag(DataConnection(c)) = "conn"
      /\ \A c, l : Tag(PhysicalSource(c, l)) \in AppTags
      /\ \A d : Tag(Dataset(app, d)) \in AppTags
      /\ \A d, f : Tag(Field(app, d, f)) \in AppTags
      /\ \A d, k : Tag(KeyOf(app, d, k)) \in AppTags
      /\ \A l, x : Tag(Other(app, l, x)) \in AppTags
  BY DEF Tag, Node, AppNode, QlikConnection, LoadNode, LoadedTable, TableNode, Platform, DataConnection,
         PhysicalSource, Dataset, Field, KeyOf, Other, AppTags
<1> QED BY <1>1 DEF AppHas

\* One sequence after another that it is fit to come after.
Then(a, b) == a \o b
After(known, a) == known \cup Done(a)

\* Two sequences that are fit one after the other, with what they leave told item by item.
LEMMA FitBoth ==
  ASSUME NEW nodes, NEW known, NEW roots, NEW a, Fit(nodes, known, roots, a),
         NEW b, Fit(nodes, After(known, a), roots, b)
  PROVE  /\ Fit(nodes, known, roots, Then(a, b))
         /\ \A x : x \in Done(Then(a, b)) <=> x \in Done(a) \/ x \in Done(b)
<1>1. Fit(nodes, known, roots, a \o b)
  BY FitJoin DEF After
<1>2. Done(a \o b) = Done(a) \cup Done(b)
  BY DoneJoin DEF Fit
<1> DEFINE c == a \o b
<1>3. Fit(nodes, known, roots, c) /\ \A x : x \in Done(c) <=> x \in Done(a) \/ x \in Done(b)
  <2>1. Fit(nodes, known, roots, c)
    BY <1>1
  <2>2. Done(c) = Done(a) \cup Done(b)
    BY <1>2
  <2> HIDE DEF c
  <2> QED BY <2>1, <2>2
<1>4. Then(a, b) = c
  BY DEF Then
<1> HIDE DEF c
<1> QED BY <1>3, <1>4

\* The statements for what an app reads from.
LEMMA SourceStepsFit ==
  ASSUME NEW app, IsApp(app), NEW nodes, \A n \in nodes : AppHas(app, n), NEW known, NEW roots
  PROVE  /\ Fit(nodes, known, roots, SourceSteps(app))
         /\ \A n : <<"node", n>> \in Done(SourceSteps(app))
              <=> \/ \E p \in ToSet(app.platforms) : n = Platform(p.kind) \/ \E c \in ToSet(p.conns) : n = DataConnection(c)
                  \/ \E s \in ToSet(app.sources) : n = PhysicalSource(s[1], s[2])
<1> DEFINE a == PlatformSteps(app)
           b == DataConnectionSteps(app)
           c == Then(a, b)
           d == PhysicalSteps(app)
           e == Then(c, d)
           knownA == After(known, a)
           knownC == After(known, c)
<1>0. SourceSteps(app) = e
  BY DEF Then, SourceSteps, PlatformSteps, DataConnectionSteps, ConnStepsOf, PhysicalSteps
<1>1. /\ Fit(nodes, known, roots, a)
      /\ \A n : <<"node", n>> \in Done(a) <=> \E p \in ToSet(app.platforms) : n = Platform(p.kind)
  BY PlatformStepsFit
<1> HIDE DEF a
<1>2. \A p \in ToSet(app.platforms) : <<"node", Platform(p.kind)>> \in knownA
  BY <1>1 DEF After
<1> HIDE DEF knownA
<1>3. /\ Fit(nodes, knownA, roots, b)
      /\ \A n : <<"node", n>> \in Done(b)
           <=> \E p \in ToSet(app.platforms) : \E k \in ToSet(p.conns) : n = DataConnection(k)
  BY <1>2, DataConnectionStepsFit
<1> HIDE DEF b
<1>4. Fit(nodes, known, roots, c) /\ \A x : x \in Done(c) <=> x \in Done(a) \/ x \in Done(b)
  <2>1. c = Then(a, b) /\ knownA = After(known, a)
    BY DEF knownA
  <2> HIDE DEF c
  <2> QED BY <1>1, <1>3, <2>1, FitBoth
<1> HIDE DEF c
<1>5. ASSUME NEW k, DataConnection(k) \in nodes PROVE <<"node", DataConnection(k)>> \in knownC
  <2>1. Tag(DataConnection(k)) = "conn"
    BY DEF Tag, DataConnection, Node
  <2>2. \E p \in ToSet(app.platforms) : \E l \in ToSet(p.conns) : DataConnection(k) = DataConnection(l)
    BY <1>5, <2>1, AppTagsAre DEF AppTags
  <2> QED BY <1>3, <1>4, <2>2 DEF After
<1> HIDE DEF knownC
<1>6. /\ Fit(nodes, knownC, roots, d)
      /\ \A n : <<"node", n>> \in Done(d) <=> \E s \in ToSet(app.sources) : n = PhysicalSource(s[1], s[2])
  BY <1>5, PhysicalStepsFit
<1> HIDE DEF d
<1>7. Fit(nodes, known, roots, e) /\ \A x : x \in Done(e) <=> x \in Done(c) \/ x \in Done(d)
  <2>1. e = Then(c, d) /\ knownC = After(known, c)
    BY DEF knownC
  <2> HIDE DEF e
  <2> QED BY <1>4, <1>6, <2>1, FitBoth
<1> HIDE DEF e
<1> QED BY <1>0, <1>1, <1>3, <1>4, <1>6, <1>7

\* The statements for the datasets of an app.
LEMMA DatasetStepsFit ==
  ASSUME NEW app, IsApp(app), NEW nodes, NEW known, <<"node", AppNode(app)>> \in known, NEW roots
  PROVE  /\ Fit(nodes, known, roots, DatasetSteps(app))
         /\ \A n : <<"node", n>> \in Done(DatasetSteps(app))
              <=> \E d \in ToSet(app.datasets) :
                    \/ n = Dataset(app, d.name)
                    \/ \E f \in ToSet(d.fields) : n = Field(app, d.name, f)
                    \/ \E k \in ToSet(d.keys) : n = KeyOf(app, d.name, k)
<1> DEFINE a == DatasetNodeSteps(app)
           b == FieldSteps(app)
           c == Then(a, b)
           d == KeySteps(app)
           e == Then(c, d)
           knownA == After(known, a)
           knownC == After(known, c)
<1>0. DatasetSteps(app) = e
  BY DEF Then, DatasetSteps, DatasetNodeSteps, FieldSteps, FieldStepsOf, KeySteps, KeyStepsOf
<1>1. /\ Fit(nodes, known, roots, a)
      /\ \A n : <<"node", n>> \in Done(a) <=> \E s \in ToSet(app.datasets) : n = Dataset(app, s.name)
  BY DatasetNodeStepsFit
<1> HIDE DEF a
<1>2. \A s \in ToSet(app.datasets) : <<"node", Dataset(app, s.name)>> \in knownA
  BY <1>1 DEF After
<1> HIDE DEF knownA
<1>3. /\ Fit(nodes, knownA, roots, b)
      /\ \A n : <<"node", n>> \in Done(b)
           <=> \E s \in ToSet(app.datasets) : \E f \in ToSet(s.fields) : n = Field(app, s.name, f)
  BY <1>2, AllFieldStepsFit
<1> HIDE DEF b
<1>4. Fit(nodes, known, roots, c) /\ \A x : x \in Done(c) <=> x \in Done(a) \/ x \in Done(b)
  <2>1. c = Then(a, b) /\ knownA = After(known, a)
    BY DEF knownA
  <2> HIDE DEF c
  <2> QED BY <1>1, <1>3, <2>1, FitBoth
<1> HIDE DEF c
<1>5. \A s \in ToSet(app.datasets) : <<"node", Dataset(app, s.name)>> \in knownC
  BY <1>1, <1>4 DEF After
<1> HIDE DEF knownC
<1>6. /\ Fit(nodes, knownC, roots, d)
      /\ \A n : <<"node", n>> \in Done(d)
           <=> \E s \in ToSet(app.datasets) : \E k \in ToSet(s.keys) : n = KeyOf(app, s.name, k)
  BY <1>5, AllKeyStepsFit
<1> HIDE DEF d
<1>7. Fit(nodes, known, roots, e) /\ \A x : x \in Done(e) <=> x \in Done(c) \/ x \in Done(d)
  <2>1. e = Then(c, d) /\ knownC = After(known, c)
    BY DEF knownC
  <2> HIDE DEF e
  <2> QED BY <1>4, <1>6, <2>1, FitBoth
<1> HIDE DEF e
<1> QED BY <1>0, <1>1, <1>3, <1>4, <1>6, <1>7

\* All statements of an app.
LEMMA AppStepsFit ==
  ASSUME NEW app, IsApp(app), NEW nodes, \A n \in nodes : AppHas(app, n), NEW roots
  PROVE  /\ Fit(nodes, {}, roots, AppSteps(app))
         /\ \A n : <<"node", n>> \in Done(AppSteps(app)) <=> AppHas(app, n)
<1> DEFINE a == AppNodeSteps(app)
           b == ConnectionSteps(app)
           c == AllLoadSteps(app)
           d == JoinSteps(app)
           e == SourceSteps(app)
           f == DatasetSteps(app)
           g == OtherSteps(app)
           h == LineageSteps(app)
           ab == Then(a, b)
           ac == Then(ab, c)
           ad == Then(ac, d)
           ae == Then(ad, e)
           af == Then(ae, f)
           ag == Then(af, g)
           ah == Then(ag, h)
           none == {}
           app1 == AppNode(app)
           knownA == After(none, a)
           knownB == After(none, ab)
           knownC == After(none, ac)
           knownD == After(none, ad)
           knownE == After(none, ae)
           knownF == After(none, af)
           knownG == After(none, ag)
<1>0. AppSteps(app) = ah
  BY DEF Then, AppSteps, AllLoadSteps
<1>1. \A n \in nodes : Tag(n) \notin {"none", "unknown"}
  BY AppTagsAre DEF AppTags
<1>2. Fit(nodes, none, roots, a) /\ \A n : <<"node", n>> \in Done(a) <=> n = app1
  BY <1>1, AppNodeStepsFit
<1>3. <<"node", app1>> \in knownA
  <2> HIDE DEF a, app1
  <2> QED BY <1>2 DEF After
<1>4. /\ Fit(nodes, knownA, roots, b)
      /\ \A n : <<"node", n>> \in Done(b) <=> \E k \in ToSet(app.connections) : n = QlikConnection(k)
  <2> HIDE DEF knownA
  <2> QED BY <1>3, ConnectionStepsFit
<1> HIDE DEF a, b, none
<1>5. Fit(nodes, none, roots, ab) /\ \A x : x \in Done(ab) <=> x \in Done(a) \/ x \in Done(b)
  <2>1. ab = Then(a, b) /\ knownA = After(none, a)
    OBVIOUS
  <2> HIDE DEF ab, knownA
  <2> QED BY <1>2, <1>4, <2>1, FitBoth
<1> HIDE DEF ab, knownA
<1>6. <<"node", app1>> \in knownB
  <2> HIDE DEF app1
  <2> QED BY <1>2, <1>5 DEF After
<1>7. /\ Fit(nodes, knownB, roots, c)
      /\ \A n : <<"node", n>> \in Done(c)
           <=> \E k \in DOMAIN app.loads :
                 n = LoadNode(app, k) \/ \E t \in ToSet(app.loads[k].sql) : n = LoadedTable(t)
  <2> HIDE DEF knownB
  <2> QED BY <1>6, AllLoadStepsFit
<1> HIDE DEF c
<1>8. Fit(nodes, none, roots, ac) /\ \A x : x \in Done(ac) <=> x \in Done(ab) \/ x \in Done(c)
  <2>1. ac = Then(ab, c) /\ knownB = After(none, ab)
    OBVIOUS
  <2> HIDE DEF ac, knownB
  <2> QED BY <1>5, <1>7, <2>1, FitBoth
<1> HIDE DEF ac, knownB
<1>9. \A k \in DOMAIN app.loads : <<"node", LoadNode(app, k)>> \in knownC
  BY <1>7, <1>8 DEF After
<1>10. Fit(nodes, knownC, roots, d) /\ \A n : <<"node", n>> \notin Done(d)
  <2> HIDE DEF knownC
  <2> QED BY <1>1, <1>9, JoinStepsFit
<1> HIDE DEF d
<1>11. Fit(nodes, none, roots, ad) /\ \A x : x \in Done(ad) <=> x \in Done(ac) \/ x \in Done(d)
  <2>1. ad = Then(ac, d) /\ knownC = After(none, ac)
    OBVIOUS
  <2> HIDE DEF ad, knownC
  <2> QED BY <1>8, <1>10, <2>1, FitBoth
<1> HIDE DEF ad, knownC
<1>12. /\ Fit(nodes, knownD, roots, e)
       /\ \A n : <<"node", n>> \in Done(e)
            <=> \/ \E p \in ToSet(app.platforms) : n = Platform(p.kind) \/ \E k \in ToSet(p.conns) : n = DataConnection(k)
                \/ \E s \in ToSet(app.sources) : n = PhysicalSource(s[1], s[2])
  <2> HIDE DEF knownD
  <2> QED BY SourceStepsFit
<1> HIDE DEF e
<1>13. Fit(nodes, none, roots, ae) /\ \A x : x \in Done(ae) <=> x \in Done(ad) \/ x \in Done(e)
  <2>1. ae = Then(ad, e) /\ knownD = After(none, ad)
    OBVIOUS
  <2> HIDE DEF ae, knownD
  <2> QED BY <1>11, <1>12, <2>1, FitBoth
<1> HIDE DEF ae, knownD
<1>14. <<"node", app1>> \in knownE
  <2> HIDE DEF app1
  <2> QED BY <1>2, <1>5, <1>8, <1>11, <1>13 DEF After
<1>15. /\ Fit(nodes, knownE, roots, f)
       /\ \A n : <<"node", n>> \in Done(f)
            <=> \E s \in ToSet(app.datasets) :
                  \/ n = Dataset(app, s.name)
                  \/ \E t \in ToSet(s.fields) : n = Field(app, s.name, t)
                  \/ \E k \in ToSet(s.keys) : n = KeyOf(app, s.name, k)
  <2> HIDE DEF knownE
  <2> QED BY <1>14, DatasetStepsFit
<1> HIDE DEF f
<1>16. Fit(nodes, none, roots, af) /\ \A x : x \in Done(af) <=> x \in Done(ae) \/ x \in Done(f)
  <2>1. af = Then(ae, f) /\ knownE = After(none, ae)
    OBVIOUS
  <2> HIDE DEF af, knownE
  <2> QED BY <1>13, <1>15, <2>1, FitBoth
<1> HIDE DEF af, knownE
<1>17. /\ Fit(nodes, knownF, roots, g)
       /\ \A n : <<"node", n>> \in Done(g) <=> \E o \in ToSet(app.others) : n = Other(app, o[1], o[2])
  <2> HIDE DEF knownF
  <2> QED BY OtherStepsFit
<1> HIDE DEF g
<1>18. Fit(nodes, none, roots, ag) /\ \A x : x \in Done(ag) <=> x \in Done(af) \/ x \in Done(g)
  <2>1. ag = Then(af, g) /\ knownF = After(none, af)
    OBVIOUS
  <2> HIDE DEF ag, knownF
  <2> QED BY <1>16, <1>17, <2>1, FitBoth
<1> HIDE DEF ag, knownF
<1>19. \A n : <<"node", n>> \in Done(ag) <=> AppHas(app, n)
  BY <1>2, <1>4, <1>5, <1>7, <1>8, <1>10, <1>11, <1>12, <1>13, <1>15, <1>16, <1>17, <1>18 DEF AppHas
<1>20. \A n \in nodes : <<"node", n>> \in knownG
  BY <1>19 DEF After
<1>21. Fit(nodes, knownG, roots, h) /\ \A n : <<"node", n>> \notin Done(h)
  <2> HIDE DEF knownG
  <2> QED BY <1>20, LineageStepsFit
<1> HIDE DEF h
<1>22. Fit(nodes, none, roots, ah) /\ \A x : x \in Done(ah) <=> x \in Done(ag) \/ x \in Done(h)
  <2>1. ah = Then(ag, h) /\ knownG = After(none, ag)
    OBVIOUS
  <2> HIDE DEF ah, knownG
  <2> QED BY <1>18, <1>21, <2>1, FitBoth
<1> HIDE DEF ah
<1> QED BY <1>0, <1>19, <1>21, <1>22 DEF none

\* The nodes a plan has are those its statements leave.
LEMMA WrittenAre ==
  ASSUME NEW s
  PROVE  \A n : n \in WrittenBy(s) <=> <<"node", n>> \in Done(s)
<1>1. ASSUME NEW n, n \in WrittenBy(s) PROVE <<"node", n>> \in Done(s)
  <2>1. CASE n \in NodesOf(s)
    <3>1. PICK i \in DOMAIN s : s[i].op = "nodes" /\ n \in s[i].rows
      BY <2>1 DEF NodesOf
    <3>2. n \in NodesAt(s[i])
      BY <3>1 DEF NodesAt
    <3> QED BY <3>2 DEF Done, Things, ToSet
  <2>2. CASE n \in {x.table : x \in TablesOf(s)}
    <3>1. PICK i \in DOMAIN s : s[i].op = "tables" /\ n \in {x.table : x \in s[i].rows}
      BY <2>2 DEF TablesOf
    <3>2. n \in NodesAt(s[i])
      BY <3>1 DEF NodesAt
    <3> QED BY <3>2 DEF Done, Things, ToSet
  <2> QED BY <1>1, <2>1, <2>2 DEF WrittenBy
<1>2. ASSUME NEW n, <<"node", n>> \in Done(s) PROVE n \in WrittenBy(s)
  <2>1. PICK i \in DOMAIN s : <<"node", n>> \in Things(s[i])
    BY <1>2 DEF Done, ToSet
  <2>2. n \in NodesAt(s[i])
    BY <2>1 DEF Things
  <2>3. CASE s[i].op = "nodes"
    BY <2>2, <2>3 DEF NodesAt, WrittenBy, NodesOf
  <2>4. CASE s[i].op # "nodes"
    <3>1. s[i].op = "tables" /\ n \in {x.table : x \in s[i].rows}
      BY <2>2, <2>4 DEF NodesAt
    <3> QED BY <3>1 DEF WrittenBy, TablesOf
  <2> QED BY <2>3, <2>4
<1> QED BY <1>1, <1>2

\* The plan of an app.
THEOREM AppPlanned ==
  ASSUME NEW app, IsApp(app)
  PROVE  FilePlan(AppPlan(app))
<1> DEFINE steps == AppSteps(app)
           roots == {AppNode(app)}
           p == AppPlan(app)
<1>1. p = Plan(roots, steps, GiveUp(steps), {})
  BY DEF AppPlan
<1>2. \A n : <<"node", n>> \in Done(steps) <=> AppHas(app, n)
  <2> DEFINE nodes == {}
  <2>1. \A n \in nodes : AppHas(app, n)
    OBVIOUS
  <2> HIDE DEF nodes
  <2>2. Fit(nodes, {}, roots, steps) /\ \A n : <<"node", n>> \in Done(steps) <=> AppHas(app, n)
    BY <2>1, AppStepsFit
  <2> QED BY <2>2
<1>3. p.nodes = WrittenBy(steps) /\ p.steps = steps /\ p.roots = roots /\ p.owns = {}
  BY <1>1 DEF Plan
<1>4. \A n \in p.nodes : AppHas(app, n)
  <2> HIDE DEF steps, p
  <2> QED BY <1>2, <1>3, WrittenAre
<1>5. Fit(p.nodes, {}, roots, steps)
  <2> HIDE DEF p, roots
  <2> QED BY <1>4, AppStepsFit
<1>6. AppNode(app).label = "QlikScript"
  BY DEF AppNode, Node
<1> HIDE DEF steps, p
<1>7. \A i \in DOMAIN steps : Apt(roots, steps[i]) /\ Allowed({}, steps[i])
  BY <1>5, SequenceIs DEF Fit
<1> HIDE DEF roots
<1>8. \A root \in roots : root.label = "QlikScript"
  BY <1>6 DEF roots
<1>9. \A i \in DOMAIN steps : steps[i].op # "delete"
  BY <1>7 DEF Allowed
<1>10. FreshFirst(p)
  BY <1>3, <1>9 DEF FreshFirst
<1>11. OwnsHomed(p)
  BY <1>3 DEF OwnsHomed
<1>12. FieldsHaveTables(p)
  <2> SUFFICES ASSUME NEW e \in RowsOf(p), e.type = "HAS_FIELD" PROVE FALSE
    BY DEF FieldsHaveTables
  <2>1. PICK i \in DOMAIN steps : e \in EdgesAt(steps[i])
    BY <1>3 DEF RowsOf
  <2>2. AptRow(roots, e)
    BY <1>7, <2>1 DEF Apt
  <2>3. Home(e.from) \in roots
    BY <2>2, HopTypesAre DEF AptRow
  <2>4. Home(e.from).label # "QlikScript"
    BY DEF Home, Node
  <2> QED BY <1>8, <2>3, <2>4
<1>13. Fit(p.nodes, {<<"delete", root>> : root \in roots}, roots, steps)
  BY <1>5, FitMore
<1>14. FilePlan(p)
  BY <1>1, <1>10, <1>11, <1>12, <1>13, FitPlan
<1> QED BY <1>14 DEF p

-----------------------------------------------------------------------------
\* The plan of a script.

\* The nodes of a script, and what it shares with others.
LEMMA ScriptsNodesAre ==
  ASSUME NEW script, NEW roots, ScriptNode(script) \in roots
  PROVE  /\ AptNode(roots, ScriptNode(script)) /\ ScriptNode(script).label \notin {"Table", "?"}
         /\ Tag(ScriptNode(script)) = "spark" /\ IsHome(ScriptNode(script))
         /\ \A i : /\ AptNode(roots, FrameNode(script, i)) /\ FrameNode(script, i).label \notin {"Table", "?"}
                   /\ Tag(FrameNode(script, i)) = "dataframe" /\ Home(FrameNode(script, i)) = ScriptNode(script)
         /\ \A i, c : /\ AptNode(roots, AttributeNode(script, i, c))
                      /\ AttributeNode(script, i, c).label \notin {"Table", "?"}
                      /\ Tag(AttributeNode(script, i, c)) = "attribute"
                      /\ Home(AttributeNode(script, i, c)) = ScriptNode(script)
<1>1. /\ ScriptNode(script) = Node("SparkScript", <<"spark", script.path>>)
      /\ ScriptNode(script).label = "SparkScript" /\ Tag(ScriptNode(script)) = "spark"
      /\ Home(ScriptNode(script)) = ScriptNode(script)
  BY DEF ScriptNode, Node, Tag, Home, ScriptTags
<1>2. ASSUME NEW i
      PROVE  /\ FrameNode(script, i).label = "DataFrame" /\ Tag(FrameNode(script, i)) = "dataframe"
             /\ Home(FrameNode(script, i)) = ScriptNode(script)
  BY DEF FrameNode, ScriptNode, Node, Tag, Home, ScriptTags
<1>3. ASSUME NEW i, NEW c
      PROVE  /\ AttributeNode(script, i, c).label = "Attribute" /\ Tag(AttributeNode(script, i, c)) = "attribute"
             /\ Home(AttributeNode(script, i, c)) = ScriptNode(script)
  BY DEF AttributeNode, ScriptNode, Node, Tag, Home, ScriptTags
<1>4. ASSUME NEW n, Tag(n) \in ScriptTags, Home(n) = ScriptNode(script) PROVE AptNode(roots, n)
  BY <1>4 DEF AptNode, ScriptTags
<1> QED BY <1>1, <1>2, <1>3, <1>4 DEF ScriptTags, IsHome

\* The nodes that files of different kinds share.
LEMMA SharedNodesAre ==
  ASSUME NEW roots
  PROVE  /\ \A t : /\ AptNode(roots, SpeltTable(t)) /\ SpeltTable(t).label = "Table"
                   /\ Tag(SpeltTable(t)) = "table"
         /\ \A c : Writable(roots, ConnectionNode(c)) /\ PlainEnd(ConnectionNode(c)) /\ Tag(ConnectionNode(c)) = "connection"
         /\ \A script, u : Writable(roots, UdfNode(script, u)) /\ Tag(UdfNode(script, u)) = "udf"
         /\ \A t : /\ MeantEnd(ById(t)) /\ ~ PlainEnd(ById(t)) /\ Meant(ById(t)) = SpeltTable(t)
                   /\ ById(t).by = "id" /\ ById(t).meant = SpeltTable(t) /\ ById(t).key = SpeltId(t)
<1>1. \A t : AptNode(roots, SpeltTable(t)) /\ SpeltTable(t).label = "Table" /\ Tag(SpeltTable(t)) = "table"
  BY DEF SpeltTable, TableNode, Node, AptNode, Homed, Tag, BookTags, ScriptTags
<1>2. \A c : Writable(roots, ConnectionNode(c)) /\ PlainEnd(ConnectionNode(c)) /\ Tag(ConnectionNode(c)) = "connection"
  BY DEF Writable, AptNode, Homed, PlainEnd, ConnectionNode, Node, Tag, BookTags, ScriptTags
<1>3. \A script, u : Writable(roots, UdfNode(script, u)) /\ Tag(UdfNode(script, u)) = "udf"
  BY DEF Writable, AptNode, Homed, UdfNode, Node, Tag, BookTags, ScriptTags
<1>4. ASSUME NEW t
      PROVE  /\ MeantEnd(ById(t)) /\ ~ PlainEnd(ById(t)) /\ Meant(ById(t)) = SpeltTable(t)
             /\ ById(t).by = "id" /\ ById(t).meant = SpeltTable(t) /\ ById(t).key = SpeltId(t)
  BY <1>1 DEF ById, TableWithId, Match, MeantEnd, PlainEnd, Meant
<1> QED BY <1>1, <1>2, <1>3, <1>4

\* A table is there, with its id, and the connection it is read through.
Merged(t, known) ==
  /\ <<"node", SpeltTable(t)>> \in known
  /\ <<"id", [table |-> SpeltTable(t), id |-> SpeltId(t)]>> \in known
  /\ t.conn # "" => <<"node", ConnectionNode(t.conn)>> \in known
SharedTags == {"table", "connection"}

\* An edge between a table matched by its id and a node that is there.
LEMMA TableLinkIs ==
  ASSUME NEW t, NEW known, Merged(t, known), NEW n, PlainEnd(n), <<"node", n>> \in known,
         NEW type, Link(type), NEW roots, NEW nodes
  PROVE  /\ AptRow(roots, Edge(ById(t), type, n)) /\ Ready(nodes, known, Edge(ById(t), type, n))
         /\ AptRow(roots, Edge(n, type, ById(t))) /\ Ready(nodes, known, Edge(n, type, ById(t)))
<1> DEFINE end == ById(t)
<1>1. /\ MeantEnd(end) /\ ~ PlainEnd(end) /\ Meant(end) = SpeltTable(t)
      /\ end.by = "id" /\ end.meant = SpeltTable(t) /\ end.key = SpeltId(t)
  BY SharedNodesAre
<1>2. Meant(n) = n /\ MeantEnd(n)
  BY DEF PlainEnd, Meant, MeantEnd
<1> HIDE DEF end
<1>3. /\ \A m \in {Meant(end), Meant(n)} \cap nodes : <<"node", m>> \in known
      /\ \A x \in {end, n} : ~ PlainEnd(x) /\ x.by = "id" => <<"id", [table |-> x.meant, id |-> x.key]>> \in known
  BY <1>1, <1>2 DEF Merged
<1>4. AptRow(roots, Edge(end, type, n)) /\ Ready(nodes, known, Edge(end, type, n))
  BY <1>1, <1>2, <1>3, LinkIs
<1>5. AptRow(roots, Edge(n, type, end)) /\ Ready(nodes, known, Edge(n, type, end))
  BY <1>1, <1>2, <1>3, LinkIs
<1> QED BY <1>4, <1>5 DEF end

\* The edge types of the Spark writer that no delete follows.
LEMMA SparkTypesAre ==
  \A type \in {"CONNECTS_VIA", "READS_TABLE", "PROVIDES_DATAFRAME", "WRITES_TABLE", "WRITES_TO_CONNECTION",
              "DERIVES_FROM_DATAFRAME", "DERIVES_FROM", "CONTAINS_SCRIPT", "IMPORTS"} : Link(type)
BY HopTypesAre DEF Link

\* MERGE of a table of a script, with its connection.
LEMMA MergeTableFit ==
  ASSUME NEW t, NEW nodes, NEW known, NEW roots
  PROVE  /\ Fit(nodes, known, roots, MergeTable(t))
         /\ Merged(t, Done(MergeTable(t)))
         /\ \A n : <<"node", n>> \in Done(MergeTable(t)) => Tag(n) \in SharedTags
<1> DEFINE a == <<OneTable(SpeltTable(t), SpeltId(t))>>
           conn == ConnectionNode(t.conn)
           b == IF t.conn = "" THEN <<>>
                ELSE <<OneNode(conn), OneEdge(ById(t), "CONNECTS_VIA", conn)>>
           c == Then(a, b)
           more == After(known, a)
<1>0. MergeTable(t) = c
  BY DEF MergeTable, Then
<1>1. /\ Fit(nodes, known, roots, a)
      /\ Done(a) = {<<"node", SpeltTable(t)>>, <<"id", [table |-> SpeltTable(t), id |-> SpeltId(t)]>>}
  BY SharedNodesAre, FitTable
<1> HIDE DEF a
<1>2. /\ <<"node", SpeltTable(t)>> \in Done(a) /\ <<"id", [table |-> SpeltTable(t), id |-> SpeltId(t)]>> \in Done(a)
      /\ \A n : <<"node", n>> \in Done(a) => n = SpeltTable(t)
  BY <1>1
<1>3. /\ Fit(nodes, more, roots, b) /\ (t.conn # "" => <<"node", conn>> \in Done(b))
      /\ \A n : <<"node", n>> \in Done(b) => n = conn
  <2>1. CASE t.conn = ""
    <3> HIDE DEF more
    <3> QED BY <2>1, FitNone
  <2>2. CASE t.conn # ""
    <3> DEFINE most == more \cup {<<"node", conn>>}
    <3>1. Merged(t, most) /\ <<"node", conn>> \in most
      BY <1>2 DEF Merged, After
    <3>2. Writable(roots, conn) /\ PlainEnd(conn)
      BY SharedNodesAre
    <3>3. Link("CONNECTS_VIA")
      BY SparkTypesAre
    <3> HIDE DEF more, most, conn
    <3>4. AptRow(roots, Edge(ById(t), "CONNECTS_VIA", conn)) /\ Ready(nodes, most, Edge(ById(t), "CONNECTS_VIA", conn))
      BY <3>1, <3>2, <3>3, TableLinkIs
    <3>5. AptNode(roots, conn) /\ conn.label # "Table"
      BY <3>2 DEF Writable
    <3>6. Ready(nodes, more \cup {<<"node", conn>>}, Edge(ById(t), "CONNECTS_VIA", conn))
      BY <3>4 DEF most
    <3> DEFINE s == <<OneNode(conn), OneEdge(ById(t), "CONNECTS_VIA", conn)>>
    <3>7. /\ Fit(nodes, more, roots, s)
          /\ Done(s) = {<<"node", conn>>, <<"edge", Edge(ById(t), "CONNECTS_VIA", conn)>>}
      BY <3>4, <3>5, <3>6, FitNodeEdge
    <3>8. b = s
      BY <2>2
    <3> HIDE DEF b, s
    <3> QED BY <3>7, <3>8
  <2> HIDE DEF b, more, conn
  <2> QED BY <2>1, <2>2
<1> HIDE DEF b
<1>4. Fit(nodes, known, roots, c) /\ \A x : x \in Done(c) <=> x \in Done(a) \/ x \in Done(b)
  <2> HIDE DEF conn
  <2> QED BY <1>1, <1>3, FitBoth
<1> HIDE DEF c
<1>5. Tag(SpeltTable(t)) \in SharedTags /\ Tag(conn) \in SharedTags
  BY SharedNodesAre DEF SharedTags
<1>6. Merged(t, Done(c))
  BY <1>2, <1>3, <1>4 DEF Merged
<1>7. \A n : <<"node", n>> \in Done(c) => Tag(n) \in SharedTags
  <2> HIDE DEF conn
  <2> QED BY <1>2, <1>3, <1>4, <1>5
<1> QED BY <1>0, <1>4, <1>6, <1>7

\* The statements for one table a DataFrame reads.
LEMMA ReadStepsFit ==
  ASSUME NEW frame, PlainEnd(frame), NEW t, NEW nodes, NEW known, <<"node", frame>> \in known, NEW roots
  PROVE  /\ Fit(nodes, known, roots, ReadSteps(frame, t))
         /\ \A n : <<"node", n>> \in Done(ReadSteps(frame, t)) => Tag(n) \in SharedTags
<1> DEFINE a == MergeTable(t)
           b == <<OneEdge(frame, "READS_TABLE", ById(t))>>
           c == Then(a, b)
           conn == ConnectionNode(t.conn)
           d == IF t.conn = "" THEN <<>> ELSE <<OneEdge(conn, "PROVIDES_DATAFRAME", frame)>>
           e == Then(c, d)
           knownA == After(known, a)
           knownC == After(known, c)
<1>0. ReadSteps(frame, t) = e
  BY DEF ReadSteps, Then
<1>1. /\ Fit(nodes, known, roots, a) /\ Merged(t, Done(a))
      /\ \A n : <<"node", n>> \in Done(a) => Tag(n) \in SharedTags
  BY MergeTableFit
<1> HIDE DEF a
<1>2. Merged(t, knownA) /\ <<"node", frame>> \in knownA
  BY <1>1 DEF Merged, After
<1>3. Fit(nodes, knownA, roots, b) /\ \A n : <<"node", n>> \notin Done(b)
  <2>1. Link("READS_TABLE")
    BY SparkTypesAre
  <2> HIDE DEF knownA
  <2>2. AptRow(roots, Edge(frame, "READS_TABLE", ById(t))) /\ Ready(nodes, knownA, Edge(frame, "READS_TABLE", ById(t)))
    BY <1>2, <2>1, TableLinkIs
  <2> QED BY <2>2, FitLink
<1> HIDE DEF b
<1>4. Fit(nodes, known, roots, c) /\ \A x : x \in Done(c) <=> x \in Done(a) \/ x \in Done(b)
  BY <1>1, <1>3, FitBoth
<1> HIDE DEF c
<1>5. Merged(t, knownC) /\ <<"node", frame>> \in knownC
  BY <1>1, <1>4 DEF Merged, After
<1>6. Fit(nodes, knownC, roots, d) /\ \A n : <<"node", n>> \notin Done(d)
  <2> HIDE DEF knownC
  <2>1. CASE t.conn = ""
    BY <2>1, FitNone
  <2>2. CASE t.conn # ""
    <3>1. Link("PROVIDES_DATAFRAME") /\ PlainEnd(conn)
      BY SparkTypesAre, SharedNodesAre
    <3>2. <<"node", conn>> \in knownC
      BY <1>5, <2>2 DEF Merged
    <3>3. d = <<OneEdge(conn, "PROVIDES_DATAFRAME", frame)>>
      BY <2>2
    <3> HIDE DEF conn, d
    <3>4. AptRow(roots, Edge(conn, "PROVIDES_DATAFRAME", frame)) /\ Ready(nodes, knownC, Edge(conn, "PROVIDES_DATAFRAME", frame))
      BY <1>5, <3>1, <3>2, PlainLinkIs
    <3> QED BY <3>3, <3>4, FitLink
  <2> QED BY <2>1, <2>2
<1> HIDE DEF d
<1>7. Fit(nodes, known, roots, e) /\ \A x : x \in Done(e) <=> x \in Done(c) \/ x \in Done(d)
  BY <1>4, <1>6, FitBoth
<1> HIDE DEF e
<1> QED BY <1>0, <1>1, <1>3, <1>4, <1>6, <1>7

\* The columns of a table that is written, each linked to the fields of the DataFrame.
WrittenColumns(script, i, t) ==
  Each(script.frames[i].fields,
       LAMBDA c : <<OneEdge(ById(t), "HAS_COLUMN", AttributeNode(script, i, c))>>)

\* The columns of a table a DataFrame writes.
LEMMA WrittenColumnsFit ==
  ASSUME NEW script, NEW i, IsSeq(script.frames[i].fields), NEW t, NEW nodes,
         NEW known, Merged(t, known), NEW roots, ScriptNode(script) \in roots,
         \A c \in ToSet(script.frames[i].fields) : <<"node", AttributeNode(script, i, c)>> \in known
  PROVE  /\ Fit(nodes, known, roots, WrittenColumns(script, i, t))
         /\ \A n : <<"node", n>> \notin Done(WrittenColumns(script, i, t))
<1> DEFINE items == script.frames[i].fields
           step(c) == <<OneEdge(ById(t), "HAS_COLUMN", AttributeNode(script, i, c))>>
           ss == [j \in DOMAIN items |-> step(items[j])]
<1>1. WrittenColumns(script, i, t) = FlattenSeq(ss)
  BY DEF WrittenColumns, Each
<1>2. ASSUME NEW c \in ToSet(items)
      PROVE  Fit(nodes, known, roots, step(c)) /\ \A n : <<"node", n>> \notin Done(step(c))
  <2> DEFINE end == ById(t)
             to == AttributeNode(script, i, c)
             e == Edge(end, "HAS_COLUMN", to)
  <2>1. /\ MeantEnd(end) /\ ~ PlainEnd(end) /\ Meant(end) = SpeltTable(t)
        /\ end.by = "id" /\ end.meant = SpeltTable(t) /\ end.key = SpeltId(t)
    BY SharedNodesAre
  <2>2. /\ to.label # "?" /\ Tag(to) = "attribute" /\ <<"node", to>> \in known
    BY ScriptsNodesAre
  <2> HIDE DEF end, to
  <2>3. e.from = end /\ e.type = "HAS_COLUMN" /\ e.to = to /\ e = Edge(e.from, e.type, e.to)
    BY DEF Edge
  <2> HIDE DEF e
  <2>4. "HAS_COLUMN" \notin HopTypes /\ "HAS_COLUMN" \notin SecondTypes
    BY HopTypesAre DEF SecondTypes
  <2>5. PlainEnd(to) /\ Meant(to) = to /\ MeantEnd(to)
    BY <2>2 DEF PlainEnd, Meant, MeantEnd
  <2>6. AptRow(roots, e)
    BY <2>1, <2>2, <2>3, <2>4, <2>5 DEF AptRow, Plain
  <2>7. Ends(e) = {SpeltTable(t), to}
    BY <2>1, <2>3, <2>5 DEF Ends
  <2>8. Ready(nodes, known, e)
    BY <2>1, <2>2, <2>3, <2>4, <2>5, <2>7 DEF Ready, Merged
  <2>9. AptRow(roots, Edge(end, "HAS_COLUMN", to)) /\ Ready(nodes, known, Edge(end, "HAS_COLUMN", to))
    BY <2>6, <2>8 DEF e
  <2> QED BY <2>9, FitLink DEF end, to
<1>3. Over(ss, items) /\ \A j \in DOMAIN items : ss[j] = step(items[j])
  BY DEF Over
<1>4. IsSeq(items)
  OBVIOUS
<1> HIDE DEF items, step, ss
<1>5. \A j \in DOMAIN items : Fit(nodes, known, roots, ss[j])
  BY <1>2, <1>3 DEF ToSet
<1>6. /\ Fit(nodes, known, roots, FlattenSeq(ss))
      /\ \A x : x \in Done(FlattenSeq(ss)) <=> \E j \in DOMAIN items : x \in Done(ss[j])
  BY <1>3, <1>4, <1>5, EachFits
<1>7. \A n : <<"node", n>> \notin Done(FlattenSeq(ss))
  <2>1. \A j \in DOMAIN items : items[j] \in ToSet(items)
    BY DEF ToSet
  <2> QED BY <1>2, <1>3, <1>6, <2>1
<1> QED BY <1>1, <1>6, <1>7

\* The statements for one table a DataFrame writes.
LEMMA WriteStepsFit ==
  ASSUME NEW script, NEW i, IsSeq(script.frames[i].fields), NEW t, NEW nodes, NEW known,
         NEW roots, ScriptNode(script) \in roots, <<"node", FrameNode(script, i)>> \in known,
         \A c \in ToSet(script.frames[i].fields) : <<"node", AttributeNode(script, i, c)>> \in known
  PROVE  /\ Fit(nodes, known, roots, WriteSteps(script, i, t))
         /\ \A n : <<"node", n>> \in Done(WriteSteps(script, i, t)) => Tag(n) \in SharedTags
<1> DEFINE frame == FrameNode(script, i)
           a == MergeTable(t)
           b == <<OneEdge(frame, "WRITES_TABLE", ById(t))>>
           c == Then(a, b)
           conn == ConnectionNode(t.conn)
           d == IF t.conn = "" THEN <<>> ELSE <<OneEdge(frame, "WRITES_TO_CONNECTION", conn)>>
           e == Then(c, d)
           f == WrittenColumns(script, i, t)
           g == Then(e, f)
           knownA == After(known, a)
           knownC == After(known, c)
           knownE == After(known, e)
<1>0. WriteSteps(script, i, t) = g
  BY DEF WriteSteps, WrittenColumns, Then
<1>01. PlainEnd(frame) /\ <<"node", frame>> \in known
  BY ScriptsNodesAre DEF PlainEnd
<1>02. \A k \in ToSet(script.frames[i].fields) : <<"node", AttributeNode(script, i, k)>> \in knownE
  BY DEF After
<1> HIDE DEF frame
<1>1. /\ Fit(nodes, known, roots, a) /\ Merged(t, Done(a))
      /\ \A n : <<"node", n>> \in Done(a) => Tag(n) \in SharedTags
  BY MergeTableFit
<1> HIDE DEF a
<1>2. Merged(t, knownA) /\ <<"node", frame>> \in knownA
  BY <1>01, <1>1 DEF Merged, After
<1>3. Fit(nodes, knownA, roots, b) /\ \A n : <<"node", n>> \notin Done(b)
  <2>1. Link("WRITES_TABLE")
    BY SparkTypesAre
  <2> HIDE DEF knownA
  <2>2. AptRow(roots, Edge(frame, "WRITES_TABLE", ById(t))) /\ Ready(nodes, knownA, Edge(frame, "WRITES_TABLE", ById(t)))
    BY <1>01, <1>2, <2>1, TableLinkIs
  <2> QED BY <2>2, FitLink
<1> HIDE DEF b
<1>4. Fit(nodes, known, roots, c) /\ \A x : x \in Done(c) <=> x \in Done(a) \/ x \in Done(b)
  BY <1>1, <1>3, FitBoth
<1>5. Merged(t, knownC) /\ <<"node", frame>> \in knownC
  <2> HIDE DEF c
  <2> QED BY <1>01, <1>1, <1>4 DEF Merged, After
<1>6. Fit(nodes, knownC, roots, d) /\ \A n : <<"node", n>> \notin Done(d)
  <2> HIDE DEF knownC, c
  <2>1. CASE t.conn = ""
    BY <2>1, FitNone
  <2>2. CASE t.conn # ""
    <3>1. Link("WRITES_TO_CONNECTION") /\ PlainEnd(conn)
      BY SparkTypesAre, SharedNodesAre
    <3>2. <<"node", conn>> \in knownC
      BY <1>5, <2>2 DEF Merged
    <3>3. d = <<OneEdge(frame, "WRITES_TO_CONNECTION", conn)>>
      BY <2>2
    <3> HIDE DEF conn, d
    <3>4. AptRow(roots, Edge(frame, "WRITES_TO_CONNECTION", conn)) /\ Ready(nodes, knownC, Edge(frame, "WRITES_TO_CONNECTION", conn))
      BY <1>01, <1>5, <3>1, <3>2, PlainLinkIs
    <3> QED BY <3>3, <3>4, FitLink
  <2> QED BY <2>1, <2>2
<1> HIDE DEF c, d
<1>7. Fit(nodes, known, roots, e) /\ \A x : x \in Done(e) <=> x \in Done(c) \/ x \in Done(d)
  BY <1>4, <1>6, FitBoth
<1>8. Merged(t, knownE)
  <2> HIDE DEF e
  <2> QED BY <1>1, <1>4, <1>7 DEF Merged, After
<1>9. Fit(nodes, knownE, roots, f) /\ \A n : <<"node", n>> \notin Done(f)
  <2> HIDE DEF knownE
  <2> QED BY <1>02, <1>8, WrittenColumnsFit
<1> HIDE DEF e, f
<1>10. Fit(nodes, known, roots, g) /\ \A x : x \in Done(g) <=> x \in Done(e) \/ x \in Done(f)
  BY <1>7, <1>9, FitBoth
<1> HIDE DEF g
<1> QED BY <1>0, <1>1, <1>3, <1>4, <1>6, <1>7, <1>9, <1>10

-----------------------------------------------------------------------------
\* The statements of one DataFrame, part by part.
InputSteps(script, i) ==
  Each(script.frames[i].inputs,
       LAMBDA k : <<OneEdge(FrameNode(script, k), "DERIVES_FROM_DATAFRAME", FrameNode(script, i))>>)

\* The statements for the inputs of a DataFrame.
LEMMA InputStepsFit ==
  ASSUME NEW script, NEW i, IsFrame(script.frames[i], i), NEW nodes, NEW known, NEW roots,
         <<"node", FrameNode(script, i)>> \in known,
         \A k \in ToSet(script.frames[i].inputs) :
           FrameNode(script, k) \in nodes => <<"node", FrameNode(script, k)>> \in known
  PROVE  /\ Fit(nodes, known, roots, InputSteps(script, i))
         /\ \A n : <<"node", n>> \notin Done(InputSteps(script, i))
<1> DEFINE items == script.frames[i].inputs
           step(k) == <<OneEdge(FrameNode(script, k), "DERIVES_FROM_DATAFRAME", FrameNode(script, i))>>
           ss == [j \in DOMAIN items |-> step(items[j])]
<1>1. InputSteps(script, i) = FlattenSeq(ss)
  BY DEF InputSteps, Each
<1>2. ASSUME NEW k \in ToSet(items)
      PROVE  Fit(nodes, known, roots, step(k)) /\ \A n : <<"node", n>> \notin Done(step(k))
  <2> DEFINE from == FrameNode(script, k)
             to == FrameNode(script, i)
  <2>1. PlainEnd(from) /\ PlainEnd(to)
    BY DEF FrameNode, Node, PlainEnd
  <2>2. Link("DERIVES_FROM_DATAFRAME")
    BY SparkTypesAre
  <2>3. \A n \in {from, to} \cap nodes : <<"node", n>> \in known
    OBVIOUS
  <2> HIDE DEF from, to
  <2>4. /\ AptRow(roots, Edge(from, "DERIVES_FROM_DATAFRAME", to))
        /\ Ready(nodes, known, Edge(from, "DERIVES_FROM_DATAFRAME", to))
    BY <2>1, <2>2, <2>3, PlainLinkIs
  <2> QED BY <2>4, FitLink DEF from, to
<1>3. Over(ss, items) /\ \A j \in DOMAIN items : ss[j] = step(items[j])
  BY DEF Over
<1>4. IsSeq(items)
  BY DEF IsFrame
<1> HIDE DEF items, step, ss
<1>5. \A j \in DOMAIN items : Fit(nodes, known, roots, ss[j])
  BY <1>2, <1>3 DEF ToSet
<1>6. /\ Fit(nodes, known, roots, FlattenSeq(ss))
      /\ \A x : x \in Done(FlattenSeq(ss)) <=> \E j \in DOMAIN items : x \in Done(ss[j])
  BY <1>3, <1>4, <1>5, EachFits
<1>7. \A n : <<"node", n>> \notin Done(FlattenSeq(ss))
  <2>1. \A j \in DOMAIN items : items[j] \in ToSet(items)
    BY DEF ToSet
  <2> QED BY <1>2, <1>3, <1>6, <2>1
<1> QED BY <1>1, <1>6, <1>7

AllReadSteps(script, i) == Each(script.frames[i].reads, LAMBDA t : ReadSteps(FrameNode(script, i), t))

\* The statements for all tables a DataFrame reads.
LEMMA AllReadStepsFit ==
  ASSUME NEW script, NEW i, IsFrame(script.frames[i], i), NEW nodes, NEW known, NEW roots,
         <<"node", FrameNode(script, i)>> \in known
  PROVE  /\ Fit(nodes, known, roots, AllReadSteps(script, i))
         /\ \A n : <<"node", n>> \in Done(AllReadSteps(script, i)) => Tag(n) \in SharedTags
<1> DEFINE items == script.frames[i].reads
           step(t) == ReadSteps(FrameNode(script, i), t)
           ss == [j \in DOMAIN items |-> step(items[j])]
<1>1. AllReadSteps(script, i) = FlattenSeq(ss)
  BY DEF AllReadSteps, Each
<1>2. ASSUME NEW t
      PROVE  Fit(nodes, known, roots, step(t)) /\ \A n : <<"node", n>> \in Done(step(t)) => Tag(n) \in SharedTags
  <2>1. PlainEnd(FrameNode(script, i))
    BY DEF FrameNode, Node, PlainEnd
  <2> QED BY <2>1, ReadStepsFit
<1>3. Over(ss, items) /\ \A j \in DOMAIN items : ss[j] = step(items[j])
  BY DEF Over
<1>4. IsSeq(items)
  BY DEF IsFrame
<1> HIDE DEF items, step, ss
<1>5. \A j \in DOMAIN items : Fit(nodes, known, roots, ss[j])
  BY <1>2, <1>3 DEF ToSet
<1>6. /\ Fit(nodes, known, roots, FlattenSeq(ss))
      /\ \A x : x \in Done(FlattenSeq(ss)) <=> \E j \in DOMAIN items : x \in Done(ss[j])
  BY <1>3, <1>4, <1>5, EachFits
<1>7. \A n : <<"node", n>> \in Done(FlattenSeq(ss)) => Tag(n) \in SharedTags
  <2>1. \A j \in DOMAIN items : items[j] \in ToSet(items)
    BY DEF ToSet
  <2> QED BY <1>2, <1>3, <1>6, <2>1
<1> QED BY <1>1, <1>6, <1>7

ColumnSteps(script, i) ==
  Each(script.frames[i].fields,
       LAMBDA c : <<OneNode(AttributeNode(script, i, c)),
                    OneEdge(FrameNode(script, i), "HAS_FIELD", AttributeNode(script, i, c))>>)

\* The statements for the columns of a DataFrame.
LEMMA ColumnStepsFit ==
  ASSUME NEW script, NEW i, IsFrame(script.frames[i], i), NEW nodes, NEW known, NEW roots, ScriptNode(script) \in roots,
         <<"node", FrameNode(script, i)>> \in known,
         <<"edge", Edge(ScriptNode(script), "CONTAINS_DATAFRAME", FrameNode(script, i))>> \in known
  PROVE  /\ Fit(nodes, known, roots, ColumnSteps(script, i))
         /\ \A n : <<"node", n>> \in Done(ColumnSteps(script, i)) <=> \E c \in ToSet(script.frames[i].fields) : n = AttributeNode(script, i, c)
<1> DEFINE items == script.frames[i].fields
           step(c) == <<OneNode(AttributeNode(script, i, c)),
                        OneEdge(FrameNode(script, i), "HAS_FIELD", AttributeNode(script, i, c))>>
           ss == [j \in DOMAIN items |-> step(items[j])]
<1>1. ColumnSteps(script, i) = FlattenSeq(ss)
  BY DEF ColumnSteps, Each
<1>2. ASSUME NEW c
      PROVE  Fit(nodes, known, roots, step(c)) /\ \A n : <<"node", n>> \in Done(step(c)) <=> n = AttributeNode(script, i, c)
  <2> DEFINE from == FrameNode(script, i)
             to == AttributeNode(script, i, c)
             home == ScriptNode(script)
             e == Edge(from, "HAS_FIELD", to)
             more == known \cup {<<"node", to>>}
             s == <<OneNode(to), OneEdge(from, "HAS_FIELD", to)>>
  <2>1. /\ AptNode(roots, to) /\ to.label \notin {"Table", "?"} /\ Tag(to) = "attribute" /\ Home(to) = home
        /\ from.label # "?" /\ Tag(from) = "dataframe" /\ Home(from) = home
    BY ScriptsNodesAre
  <2>2. /\ <<"node", from>> \in more /\ <<"node", to>> \in more
        /\ <<"edge", Edge(home, "CONTAINS_DATAFRAME", from)>> \in more
    OBVIOUS
  <2>3. home \in roots
    OBVIOUS
  <2> HIDE DEF from, to, home, more
  <2>4. e.from = from /\ e.type = "HAS_FIELD" /\ e.to = to /\ e = Edge(e.from, e.type, e.to)
    BY DEF Edge
  <2> HIDE DEF e
  <2>5. PlainEnd(from) /\ Meant(from) = from /\ MeantEnd(from) /\ PlainEnd(to) /\ Meant(to) = to /\ MeantEnd(to)
    BY <2>1 DEF PlainEnd, Meant, MeantEnd
  <2>6. AptRow(roots, e)
    <3>1. <<Tag(e.from), e.type, Tag(e.to)>> \in Hops
      BY <2>1, <2>4 DEF Hops
    <3> QED BY <2>1, <2>3, <2>4, <2>5, <3>1 DEF AptRow, Plain
  <2>7. Ends(e) = {from, to}
    BY <2>4, <2>5 DEF Ends
  <2>8. Ready(nodes, more, e)
    <3>1. FirstHop["dataframe"] = "CONTAINS_DATAFRAME"
      BY DEF FirstHop
    <3>2. Edge(Home(e.from), FirstHop[Tag(e.from)], e.from) = Edge(home, "CONTAINS_DATAFRAME", from)
      BY <2>1, <2>4, <3>1
    <3> QED BY <2>2, <2>4, <2>5, <2>7, <3>2 DEF Ready
  <2>9. AptRow(roots, Edge(from, "HAS_FIELD", to)) /\ Ready(nodes, known \cup {<<"node", to>>}, Edge(from, "HAS_FIELD", to))
    BY <2>6, <2>8 DEF e, more
  <2>10. Fit(nodes, known, roots, s) /\ Done(s) = {<<"node", to>>, <<"edge", Edge(from, "HAS_FIELD", to)>>}
    BY <2>1, <2>9, FitNodeEdge
  <2>11. step(c) = s
    BY DEF from, to
  <2>12. to = AttributeNode(script, i, c)
    BY DEF to
  <2> HIDE DEF s, step
  <2> QED BY <2>10, <2>11, <2>12
<1>3. Over(ss, items) /\ \A j \in DOMAIN items : ss[j] = step(items[j])
  BY DEF Over
<1>4. IsSeq(items)
  BY DEF IsFrame
<1> HIDE DEF items, step, ss
<1>5. \A j \in DOMAIN items : Fit(nodes, known, roots, ss[j])
  BY <1>2, <1>3 DEF ToSet
<1>6. /\ Fit(nodes, known, roots, FlattenSeq(ss))
      /\ \A x : x \in Done(FlattenSeq(ss)) <=> \E j \in DOMAIN items : x \in Done(ss[j])
  BY <1>3, <1>4, <1>5, EachFits
<1>7. \A n : <<"node", n>> \in Done(FlattenSeq(ss)) <=> \E c \in ToSet(items) : n = AttributeNode(script, i, c)
  <2>1. ASSUME NEW n, <<"node", n>> \in Done(FlattenSeq(ss)) PROVE \E c \in ToSet(items) : n = AttributeNode(script, i, c)
    <3>1. PICK j \in DOMAIN items : <<"node", n>> \in Done(ss[j])
      BY <1>6, <2>1
    <3>2. items[j] \in ToSet(items)
      BY DEF ToSet
    <3> QED BY <1>2, <1>3, <3>1, <3>2
  <2>2. ASSUME NEW n, NEW c \in ToSet(items), n = AttributeNode(script, i, c) PROVE <<"node", n>> \in Done(FlattenSeq(ss))
    <3>1. PICK j \in DOMAIN items : c = items[j]
      BY DEF ToSet
    <3> QED BY <1>2, <1>3, <1>6, <2>2, <3>1
  <2> QED BY <2>1, <2>2
<1> QED BY <1>1, <1>6, <1>7 DEF items

AllWriteSteps(script, i) == Each(script.frames[i].writes, LAMBDA t : WriteSteps(script, i, t))

\* The statements for all tables a DataFrame writes.
LEMMA AllWriteStepsFit ==
  ASSUME NEW script, NEW i, IsFrame(script.frames[i], i), NEW nodes, NEW known, NEW roots, ScriptNode(script) \in roots,
         <<"node", FrameNode(script, i)>> \in known,
         \A c \in ToSet(script.frames[i].fields) : <<"node", AttributeNode(script, i, c)>> \in known
  PROVE  /\ Fit(nodes, known, roots, AllWriteSteps(script, i))
         /\ \A n : <<"node", n>> \in Done(AllWriteSteps(script, i)) => Tag(n) \in SharedTags
<1> DEFINE items == script.frames[i].writes
           step(t) == WriteSteps(script, i, t)
           ss == [j \in DOMAIN items |-> step(items[j])]
<1>1. AllWriteSteps(script, i) = FlattenSeq(ss)
  BY DEF AllWriteSteps, Each
<1>2. ASSUME NEW t
      PROVE  Fit(nodes, known, roots, step(t)) /\ \A n : <<"node", n>> \in Done(step(t)) => Tag(n) \in SharedTags
  <2>1. IsSeq(script.frames[i].fields)
    BY DEF IsFrame
  <2> QED BY <2>1, WriteStepsFit
<1>3. Over(ss, items) /\ \A j \in DOMAIN items : ss[j] = step(items[j])
  BY DEF Over
<1>4. IsSeq(items)
  BY DEF IsFrame
<1> HIDE DEF items, step, ss
<1>5. \A j \in DOMAIN items : Fit(nodes, known, roots, ss[j])
  BY <1>2, <1>3 DEF ToSet
<1>6. /\ Fit(nodes, known, roots, FlattenSeq(ss))
      /\ \A x : x \in Done(FlattenSeq(ss)) <=> \E j \in DOMAIN items : x \in Done(ss[j])
  BY <1>3, <1>4, <1>5, EachFits
<1>7. \A n : <<"node", n>> \in Done(FlattenSeq(ss)) => Tag(n) \in SharedTags
  <2>1. \A j \in DOMAIN items : items[j] \in ToSet(items)
    BY DEF ToSet
  <2> QED BY <1>2, <1>3, <1>6, <2>1
<1> QED BY <1>1, <1>6, <1>7

DeriveSteps(script, i) ==
  Each(script.frames[i].derives,
       LAMBDA d : <<OneEdge(AttributeNode(script, i, d[1]), "DERIVES_FROM", AttributeNode(script, i, d[2]))>>)

\* The statements for what the columns of a DataFrame derive from.
LEMMA DeriveStepsFit ==
  ASSUME NEW script, NEW i, IsFrame(script.frames[i], i), NEW nodes, NEW known, NEW roots,
         \A c : AttributeNode(script, i, c) \in nodes => <<"node", AttributeNode(script, i, c)>> \in known
  PROVE  /\ Fit(nodes, known, roots, DeriveSteps(script, i))
         /\ \A n : <<"node", n>> \notin Done(DeriveSteps(script, i))
<1> DEFINE items == script.frames[i].derives
           step(d) == <<OneEdge(AttributeNode(script, i, d[1]), "DERIVES_FROM", AttributeNode(script, i, d[2]))>>
           ss == [j \in DOMAIN items |-> step(items[j])]
<1>1. DeriveSteps(script, i) = FlattenSeq(ss)
  BY DEF DeriveSteps, Each
<1>2. ASSUME NEW d
      PROVE  Fit(nodes, known, roots, step(d)) /\ \A n : <<"node", n>> \notin Done(step(d))
  <2> DEFINE from == AttributeNode(script, i, d[1])
             to == AttributeNode(script, i, d[2])
  <2>1. PlainEnd(from) /\ PlainEnd(to)
    BY DEF AttributeNode, Node, PlainEnd
  <2>2. Link("DERIVES_FROM")
    BY SparkTypesAre
  <2>3. \A n \in {from, to} \cap nodes : <<"node", n>> \in known
    OBVIOUS
  <2> HIDE DEF from, to
  <2>4. /\ AptRow(roots, Edge(from, "DERIVES_FROM", to))
        /\ Ready(nodes, known, Edge(from, "DERIVES_FROM", to))
    BY <2>1, <2>2, <2>3, PlainLinkIs
  <2> QED BY <2>4, FitLink DEF from, to
<1>3. Over(ss, items) /\ \A j \in DOMAIN items : ss[j] = step(items[j])
  BY DEF Over
<1>4. IsSeq(items)
  BY DEF IsFrame
<1> HIDE DEF items, step, ss
<1>5. \A j \in DOMAIN items : Fit(nodes, known, roots, ss[j])
  BY <1>2, <1>3 DEF ToSet
<1>6. /\ Fit(nodes, known, roots, FlattenSeq(ss))
      /\ \A x : x \in Done(FlattenSeq(ss)) <=> \E j \in DOMAIN items : x \in Done(ss[j])
  BY <1>3, <1>4, <1>5, EachFits
<1>7. \A n : <<"node", n>> \notin Done(FlattenSeq(ss))
  <2>1. \A j \in DOMAIN items : items[j] \in ToSet(items)
    BY DEF ToSet
  <2> QED BY <1>2, <1>3, <1>6, <2>1
<1> QED BY <1>1, <1>6, <1>7

\* The nodes of a DataFrame.
FrameHas(script, i, n) ==
  \/ script.frames[i].anchor /\ n = FrameNode(script, i)
  \/ script.frames[i].anchor /\ \E c \in ToSet(script.frames[i].fields) : n = AttributeNode(script, i, c)
  \/ Tag(n) \in SharedTags

\* A statement of a DataFrame only relies on what comes before it, if the DataFrames it
\* derives from do.
LEMMA FrameStepsFit ==
  ASSUME NEW script, NEW i, IsFrame(script.frames[i], i), NEW nodes, NEW known,
         NEW roots, ScriptNode(script) \in roots, <<"node", ScriptNode(script)>> \in known,
         \A k \in ToSet(script.frames[i].inputs) :
           FrameNode(script, k) \in nodes => <<"node", FrameNode(script, k)>> \in known,
         \A c : AttributeNode(script, i, c) \in nodes => c \in ToSet(script.frames[i].fields)
  PROVE  /\ Fit(nodes, known, roots, FrameSteps(script, i))
         /\ \A n : <<"node", n>> \in Done(FrameSteps(script, i)) => FrameHas(script, i, n)
         /\ script.frames[i].anchor => <<"node", FrameNode(script, i)>> \in Done(FrameSteps(script, i))
<1>1. CASE ~ script.frames[i].anchor
  <2>1. FrameSteps(script, i) = <<>>
    BY <1>1 DEF FrameSteps
  <2> QED BY <1>1, <2>1, FitNone
<1>2. CASE script.frames[i].anchor
  <2> DEFINE node == FrameNode(script, i)
             root == ScriptNode(script)
             up == Edge(root, "CONTAINS_DATAFRAME", node)
             a == <<OneNode(node), OneEdge(root, "CONTAINS_DATAFRAME", node)>>
             b == InputSteps(script, i)
             c == AllReadSteps(script, i)
             d == ColumnSteps(script, i)
             e == AllWriteSteps(script, i)
             f == DeriveSteps(script, i)
             ab == Then(a, b)
             ac == Then(ab, c)
             ad == Then(ac, d)
             ae == Then(ad, e)
             af == Then(ae, f)
             fields == ToSet(script.frames[i].fields)
  <2>0. FrameSteps(script, i) = af
    BY <1>2 DEF FrameSteps, InputSteps, AllReadSteps, ColumnSteps, AllWriteSteps, DeriveSteps, Then
  <2>1. Fit(nodes, known, roots, a) /\ Done(a) = {<<"node", node>>, <<"edge", up>>}
    <3> DEFINE more == known \cup {<<"node", node>>}
    <3>1. /\ AptNode(roots, node) /\ node.label \notin {"Table", "?"} /\ Tag(node) = "dataframe" /\ Home(node) = root
          /\ root.label # "?" /\ Tag(root) = "spark" /\ Home(root) = root /\ root \in roots
      BY ScriptsNodesAre DEF IsHome
    <3>2. <<"node", node>> \in more /\ <<"node", root>> \in more
      OBVIOUS
    <3> HIDE DEF node, root, more
    <3>3. up.from = root /\ up.type = "CONTAINS_DATAFRAME" /\ up.to = node /\ up = Edge(up.from, up.type, up.to)
      BY DEF Edge
    <3> HIDE DEF up
    <3>4. PlainEnd(root) /\ Meant(root) = root /\ MeantEnd(root) /\ PlainEnd(node) /\ Meant(node) = node /\ MeantEnd(node)
      BY <3>1 DEF PlainEnd, Meant, MeantEnd
    <3>5. AptRow(roots, up)
      <4>1. <<Tag(up.from), up.type, Tag(up.to)>> \in Hops
        BY <3>1, <3>3 DEF Hops
      <4> QED BY <3>1, <3>3, <3>4, <4>1 DEF AptRow, Plain
    <3>6. Ends(up) = {root, node} /\ up.type \notin SecondTypes
      BY <3>3, <3>4 DEF Ends, SecondTypes
    <3>7. Ready(nodes, more, up)
      BY <3>2, <3>3, <3>4, <3>6 DEF Ready
    <3>8. AptRow(roots, Edge(root, "CONTAINS_DATAFRAME", node))
            /\ Ready(nodes, known \cup {<<"node", node>>}, Edge(root, "CONTAINS_DATAFRAME", node))
      BY <3>5, <3>7 DEF up, more
    <3>9. Fit(nodes, known, roots, a) /\ Done(a) = {<<"node", node>>, <<"edge", Edge(root, "CONTAINS_DATAFRAME", node)>>}
      BY <3>1, <3>8, FitNodeEdge
    <3> QED BY <3>9 DEF up
  <2> HIDE DEF a
  <2>2. /\ <<"node", node>> \in Done(a) /\ <<"edge", up>> \in Done(a)
        /\ \A n : <<"node", n>> \in Done(a) => n = node
    <3> HIDE DEF node, up
    <3> QED BY <2>1
  <2>3. /\ <<"node", node>> \in After(known, a)
        /\ \A k \in ToSet(script.frames[i].inputs) :
             FrameNode(script, k) \in nodes => <<"node", FrameNode(script, k)>> \in After(known, a)
    BY <2>2 DEF After
  <2>4. Fit(nodes, After(known, a), roots, b) /\ \A n : <<"node", n>> \notin Done(b)
    BY <2>3, InputStepsFit
  <2> HIDE DEF b
  <2>5. Fit(nodes, known, roots, ab) /\ \A x : x \in Done(ab) <=> x \in Done(a) \/ x \in Done(b)
    BY <2>1, <2>4, FitBoth
  <2> HIDE DEF ab
  <2>6. <<"node", node>> \in After(known, ab)
    BY <2>2, <2>5 DEF After
  <2>7. Fit(nodes, After(known, ab), roots, c) /\ \A n : <<"node", n>> \in Done(c) => Tag(n) \in SharedTags
    BY <2>6, AllReadStepsFit
  <2> HIDE DEF c
  <2>8. Fit(nodes, known, roots, ac) /\ \A x : x \in Done(ac) <=> x \in Done(ab) \/ x \in Done(c)
    BY <2>5, <2>7, FitBoth
  <2> HIDE DEF ac
  <2>9. <<"node", node>> \in After(known, ac) /\ <<"edge", up>> \in After(known, ac)
    BY <2>2, <2>5, <2>8 DEF After
  <2>10. /\ Fit(nodes, After(known, ac), roots, d)
         /\ \A n : <<"node", n>> \in Done(d) <=> \E k \in fields : n = AttributeNode(script, i, k)
    BY <2>9, ColumnStepsFit
  <2> HIDE DEF d
  <2>11. Fit(nodes, known, roots, ad) /\ \A x : x \in Done(ad) <=> x \in Done(ac) \/ x \in Done(d)
    BY <2>8, <2>10, FitBoth
  <2> HIDE DEF ad
  <2>12. /\ <<"node", node>> \in After(known, ad)
         /\ \A k \in fields : <<"node", AttributeNode(script, i, k)>> \in After(known, ad)
    BY <2>2, <2>5, <2>8, <2>10, <2>11 DEF After
  <2>13. Fit(nodes, After(known, ad), roots, e) /\ \A n : <<"node", n>> \in Done(e) => Tag(n) \in SharedTags
    BY <2>12, AllWriteStepsFit
  <2> HIDE DEF e
  <2>14. Fit(nodes, known, roots, ae) /\ \A x : x \in Done(ae) <=> x \in Done(ad) \/ x \in Done(e)
    BY <2>11, <2>13, FitBoth
  <2> HIDE DEF ae
  <2>15. \A k : AttributeNode(script, i, k) \in nodes => <<"node", AttributeNode(script, i, k)>> \in After(known, ae)
    BY <2>10, <2>11, <2>14 DEF After
  <2>16. Fit(nodes, After(known, ae), roots, f) /\ \A n : <<"node", n>> \notin Done(f)
    BY <2>15, DeriveStepsFit
  <2> HIDE DEF f
  <2>17. Fit(nodes, known, roots, af) /\ \A x : x \in Done(af) <=> x \in Done(ae) \/ x \in Done(f)
    BY <2>14, <2>16, FitBoth
  <2> HIDE DEF af
  <2>18. <<"node", node>> \in Done(af)
    BY <2>2, <2>5, <2>8, <2>11, <2>14, <2>17
  <2>19. \A n : <<"node", n>> \in Done(af) => FrameHas(script, i, n)
    BY <1>2, <2>2, <2>4, <2>5, <2>7, <2>8, <2>10, <2>11, <2>13, <2>14, <2>16, <2>17 DEF FrameHas
  <2> QED BY <2>0, <2>17, <2>18, <2>19
<1> QED BY <1>1, <1>2

-----------------------------------------------------------------------------
\* Without leave to delete, a sequence that is fit does not.
LEMMA NoLeaveNoDelete ==
  ASSUME NEW nodes, NEW known, NEW roots, NEW s, Fit(nodes, known, roots, s),
         \A root : <<"delete", root>> \notin known
  PROVE  \A st \in ToSet(s) : st.op # "delete"
BY DEF Fit, Allowed

\* Nothing is written before a delete.
Fresh(s) ==
  \A k \in DOMAIN s : s[k].op = "delete" =>
    \A i \in 1..(k - 1) : NodesAt(s[i]) = {} /\ EdgesAt(s[i]) = {}

\* What does not delete may follow what deletes first.
LEMMA FreshThen ==
  ASSUME NEW a, IsSeq(a), Fresh(a), NEW b, IsSeq(b), \A st \in ToSet(b) : st.op # "delete"
  PROVE  Fresh(Then(a, b)) /\ ToSet(a) \subseteq ToSet(Then(a, b))
<1> DEFINE c == Then(a, b)
<1>1. Joined(a, b, c)
  BY JoinIs DEF Then
<1> HIDE DEF c
<1>2. Len(a) \in Nat /\ DOMAIN a = 1..Len(a)
  BY SequenceIs
<1>3. ASSUME NEW k \in DOMAIN c, c[k].op = "delete", NEW i \in 1..(k - 1)
      PROVE  NodesAt(c[i]) = {} /\ EdgesAt(c[i]) = {}
  <2>1. k \in DOMAIN a
    <3> SUFFICES ASSUME k \notin DOMAIN a PROVE FALSE
      OBVIOUS
    <3>1. PICK j \in DOMAIN b : k = Len(a) + j
      BY <1>1 DEF Joined
    <3>2. c[k] = b[j] /\ b[j] \in ToSet(b)
      BY <1>1, <3>1 DEF Joined, ToSet
    <3> QED BY <1>3, <3>2
  <2>2. i \in DOMAIN a
    BY <1>2, <2>1
  <2> QED BY <1>1, <1>3, <2>1, <2>2 DEF Joined, Fresh
<1> QED BY <1>1, <1>3 DEF Fresh, Joined, c

\* The two deletes a script begins with.
LEMMA PurgeFits ==
  ASSUME NEW script, NEW nodes, NEW known, NEW roots, ScriptNode(script) \in roots,
         <<"delete", ScriptNode(script)>> \in known
  PROVE  /\ Fit(nodes, known, roots, Purge(script)) /\ Fresh(Purge(script))
         /\ \A x : x \notin Done(Purge(script))
         /\ \E st \in ToSet(Purge(script)) :
              st.op = "delete" /\ st.root = ScriptNode(script) /\ <<"CONTAINS_DATAFRAME">> \in st.paths
<1> DEFINE root == ScriptNode(script)
           s == Purge(script)
<1>1. /\ s \in Seq({s[1], s[2]}) /\ Len(s) = 2
      /\ s[1] = Subgraph(root, {<<"CONTAINS_DATAFRAME", "HAS_FIELD">>}, {"HAS_COLUMN"})
      /\ s[2] = Subgraph(root, {<<"CONTAINS_DATAFRAME">>}, {})
  BY DEF Purge
<1>2. IsHome(root) /\ Tag(root) = "spark" /\ root \in roots
  BY ScriptsNodesAre
<1> HIDE DEF root, s
<1>3. DOMAIN s = 1..2 /\ IsSeq(s) /\ ToSet(s) = {s[1], s[2]}
  <2>1. DOMAIN s = 1..2 /\ 1 \in 1..2 /\ 2 \in 1..2
    BY <1>1
  <2>2. ToSet(s) = {s[1], s[2]}
    BY <2>1 DEF ToSet
  <2> QED BY <1>1, <2>1, <2>2 DEF IsSeq
<1>4. /\ s[1].op = "delete" /\ s[1].root = root
      /\ s[1].paths = {<<"CONTAINS_DATAFRAME", "HAS_FIELD">>} /\ s[1].sparing = {"HAS_COLUMN"}
      /\ s[2].op = "delete" /\ s[2].root = root
      /\ s[2].paths = {<<"CONTAINS_DATAFRAME">>} /\ s[2].sparing = {}
  BY <1>1 DEF Subgraph
<1>5. \A i \in 1..2 : s[i].op = "delete" /\ s[i].root = root /\ NodesAt(s[i]) = {} /\ IdsAt(s[i]) = {} /\ EdgesAt(s[i]) = {}
  BY <1>4 DEF NodesAt, IdsAt, EdgesAt
<1>6. ShapedStep(s[1]) /\ ShapedStep(s[2])
  BY <1>4 DEF ShapedStep
<1>7. Deleting(s[1]) /\ Deleting(s[2])
  BY <1>2, <1>4 DEF Deleting
<1>8. \A st \in ToSet(s) : Apt(roots, st) /\ Allowed(known, st)
  <2>1. <<"delete", root>> \in known
    BY DEF root
  <2> QED BY <1>2, <1>3, <1>4, <1>5, <1>6, <1>7, <2>1 DEF Apt, Allowed
<1>9. Ordered(nodes, known, s)
  BY <1>3, <1>5 DEF Ordered
<1>10. Fresh(s)
  <2>1. ASSUME NEW k \in DOMAIN s, NEW i \in 1..(k - 1) PROVE i \in 1..2
    BY <1>3
  <2> QED BY <1>5, <2>1 DEF Fresh
<1>11. \A x : x \notin Done(s)
  <2>1. \A st \in ToSet(s) : Things(st) = {}
    BY <1>3, <1>5 DEF Things
  <2> QED BY <2>1 DEF Done
<1>12. Fit(nodes, known, roots, s)
  BY <1>3, <1>8, <1>9 DEF Fit
<1>13. \E st \in ToSet(s) : st.op = "delete" /\ st.root = root /\ <<"CONTAINS_DATAFRAME">> \in st.paths
  BY <1>3, <1>4
<1> QED BY <1>10, <1>11, <1>12, <1>13 DEF root, s

UdfSteps(script) == Each(script.udfs, LAMBDA u : <<OneNode(UdfNode(script, u))>>)

\* The statements for the UDFs of a script.
LEMMA UdfStepsFit ==
  ASSUME NEW script, IsSeq(script.udfs), NEW nodes, NEW known, NEW roots
  PROVE  /\ Fit(nodes, known, roots, UdfSteps(script))
         /\ \A n : <<"node", n>> \in Done(UdfSteps(script)) => Tag(n) \in {"udf"}
<1> DEFINE items == script.udfs
           step(u) == <<OneNode(UdfNode(script, u))>>
           ss == [i \in DOMAIN items |-> step(items[i])]
<1>1. UdfSteps(script) = FlattenSeq(ss)
  BY DEF UdfSteps, Each
<1>2. ASSUME NEW u
      PROVE  Fit(nodes, known, roots, step(u)) /\ \A n : <<"node", n>> \in Done(step(u)) => Tag(n) \in {"udf"}
  <2> DEFINE m == UdfNode(script, u)
  <2>1. AptNode(roots, m) /\ m.label # "Table" /\ Tag(m) = "udf"
    BY SharedNodesAre DEF Writable
  <2> HIDE DEF m
  <2>2. Fit(nodes, known, roots, <<OneNode(m)>>) /\ Done(<<OneNode(m)>>) = {<<"node", m>>}
    BY <2>1, FitNode
  <2> DEFINE s == <<OneNode(m)>>
  <2>3. step(u) = s
    BY DEF m
  <2> HIDE DEF s, step
  <2> QED BY <2>1, <2>2, <2>3 DEF s
<1>3. Over(ss, items) /\ \A i \in DOMAIN items : ss[i] = step(items[i])
  BY DEF Over
<1>4. IsSeq(items)
  OBVIOUS
<1> HIDE DEF items, step, ss
<1>5. \A i \in DOMAIN items : Fit(nodes, known, roots, ss[i])
  BY <1>2, <1>3 DEF ToSet
<1>6. /\ Fit(nodes, known, roots, FlattenSeq(ss))
      /\ \A x : x \in Done(FlattenSeq(ss)) <=> \E i \in DOMAIN items : x \in Done(ss[i])
  BY <1>3, <1>4, <1>5, EachFits
<1>7. \A n : <<"node", n>> \in Done(FlattenSeq(ss)) => Tag(n) \in {"udf"}
  <2>1. \A i \in DOMAIN items : items[i] \in ToSet(items)
    BY DEF ToSet
  <2> QED BY <1>2, <1>3, <1>6, <2>1
<1> QED BY <1>1, <1>6, <1>7

\* What the plan's nodes are to the frames of a script: those of its anchors.
OfScript(nodes, script) ==
  \A i \in DOMAIN script.frames :
    /\ FrameNode(script, i) \in nodes => script.frames[i].anchor
    /\ \A c : AttributeNode(script, i, c) \in nodes => c \in ToSet(script.frames[i].fields)
ScriptHas(script, n) ==
  \/ n = ScriptNode(script)
  \/ \E i \in DOMAIN script.frames : FrameHas(script, i, n)
  \/ Tag(n) = "udf"

AllFrameSteps(script) == FlattenSeq([i \in DOMAIN script.frames |-> FrameSteps(script, i)])

\* The statements for all DataFrames of a script.
LEMMA AllFrameStepsFit ==
  ASSUME NEW script, IsScript(script), NEW nodes, OfScript(nodes, script), NEW known, NEW roots,
         ScriptNode(script) \in roots, <<"node", ScriptNode(script)>> \in known
  PROVE  /\ Fit(nodes, known, roots, AllFrameSteps(script))
         /\ \A n : <<"node", n>> \in Done(AllFrameSteps(script)) =>
              \E i \in DOMAIN script.frames : FrameHas(script, i, n)
<1> DEFINE items == script.frames
           ss == [i \in DOMAIN items |-> FrameSteps(script, i)]
<1>1. AllFrameSteps(script) = FlattenSeq(ss)
  BY DEF AllFrameSteps
<1>2. IsSeq(items) /\ Len(items) \in Nat /\ DOMAIN items = 1..Len(items)
  BY SequenceIs DEF IsScript
<1>3. DOMAIN ss = DOMAIN items /\ \A i \in DOMAIN items : ss[i] = FrameSteps(script, i)
  OBVIOUS
<1>4. IsSeq(ss)
  <2>1. \A i \in DOMAIN items : ss[i] \in ToSet(ss)
    BY <1>3 DEF ToSet
  <2> HIDE DEF items
  <2>2. ss \in Seq(ToSet(ss))
    BY <1>2, <2>1
  <2> QED BY <2>2 DEF IsSeq
<1>5. ASSUME NEW i \in DOMAIN items
      PROVE  /\ \A n : <<"node", n>> \in Done(ss[i]) => FrameHas(script, i, n)
             /\ script.frames[i].anchor => <<"node", FrameNode(script, i)>> \in Done(ss[i])
  <2> DEFINE none == {}
  <2>1. /\ \A k \in ToSet(script.frames[i].inputs) :
             FrameNode(script, k) \in none => <<"node", FrameNode(script, k)>> \in known
        /\ \A c : AttributeNode(script, i, c) \in none => c \in ToSet(script.frames[i].fields)
    OBVIOUS
  <2>2. IsFrame(script.frames[i], i)
    BY DEF IsScript
  <2> HIDE DEF none
  <2>3. /\ Fit(none, known, roots, FrameSteps(script, i))
        /\ \A n : <<"node", n>> \in Done(FrameSteps(script, i)) => FrameHas(script, i, n)
        /\ script.frames[i].anchor => <<"node", FrameNode(script, i)>> \in Done(FrameSteps(script, i))
    BY <2>1, <2>2, FrameStepsFit
  <2> QED BY <1>3, <2>3
<1>6. ASSUME NEW i \in DOMAIN items
      PROVE  Fit(nodes, known \cup UNION {Done(ss[l]) : l \in 1..(i - 1)}, roots, ss[i])
  <2> DEFINE more == known \cup UNION {Done(ss[l]) : l \in 1..(i - 1)}
  <2>1. IsFrame(script.frames[i], i)
    BY DEF IsScript
  <2>2. \A k \in ToSet(script.frames[i].inputs) : k \in 1..(i - 1) /\ k \in DOMAIN items
    <3> HIDE DEF items
    <3> QED BY <1>2, <2>1 DEF IsFrame
  <2>3. \A k \in ToSet(script.frames[i].inputs) :
          FrameNode(script, k) \in nodes => <<"node", FrameNode(script, k)>> \in more
    <3> SUFFICES ASSUME NEW k \in ToSet(script.frames[i].inputs), FrameNode(script, k) \in nodes
                 PROVE  <<"node", FrameNode(script, k)>> \in more
      OBVIOUS
    <3>1. script.frames[k].anchor
      BY <2>2 DEF OfScript
    <3>2. <<"node", FrameNode(script, k)>> \in Done(ss[k])
      BY <1>5, <2>2, <3>1
    <3> QED BY <2>2, <3>2
  <2>4. \A c : AttributeNode(script, i, c) \in nodes => c \in ToSet(script.frames[i].fields)
    BY DEF OfScript
  <2>5. <<"node", ScriptNode(script)>> \in more
    OBVIOUS
  <2> HIDE DEF more
  <2>6. Fit(nodes, more, roots, FrameSteps(script, i))
    BY <2>1, <2>3, <2>4, <2>5, FrameStepsFit
  <2>7. Fit(nodes, more, roots, ss[i])
    BY <1>3, <2>6
  <2> QED BY <2>7 DEF more
<1> HIDE DEF ss
<1>7. Fit(nodes, known, roots, FlattenSeq(ss))
  BY <1>3, <1>4, <1>6, FitFlatten
<1>8. \A x : x \in Done(FlattenSeq(ss)) <=> \E k \in DOMAIN ss : x \in Done(ss[k])
  <2>1. \A k \in DOMAIN ss : IsSeq(ss[k])
    BY <1>3, <1>6 DEF Fit
  <2> QED BY <1>4, <2>1, DoneFlatten
<1>9. \A n : <<"node", n>> \in Done(FlattenSeq(ss)) => \E i \in DOMAIN script.frames : FrameHas(script, i, n)
  BY <1>3, <1>5, <1>8
<1> QED BY <1>1, <1>7, <1>9

\* All statements of a script: the deletes, the script, its DataFrames.
LEMMA ScriptStepsFit ==
  ASSUME NEW script, IsScript(script), NEW nodes, OfScript(nodes, script), NEW known, NEW roots,
         ScriptNode(script) \in roots, <<"delete", ScriptNode(script)>> \in known
  PROVE  /\ Fit(nodes, known, roots, ScriptSteps(script)) /\ Fresh(ScriptSteps(script))
         /\ \A n : <<"node", n>> \in Done(ScriptSteps(script)) => ScriptHas(script, n)
         /\ <<"node", ScriptNode(script)>> \in Done(ScriptSteps(script))
         /\ \E st \in ToSet(ScriptSteps(script)) :
              st.op = "delete" /\ st.root = ScriptNode(script) /\ <<"CONTAINS_DATAFRAME">> \in st.paths
<1> DEFINE root == ScriptNode(script)
           a == Purge(script)
           b == <<OneNode(root)>>
           c == UdfSteps(script)
           d == AllFrameSteps(script)
           ab == Then(a, b)
           ac == Then(ab, c)
           ad == Then(ac, d)
           none == {}
           only == {<<"node", root>>}
<1>0. ScriptSteps(script) = ad
  BY DEF ScriptSteps, UdfSteps, AllFrameSteps, Then
<1>1. /\ Fit(nodes, known, roots, a) /\ Fresh(a) /\ \A x : x \notin Done(a)
      /\ \E st \in ToSet(a) : st.op = "delete" /\ st.root = root /\ <<"CONTAINS_DATAFRAME">> \in st.paths
  BY PurgeFits
<1>2. Fit(nodes, none, roots, b) /\ Done(b) = {<<"node", root>>}
  <2>1. AptNode(roots, root) /\ root.label # "Table"
    BY ScriptsNodesAre
  <2> QED BY <2>1, FitNode
<1>3. Fit(nodes, none, roots, c) /\ \A n : <<"node", n>> \in Done(c) => Tag(n) = "udf"
  <2>1. IsSeq(script.udfs)
    BY DEF IsScript
  <2>2. Fit(nodes, none, roots, c) /\ \A n : <<"node", n>> \in Done(c) => Tag(n) \in {"udf"}
    BY <2>1, UdfStepsFit
  <2> QED BY <2>2
<1>4. /\ Fit(nodes, only, roots, d)
      /\ \A n : <<"node", n>> \in Done(d) => \E i \in DOMAIN script.frames : FrameHas(script, i, n)
  <2>1. <<"node", root>> \in only
    OBVIOUS
  <2> HIDE DEF only
  <2> QED BY <2>1, AllFrameStepsFit
<1>5. /\ \A st \in ToSet(b) : st.op # "delete"
      /\ \A st \in ToSet(c) : st.op # "delete"
      /\ \A st \in ToSet(d) : st.op # "delete"
  <2>1. \A r : <<"delete", r>> \notin none /\ <<"delete", r>> \notin only
    OBVIOUS
  <2> HIDE DEF none, only, a, b, c, d
  <2> QED BY <1>2, <1>3, <1>4, <2>1, NoLeaveNoDelete
<1> HIDE DEF a, b, c, d
<1>6. /\ Fit(nodes, After(known, a), roots, b)
      /\ Fit(nodes, After(known, ab), roots, c)
  <2>1. none \subseteq After(known, a) /\ none \subseteq After(known, ab) /\ roots \subseteq roots
    OBVIOUS
  <2> HIDE DEF none, ab
  <2> QED BY <1>2, <1>3, <2>1, FitMore
<1>7. Fit(nodes, known, roots, ab) /\ \A x : x \in Done(ab) <=> x \in Done(a) \/ x \in Done(b)
  BY <1>1, <1>6, FitBoth
<1>8. IsSeq(a) /\ IsSeq(b) /\ IsSeq(c) /\ IsSeq(d)
  BY <1>1, <1>2, <1>3, <1>4 DEF Fit
<1>9. Fresh(ab) /\ ToSet(a) \subseteq ToSet(ab)
  BY <1>1, <1>5, <1>8, FreshThen
<1> HIDE DEF ab
<1>10. Fit(nodes, known, roots, ac) /\ \A x : x \in Done(ac) <=> x \in Done(ab) \/ x \in Done(c)
  BY <1>6, <1>7, FitBoth
<1>11. Fresh(ac) /\ ToSet(ab) \subseteq ToSet(ac)
  BY <1>5, <1>7, <1>8, <1>9, FreshThen DEF Fit
<1> HIDE DEF ac
<1>12. <<"node", root>> \in Done(ac)
  <2> HIDE DEF root
  <2> QED BY <1>2, <1>7, <1>10
<1>13. Fit(nodes, After(known, ac), roots, d)
  <2>1. only \subseteq After(known, ac) /\ roots \subseteq roots
    <3> HIDE DEF root
    <3> QED BY <1>12 DEF After
  <2> HIDE DEF only
  <2> QED BY <1>4, <2>1, FitMore
<1>14. Fit(nodes, known, roots, ad) /\ \A x : x \in Done(ad) <=> x \in Done(ac) \/ x \in Done(d)
  BY <1>10, <1>13, FitBoth
<1>15. Fresh(ad) /\ ToSet(ac) \subseteq ToSet(ad)
  BY <1>5, <1>8, <1>10, <1>11, FreshThen DEF Fit
<1> HIDE DEF ad
<1>16. \A n : <<"node", n>> \in Done(ad) => ScriptHas(script, n)
  <2>1. \A n : <<"node", n>> \in Done(b) => n = root
    <3> HIDE DEF root
    <3> QED BY <1>2
  <2> QED BY <1>1, <1>3, <1>4, <1>7, <1>10, <1>14, <2>1 DEF ScriptHas
<1>17. <<"node", root>> \in Done(ad)
  BY <1>12, <1>14
<1>18. \E st \in ToSet(ad) : st.op = "delete" /\ st.root = root /\ <<"CONTAINS_DATAFRAME">> \in st.paths
  <2>1. ToSet(a) \subseteq ToSet(ad)
    BY <1>9, <1>11, <1>15
  <2> QED BY <1>1, <2>1
<1> QED BY <1>0, <1>14, <1>15, <1>16, <1>17, <1>18

\* The nodes of a script name its frames and their fields.
LEMMA HasOfScript ==
  ASSUME NEW script, IsScript(script), NEW nodes,
         \A n \in nodes : Home(n) = ScriptNode(script) /\ Tag(n) \in ScriptTags => ScriptHas(script, n)
  PROVE  OfScript(nodes, script)
<1>1. /\ \A i : /\ Tag(FrameNode(script, i)) = "dataframe" /\ Home(FrameNode(script, i)) = ScriptNode(script)
                /\ FrameNode(script, i).id[4] = i
      /\ \A i, c : /\ Tag(AttributeNode(script, i, c)) = "attribute"
                   /\ Home(AttributeNode(script, i, c)) = ScriptNode(script)
                   /\ AttributeNode(script, i, c).id[4] = i /\ AttributeNode(script, i, c).id[5] = c
      /\ Tag(ScriptNode(script)) = "spark"
  BY DEF FrameNode, AttributeNode, ScriptNode, Node, Tag, Home, ScriptTags
<1>2. \A i : FrameNode(script, i) \in nodes => script.frames[i].anchor
  <2> SUFFICES ASSUME NEW i, FrameNode(script, i) \in nodes PROVE script.frames[i].anchor
    OBVIOUS
  <2> DEFINE n == FrameNode(script, i)
  <2>1. Tag(n) = "dataframe" /\ n.id[4] = i /\ ScriptHas(script, n)
    BY <1>1 DEF ScriptTags
  <2> HIDE DEF n
  <2>2. PICK k \in DOMAIN script.frames : FrameHas(script, k, n)
    BY <1>1, <2>1 DEF ScriptHas
  <2>3. script.frames[k].anchor /\ n = FrameNode(script, k)
    BY <1>1, <2>1, <2>2 DEF FrameHas, SharedTags
  <2> QED BY <1>1, <2>1, <2>3
<1>3. \A i, c : AttributeNode(script, i, c) \in nodes => c \in ToSet(script.frames[i].fields)
  <2> SUFFICES ASSUME NEW i, NEW c, AttributeNode(script, i, c) \in nodes
               PROVE  c \in ToSet(script.frames[i].fields)
    OBVIOUS
  <2> DEFINE n == AttributeNode(script, i, c)
  <2>1. Tag(n) = "attribute" /\ n.id[4] = i /\ n.id[5] = c /\ ScriptHas(script, n)
    BY <1>1 DEF ScriptTags
  <2> HIDE DEF n
  <2>2. PICK k \in DOMAIN script.frames : FrameHas(script, k, n)
    BY <1>1, <2>1 DEF ScriptHas
  <2>3. PICK b \in ToSet(script.frames[k].fields) : n = AttributeNode(script, k, b)
    BY <1>1, <2>1, <2>2 DEF FrameHas, SharedTags
  <2>4. AttributeNode(script, k, b).id[4] = k /\ AttributeNode(script, k, b).id[5] = b
    BY <1>1
  <2> QED BY <2>1, <2>3, <2>4
<1> QED BY <1>2, <1>3 DEF OfScript

\* A column is a field only in a workbook.
LEMMA NoColumns ==
  ASSUME NEW roots, \A root \in roots : root.label # "TableauWorkbook",
         NEW p, \A e \in RowsOf(p) : AptRow(roots, e)
  PROVE  FieldsHaveTables(p)
<1> SUFFICES ASSUME NEW e \in RowsOf(p), e.type = "HAS_FIELD", Tag(e.to) = "column" PROVE FALSE
  BY DEF FieldsHaveTables
<1>1. Home(e.from) \in roots /\ <<Tag(e.from), e.type, Tag(e.to)>> \in Hops
  BY HopTypesAre DEF AptRow
<1>2. Tag(e.from) = "datasource"
  BY <1>1 DEF Hops
<1>3. Home(e.from).label = "TableauWorkbook"
  BY <1>2 DEF Home, Node, ScriptTags
<1> QED BY <1>1, <1>3

\* The plan of a script.
THEOREM ScriptPlanned ==
  ASSUME NEW script, IsScript(script)
  PROVE  FilePlan(ScriptPlan(script))
<1> DEFINE steps == ScriptSteps(script)
           root == ScriptNode(script)
           roots == {root}
           leave == {<<"delete", r>> : r \in roots}
           p == ScriptPlan(script)
<1>1. p = Plan(roots, steps, GiveUp(steps), ScriptOwns)
  BY DEF ScriptPlan
<1>2. p.nodes = WrittenBy(steps) /\ p.steps = steps /\ p.roots = roots /\ p.owns = ScriptOwns
  BY <1>1 DEF Plan
<1>3. root \in roots /\ <<"delete", root>> \in leave
  OBVIOUS
<1>4. IsHome(root) /\ Tag(root) = "spark" /\ root.label = "SparkScript"
  BY ScriptsNodesAre DEF ScriptNode, Node
<1>5. \A n : <<"node", n>> \in Done(steps) => ScriptHas(script, n)
  <2> DEFINE nodes == {}
  <2>1. OfScript(nodes, script)
    BY DEF OfScript
  <2> HIDE DEF nodes, roots, leave
  <2> QED BY <1>3, <2>1, ScriptStepsFit
<1>6. OfScript(p.nodes, script)
  <2>1. \A n \in p.nodes : ScriptHas(script, n)
    <3> HIDE DEF steps, p
    <3> QED BY <1>2, <1>5, WrittenAre
  <2> HIDE DEF p
  <2> QED BY <2>1, HasOfScript
<1>7. /\ Fit(p.nodes, leave, roots, steps) /\ Fresh(steps)
      /\ \E st \in ToSet(steps) :
           st.op = "delete" /\ st.root = root /\ <<"CONTAINS_DATAFRAME">> \in st.paths
  <2> HIDE DEF p, roots, leave
  <2> QED BY <1>3, <1>6, ScriptStepsFit
<1> HIDE DEF steps, p, root
<1>8. FreshFirst(p)
  BY <1>2, <1>7 DEF FreshFirst, Fresh
<1>9. OwnsHomed(p)
  <2> PICK st \in ToSet(steps) :
        st.op = "delete" /\ st.root = root /\ <<"CONTAINS_DATAFRAME">> \in st.paths
    BY <1>7
  <2>1. PICK i \in DOMAIN steps : steps[i] = st
    BY DEF ToSet
  <2> QED BY <1>2, <1>4, <2>1 DEF OwnsHomed, ScriptOwns
<1>10. \A r \in roots : r.label # "TableauWorkbook"
  BY <1>4
<1> HIDE DEF roots
<1>11. \A e \in RowsOf(p) : AptRow(roots, e)
  BY <1>2, <1>7, SequenceIs DEF RowsOf, Fit, Apt
<1>12. FieldsHaveTables(p)
  BY <1>10, <1>11, NoColumns
<1>13. FilePlan(p)
  BY <1>1, <1>7, <1>8, <1>9, <1>12, FitPlan
<1> QED BY <1>13 DEF p

-----------------------------------------------------------------------------
\* The plan of a project.

\* A statement writes nothing a delete from root takes away.
Unwritten(st, root) ==
  /\ \A n \in NodesAt(st) : Tag(n) # "column" /\ (Homed(n) => Home(n) # root)
  /\ \A e \in EdgesAt(st) : e.type \in HopTypes => Home(e.from) # root
FreshEach(s) ==
  \A k \in DOMAIN s : s[k].op = "delete" => \A i \in 1..(k - 1) : Unwritten(s[i], s[k].root)

\* A sequence that deletes first is fresh.
LEMMA FreshIsEach ==
  ASSUME NEW s, Fresh(s)
  PROVE  FreshEach(s)
BY DEF Fresh, FreshEach, Unwritten

\* Of two sequences, the second may delete what the first has not written.
LEMMA FreshBoth ==
  ASSUME NEW a, IsSeq(a), FreshEach(a), NEW b, IsSeq(b), FreshEach(b),
         \A st \in ToSet(a), d \in ToSet(b) : d.op = "delete" => Unwritten(st, d.root)
  PROVE  FreshEach(Then(a, b))
<1> DEFINE c == Then(a, b)
<1>1. Joined(a, b, c)
  BY JoinIs DEF Then
<1> HIDE DEF c
<1>2. /\ Len(a) \in Nat /\ DOMAIN a = 1..Len(a) /\ Len(b) \in Nat /\ DOMAIN b = 1..Len(b)
      /\ Len(c) \in Nat /\ DOMAIN c = 1..Len(c)
  BY <1>1, SequenceIs DEF Joined
<1> SUFFICES ASSUME NEW k \in DOMAIN c, c[k].op = "delete", NEW i \in 1..(k - 1)
             PROVE  Unwritten(c[i], c[k].root)
  BY DEF FreshEach, c
<1>3. i \in DOMAIN c
  BY <1>2
<1>4. CASE k \in DOMAIN a
  <2>1. i \in DOMAIN a
    BY <1>2, <1>4
  <2> QED BY <1>1, <1>4, <2>1 DEF Joined, FreshEach
<1>5. CASE k \notin DOMAIN a
  <2>1. PICK j \in DOMAIN b : k = Len(a) + j
    BY <1>1, <1>5 DEF Joined
  <2>2. c[k] = b[j] /\ b[j] \in ToSet(b)
    BY <1>1, <2>1 DEF Joined, ToSet
  <2>3. CASE i \in DOMAIN a
    <3>1. c[i] = a[i] /\ a[i] \in ToSet(a)
      BY <1>1, <2>3 DEF Joined, ToSet
    <3> QED BY <2>2, <3>1
  <2>4. CASE i \notin DOMAIN a
    <3>1. PICK h \in DOMAIN b : i = Len(a) + h
      BY <1>1, <1>3, <2>4 DEF Joined
    <3>2. h \in 1..(j - 1)
      BY <1>2, <2>1, <3>1
    <3>3. c[i] = b[h]
      BY <1>1, <3>1 DEF Joined
    <3> QED BY <2>2, <3>2, <3>3 DEF FreshEach
  <2> QED BY <2>3, <2>4
<1> QED BY <1>4, <1>5

\* The same of the sequences of a sequence.
LEMMA FreshFlatten ==
  ASSUME NEW ss, IsSeq(ss), \A k \in DOMAIN ss : IsSeq(ss[k]) /\ FreshEach(ss[k]),
         \A k \in DOMAIN ss : \A l \in 1..(k - 1) : \A st \in ToSet(ss[l]), d \in ToSet(ss[k]) :
           d.op = "delete" => Unwritten(st, d.root)
  PROVE  FreshEach(FlattenSeq(ss))
<1> SUFFICES ASSUME NEW c, c = FlattenSeq(ss) PROVE FreshEach(c)
  OBVIOUS
<1>1. IsSeq(c)
  BY FlattenIs
<1>2. PICK from \in [DOMAIN ss -> Nat] :
        /\ \A k \in DOMAIN ss : \A j \in DOMAIN ss[k] :
             from[k] + j \in DOMAIN c /\ c[from[k] + j] = ss[k][j]
        /\ \A i \in DOMAIN c : \E k \in DOMAIN ss : \E j \in DOMAIN ss[k] : i = from[k] + j
        /\ \A l, k \in DOMAIN ss : l < k => from[l] + Len(ss[l]) <= from[k]
  BY FlattenIs
<1>3. /\ Len(ss) \in Nat /\ DOMAIN ss = 1..Len(ss) /\ Len(c) \in Nat /\ DOMAIN c = 1..Len(c)
      /\ \A k \in DOMAIN ss : Len(ss[k]) \in Nat /\ DOMAIN ss[k] = 1..Len(ss[k])
  BY <1>1, SequenceIs
<1> SUFFICES ASSUME NEW x \in DOMAIN c, c[x].op = "delete", NEW y \in 1..(x - 1)
             PROVE  Unwritten(c[y], c[x].root)
  BY DEF FreshEach
<1>4. y \in DOMAIN c
  BY <1>3
<1>5. PICK k \in DOMAIN ss : \E j \in DOMAIN ss[k] : x = from[k] + j
  BY <1>2
<1>6. PICK j \in DOMAIN ss[k] : x = from[k] + j
  BY <1>5
<1>7. PICK l \in DOMAIN ss : \E h \in DOMAIN ss[l] : y = from[l] + h
  BY <1>2, <1>4
<1>8. PICK h \in DOMAIN ss[l] : y = from[l] + h
  BY <1>7
<1>9. /\ c[x] = ss[k][j] /\ c[y] = ss[l][h] /\ ss[k][j] \in ToSet(ss[k]) /\ ss[l][h] \in ToSet(ss[l])
  BY <1>2, <1>6, <1>8 DEF ToSet
<1>10. /\ from[k] \in Nat /\ from[l] \in Nat /\ k \in Nat /\ l \in Nat /\ k >= 1 /\ l >= 1
       /\ Len(ss[k]) \in Nat /\ j \in 1..Len(ss[k]) /\ h \in 1..Len(ss[l]) /\ Len(ss[l]) \in Nat
  BY <1>3
<1>11. ~ (k < l)
  <2> SUFFICES ASSUME k < l PROVE FALSE
    OBVIOUS
  <2>1. from[k] + Len(ss[k]) <= from[l]
    BY <1>2
  <2>2. j \in Nat /\ j <= Len(ss[k]) /\ h \in Nat /\ h >= 1
    <3>1. j \in 1..Len(ss[k]) /\ Len(ss[k]) \in Nat
      BY <1>10
    <3>2. h \in 1..Len(ss[l]) /\ Len(ss[l]) \in Nat
      BY <1>10
    <3>3. j \in Nat /\ j <= Len(ss[k])
      BY <3>1
    <3>4. h \in Nat /\ h >= 1
      BY <3>2
    <3> QED BY <3>3, <3>4
  <2>3. x < y
    <3>1. from[k] \in Nat /\ from[l] \in Nat /\ Len(ss[k]) \in Nat
      BY <1>10
    <3>2. ASSUME NEW f \in Nat, NEW g \in Nat, NEW m \in Nat, f + m <= g, j <= m PROVE f + j < g + h
      BY <2>2, <3>2
    <3>3. from[k] + j < from[l] + h
      BY <2>1, <2>2, <3>1, <3>2
    <3> QED BY <1>6, <1>8, <3>3
  <2>4. x \in Nat /\ y \in 1..(x - 1)
    BY <1>3
  <2> QED BY <2>3, <2>4
<1>12. CASE l = k
  <2>1. h \in 1..(j - 1)
    BY <1>6, <1>8, <1>10, <1>12
  <2> QED BY <1>9, <1>12, <2>1 DEF FreshEach
<1>13. CASE l < k
  <2>1. l \in 1..(k - 1)
    BY <1>10, <1>13
  <2> QED BY <1>9, <2>1
<1> QED BY <1>10, <1>11, <1>12, <1>13

\* The node of a project, which is of no file.
LEMMA ProjectNodeIs ==
  ASSUME NEW project
  PROVE  /\ \A roots : AptNode(roots, ProjectNode(project))
         /\ ProjectNode(project).label # "Table" /\ PlainEnd(ProjectNode(project))
         /\ Tag(ProjectNode(project)) = "project" /\ ~ Homed(ProjectNode(project))
<1>1. /\ ProjectNode(project).label = "Project" /\ Tag(ProjectNode(project)) = "project"
  BY DEF ProjectNode, Node, Tag
<1> QED BY <1>1 DEF AptNode, Homed, PlainEnd, BookTags, ScriptTags

\* One module of a project: its script, and the edge to it.
LEMMA ModuleStepsFit ==
  ASSUME NEW project, NEW k, IsScript(project.modules[k]), NEW nodes,
         OfScript(nodes, project.modules[k]), NEW known,
         <<"node", ProjectNode(project)>> \in known,
         <<"delete", ScriptNode(project.modules[k])>> \in known,
         NEW roots, ScriptNode(project.modules[k]) \in roots
  PROVE  /\ Fit(nodes, known, roots, ModuleSteps(project, k)) /\ Fresh(ModuleSteps(project, k))
         /\ \A n : <<"node", n>> \in Done(ModuleSteps(project, k)) => ScriptHas(project.modules[k], n)
         /\ <<"node", ScriptNode(project.modules[k])>> \in Done(ModuleSteps(project, k))
         /\ \E st \in ToSet(ModuleSteps(project, k)) :
              /\ st.op = "delete" /\ st.root = ScriptNode(project.modules[k])
              /\ <<"CONTAINS_DATAFRAME">> \in st.paths
<1> DEFINE script == project.modules[k]
           root == ScriptNode(script)
           top == ProjectNode(project)
           a == ScriptSteps(script)
           b == <<OneEdge(top, "CONTAINS_SCRIPT", root)>>
           c == Then(a, b)
           more == After(known, a)
           both == {<<"node", top>>, <<"node", root>>}
<1>0. ModuleSteps(project, k) = c
  BY DEF ModuleSteps, Then
<1>1. /\ Fit(nodes, known, roots, a) /\ Fresh(a)
      /\ \A n : <<"node", n>> \in Done(a) => ScriptHas(script, n)
      /\ <<"node", root>> \in Done(a)
      /\ \E st \in ToSet(a) : st.op = "delete" /\ st.root = root /\ <<"CONTAINS_DATAFRAME">> \in st.paths
  BY ScriptStepsFit
<1>2. PlainEnd(root) /\ PlainEnd(top)
  BY ScriptsNodesAre, ProjectNodeIs DEF PlainEnd
<1>3. Link("CONTAINS_SCRIPT")
  BY SparkTypesAre
<1>4. Fit(nodes, both, roots, b) /\ \A n : <<"node", n>> \notin Done(b)
  <2>1. \A n \in {top, root} \cap nodes : <<"node", n>> \in both
    OBVIOUS
  <2> HIDE DEF top, root, both
  <2>2. AptRow(roots, Edge(top, "CONTAINS_SCRIPT", root)) /\ Ready(nodes, both, Edge(top, "CONTAINS_SCRIPT", root))
    BY <1>2, <1>3, <2>1, PlainLinkIs
  <2> QED BY <2>2, FitLink
<1>5. \A st \in ToSet(b) : st.op # "delete"
  <2>1. \A r : <<"delete", r>> \notin both
    OBVIOUS
  <2> HIDE DEF both, b
  <2> QED BY <1>4, <2>1, NoLeaveNoDelete
<1> HIDE DEF a, b
<1>6. Fit(nodes, more, roots, b)
  <2>1. both \subseteq more /\ roots \subseteq roots
    BY <1>1 DEF After
  <2> HIDE DEF both, more
  <2> QED BY <1>4, <2>1, FitMore
<1>7. Fit(nodes, known, roots, c) /\ \A x : x \in Done(c) <=> x \in Done(a) \/ x \in Done(b)
  BY <1>1, <1>6, FitBoth
<1>8. Fresh(c) /\ ToSet(a) \subseteq ToSet(c)
  BY <1>1, <1>5, <1>6, FreshThen DEF Fit
<1> HIDE DEF c
<1>9. \A n : <<"node", n>> \in Done(c) => ScriptHas(script, n)
  BY <1>1, <1>4, <1>7
<1>10. <<"node", root>> \in Done(c)
  BY <1>1, <1>7
<1>11. \E st \in ToSet(c) : st.op = "delete" /\ st.root = root /\ <<"CONTAINS_DATAFRAME">> \in st.paths
  BY <1>1, <1>8
<1> QED BY <1>0, <1>7, <1>8, <1>9, <1>10, <1>11

\* The imports between the modules of a project.
LEMMA ImportStepsFit ==
  ASSUME NEW project, IsSeq(project.imports), NEW nodes, NEW known, NEW roots,
         \A n \in nodes : Tag(n) = "spark" => <<"node", n>> \in known
  PROVE  /\ Fit(nodes, known, roots, ImportSteps(project))
         /\ \A n : <<"node", n>> \notin Done(ImportSteps(project))
<1> DEFINE items == project.imports
           step(e) == <<OneEdge(ScriptNode(project.modules[e[1]]), "IMPORTS",
                                ScriptNode(project.modules[e[2]]))>>
           ss == [i \in DOMAIN items |-> step(items[i])]
<1>1. ImportSteps(project) = FlattenSeq(ss)
  BY DEF ImportSteps, Each
<1>2. ASSUME NEW e
      PROVE  Fit(nodes, known, roots, step(e)) /\ \A n : <<"node", n>> \notin Done(step(e))
  <2> DEFINE from == ScriptNode(project.modules[e[1]])
             to == ScriptNode(project.modules[e[2]])
  <2>1. PlainEnd(from) /\ PlainEnd(to) /\ Tag(from) = "spark" /\ Tag(to) = "spark"
    BY DEF ScriptNode, Node, PlainEnd, Tag
  <2>2. Link("IMPORTS")
    BY SparkTypesAre
  <2> HIDE DEF from, to
  <2>3. AptRow(roots, Edge(from, "IMPORTS", to)) /\ Ready(nodes, known, Edge(from, "IMPORTS", to))
    BY <2>1, <2>2, PlainLinkIs
  <2> QED BY <2>3, FitLink DEF from, to
<1>3. Over(ss, items) /\ \A i \in DOMAIN items : ss[i] = step(items[i])
  BY DEF Over
<1>4. IsSeq(items)
  OBVIOUS
<1> HIDE DEF items, step, ss
<1>5. \A i \in DOMAIN items : Fit(nodes, known, roots, ss[i])
  BY <1>2, <1>3
<1>6. /\ Fit(nodes, known, roots, FlattenSeq(ss))
      /\ \A x : x \in Done(FlattenSeq(ss)) <=> \E i \in DOMAIN items : x \in Done(ss[i])
  BY <1>3, <1>4, <1>5, EachFits
<1>7. \A n : <<"node", n>> \notin Done(FlattenSeq(ss))
  <2>1. \A i \in DOMAIN items : \A n : <<"node", n>> \notin Done(ss[i])
    BY <1>2, <1>3
  <2> QED BY <1>6, <2>1
<1> QED BY <1>1, <1>6, <1>7

\* The nodes of a project are its own and those of its modules, and no two modules have
\* a DataFrame in common.
ProjectHas(project, n) ==
  \/ n = ProjectNode(project)
  \/ \E k \in DOMAIN project.modules : ScriptHas(project.modules[k], n)

\* What a script writes of its own names the script.
LEMMA HasHome ==
  ASSUME NEW script, NEW n, ScriptHas(script, n), Tag(n) \in ScriptTags
  PROVE  Home(n) = ScriptNode(script) /\ (Tag(n) = "spark" => n = ScriptNode(script))
<1>1. /\ \A i : Tag(FrameNode(script, i)) = "dataframe" /\ Home(FrameNode(script, i)) = ScriptNode(script)
      /\ \A i, c : /\ Tag(AttributeNode(script, i, c)) = "attribute"
                   /\ Home(AttributeNode(script, i, c)) = ScriptNode(script)
      /\ Home(ScriptNode(script)) = ScriptNode(script)
  BY DEF FrameNode, AttributeNode, ScriptNode, Node, Tag, Home, ScriptTags
<1> QED BY <1>1 DEF ScriptHas, FrameHas, SharedTags, ScriptTags

\* A node of the project that a module's file has is that module's.
LEMMA HasOfModules ==
  ASSUME NEW project, IsProject(project), NEW nodes, \A n \in nodes : ProjectHas(project, n)
  PROVE  \A k \in DOMAIN project.modules : OfScript(nodes, project.modules[k])
<1> SUFFICES ASSUME NEW k \in DOMAIN project.modules
             PROVE  OfScript(nodes, project.modules[k])
  OBVIOUS
<1> DEFINE script == project.modules[k]
<1>1. ASSUME NEW n \in nodes, Home(n) = ScriptNode(script), Tag(n) \in ScriptTags
      PROVE  ScriptHas(script, n)
  <2>1. n # ProjectNode(project)
    BY <1>1, ProjectNodeIs DEF Homed
  <2>2. PICK l \in DOMAIN project.modules : ScriptHas(project.modules[l], n)
    BY <2>1 DEF ProjectHas
  <2>3. ScriptNode(project.modules[l]) = ScriptNode(script)
    BY <1>1, <2>2, HasHome
  <2>4. project.modules[l].path = script.path
    BY <2>3 DEF ScriptNode, Node
  <2> QED BY <2>2, <2>4 DEF IsProject
<1>2. IsScript(script)
  BY DEF IsProject
<1> HIDE DEF script
<1>3. OfScript(nodes, script)
  BY <1>1, <1>2, HasOfScript
<1> QED BY <1>3 DEF script

\* A statement of one module is not deleted from the node of another.
LEMMA ModulesApart ==
  ASSUME NEW script, NEW root, root # ScriptNode(script), NEW st, Apt({ScriptNode(script)}, st)
  PROVE  Unwritten(st, root)
<1> DEFINE home == ScriptNode(script)
           roots == {home}
<1>1. Tag(home) = "spark"
  BY DEF ScriptNode, Node, Tag
<1>2. Apt(roots, st) /\ root # home
  OBVIOUS
<1> HIDE DEF home
<1>3. ASSUME NEW n \in NodesAt(st) PROVE Tag(n) # "column" /\ (Homed(n) => Home(n) # root)
  BY <1>1, <1>2 DEF Apt, AptNode
<1>4. ASSUME NEW e \in EdgesAt(st), e.type \in HopTypes PROVE Home(e.from) # root
  BY <1>2, <1>4 DEF Apt, AptRow
<1> QED BY <1>3, <1>4 DEF Unwritten

\* The statements of all modules.
AllModuleSteps(project) == FlattenSeq([k \in 1..Len(project.modules) |-> ModuleSteps(project, k)])
ModuleRoots(project) == {ScriptNode(m) : m \in ToSet(project.modules)}
Replaced(steps, root) ==
  \E st \in ToSet(steps) : st.op = "delete" /\ st.root = root /\ <<"CONTAINS_DATAFRAME">> \in st.paths

\* The statements for all modules of a project, each deleting only what is its own.
LEMMA AllModuleStepsFit ==
  ASSUME NEW project, IsProject(project), NEW nodes,
         \A k \in DOMAIN project.modules : OfScript(nodes, project.modules[k]),
         NEW known, <<"node", ProjectNode(project)>> \in known,
         \A root \in ModuleRoots(project) : <<"delete", root>> \in known
  PROVE  /\ Fit(nodes, known, ModuleRoots(project), AllModuleSteps(project))
         /\ FreshEach(AllModuleSteps(project))
         /\ \A n : <<"node", n>> \in Done(AllModuleSteps(project)) =>
              \E k \in DOMAIN project.modules : ScriptHas(project.modules[k], n)
         /\ \A root \in ModuleRoots(project) :
              /\ <<"node", root>> \in Done(AllModuleSteps(project))
              /\ Replaced(AllModuleSteps(project), root)
<1> DEFINE items == project.modules
           roots == ModuleRoots(project)
           ss == [k \in 1..Len(items) |-> ModuleSteps(project, k)]
<1>1. AllModuleSteps(project) = FlattenSeq(ss)
  BY DEF AllModuleSteps
<1>2. IsSeq(items) /\ Len(items) \in Nat /\ DOMAIN items = 1..Len(items)
  BY SequenceIs DEF IsProject
<1>3. DOMAIN ss = DOMAIN items /\ \A k \in DOMAIN items : ss[k] = ModuleSteps(project, k)
  BY <1>2
<1>4. IsSeq(ss)
  <2>1. \A k \in DOMAIN items : ss[k] \in ToSet(ss)
    BY <1>3 DEF ToSet
  <2>2. ss \in Seq(ToSet(ss))
    BY <1>2, <1>3, <2>1
  <2> QED BY <2>2 DEF IsSeq
<1> HIDE DEF ss
<1>5. ASSUME NEW k \in DOMAIN items
      PROVE  ScriptNode(items[k]) \in roots
  BY DEF ModuleRoots, ToSet
<1>6. ASSUME NEW k \in DOMAIN items
      PROVE  /\ Fit(nodes, known, {ScriptNode(items[k])}, ss[k]) /\ Fresh(ss[k])
             /\ \A n : <<"node", n>> \in Done(ss[k]) => ScriptHas(items[k], n)
             /\ <<"node", ScriptNode(items[k])>> \in Done(ss[k])
             /\ Replaced(ss[k], ScriptNode(items[k]))
  <2> DEFINE home == {ScriptNode(project.modules[k])}
  <2>1. ScriptNode(project.modules[k]) \in home
    OBVIOUS
  <2>2. IsScript(project.modules[k]) /\ OfScript(nodes, project.modules[k])
    BY DEF IsProject
  <2>3. <<"delete", ScriptNode(project.modules[k])>> \in known
    BY <1>5
  <2> HIDE DEF home
  <2>4. /\ Fit(nodes, known, home, ModuleSteps(project, k)) /\ Fresh(ModuleSteps(project, k))
        /\ \A n : <<"node", n>> \in Done(ModuleSteps(project, k)) => ScriptHas(project.modules[k], n)
        /\ <<"node", ScriptNode(project.modules[k])>> \in Done(ModuleSteps(project, k))
        /\ Replaced(ModuleSteps(project, k), ScriptNode(project.modules[k]))
    BY <2>1, <2>2, <2>3, ModuleStepsFit DEF Replaced
  <2> QED BY <1>3, <2>4 DEF home
<1>7. ASSUME NEW k \in DOMAIN items
      PROVE  Fit(nodes, known, roots, ss[k])
  <2> DEFINE home == {ScriptNode(items[k])}
  <2>1. home \subseteq roots /\ known \subseteq known
    BY <1>5
  <2>2. Fit(nodes, known, home, ss[k])
    BY <1>6
  <2> HIDE DEF home, roots
  <2> QED BY <2>1, <2>2, FitMore
<1> HIDE DEF roots
<1>8. Fit(nodes, known, roots, FlattenSeq(ss))
  BY <1>3, <1>4, <1>7, FitAll
<1>9. \A k \in DOMAIN ss : IsSeq(ss[k]) /\ FreshEach(ss[k])
  BY <1>3, <1>6, FreshIsEach DEF Fit
<1>10. FreshEach(FlattenSeq(ss))
  <2>1. ASSUME NEW k \in DOMAIN ss, NEW l \in 1..(k - 1), NEW st \in ToSet(ss[l]), NEW d \in ToSet(ss[k]),
               d.op = "delete"
        PROVE  Unwritten(st, d.root)
    <3>1. l \in DOMAIN items /\ k \in DOMAIN items /\ l # k
      BY <1>2, <1>3
    <3>2. d.root = ScriptNode(items[k])
      <4>1. Apt({ScriptNode(items[k])}, d)
        BY <1>6, <3>1 DEF Fit
      <4> QED BY <2>1, <4>1 DEF Apt
    <3>3. Apt({ScriptNode(items[l])}, st)
      BY <1>6, <3>1 DEF Fit
    <3>4. ScriptNode(items[k]) # ScriptNode(items[l])
      <4> SUFFICES ASSUME ScriptNode(items[k]) = ScriptNode(items[l]) PROVE FALSE
        OBVIOUS
      <4>1. items[k].path = items[l].path
        BY DEF ScriptNode, Node
      <4> QED BY <3>1, <4>1 DEF IsProject
    <3> QED BY <3>2, <3>3, <3>4, ModulesApart
  <2> HIDE DEF items
  <2> QED BY <1>4, <1>9, <2>1, FreshFlatten
<1>11. \A x : x \in Done(FlattenSeq(ss)) <=> \E k \in DOMAIN ss : x \in Done(ss[k])
  BY <1>4, <1>9, DoneFlatten
<1>12. \A n : <<"node", n>> \in Done(FlattenSeq(ss)) => \E k \in DOMAIN items : ScriptHas(items[k], n)
  BY <1>3, <1>6, <1>11
<1>13. ASSUME NEW root \in roots
       PROVE  <<"node", root>> \in Done(FlattenSeq(ss)) /\ Replaced(FlattenSeq(ss), root)
  <2>1. PICK k \in DOMAIN items : root = ScriptNode(items[k])
    BY DEF roots, ModuleRoots, ToSet
  <2>2. ToSet(ss[k]) \subseteq ToSet(FlattenSeq(ss))
    BY <1>3, <1>4, <1>9, FlattenedAre
  <2>3. Replaced(FlattenSeq(ss), root)
    BY <1>6, <2>1, <2>2 DEF Replaced
  <2>4. <<"node", root>> \in Done(FlattenSeq(ss))
    BY <1>3, <1>6, <1>11, <2>1
  <2> QED BY <2>3, <2>4
<1> QED BY <1>1, <1>8, <1>10, <1>12, <1>13 DEF roots

\* The plan of a project.
LEMMA ProjectStepsFit ==
  ASSUME NEW project, IsProject(project), NEW nodes, \A n \in nodes : ProjectHas(project, n),
         NEW known, \A root \in ModuleRoots(project) : <<"delete", root>> \in known,
         NEW steps, steps = Then(Then(<<OneNode(ProjectNode(project))>>, AllModuleSteps(project)),
                                 ImportSteps(project))
  PROVE  /\ Fit(nodes, known, ModuleRoots(project), steps) /\ FreshEach(steps)
         /\ \A n : <<"node", n>> \in Done(steps) => ProjectHas(project, n)
         /\ \A root \in ModuleRoots(project) : Replaced(steps, root)
<1> DEFINE roots == ModuleRoots(project)
           top == ProjectNode(project)
           a == <<OneNode(top)>>
           b == AllModuleSteps(project)
           c == ImportSteps(project)
           ab == Then(a, b)
           none == {}
           knownA == After(known, a)
           knownB == After(known, ab)
<1>1. \A files : AptNode(files, top) /\ top.label # "Table" /\ Tag(top) = "project" /\ ~ Homed(top)
  BY ProjectNodeIs
<1>2. steps = Then(ab, c)
  OBVIOUS
<1> HIDE DEF top, roots
<1>3. \A more : Fit(nodes, more, roots, a) /\ Done(a) = {<<"node", top>>}
  BY <1>1, FitNode
<1>4. Fit(nodes, known, roots, a) /\ Fit(nodes, none, roots, a)
  BY <1>3
<1>5. \A st \in ToSet(a) : st.op # "delete" /\ \A root : Unwritten(st, root)
  <2> DEFINE st0 == OneNode(top)
    <2>1. st0.op = "nodes" /\ st0.rows = {top}
    BY DEF OneNode, NodeRows
    <2>2. NodesAt(st0) = {top} /\ EdgesAt(st0) = {}
    BY <2>1 DEF NodesAt, EdgesAt
    <2>3. \A root : Unwritten(st0, root)
    BY <1>1, <2>2 DEF Unwritten
    <2>4. \A st \in ToSet(a) : st = st0
    BY DEF ToSet
  <2> QED BY <2>1, <2>3, <2>4
<1>6. <<"node", top>> \in Done(a) /\ \A n : <<"node", n>> \in Done(a) => n = top
  BY <1>3
<1> HIDE DEF a
<1>7. /\ Fit(nodes, knownA, roots, b) /\ FreshEach(b)
      /\ \A n : <<"node", n>> \in Done(b) => \E k \in DOMAIN project.modules : ScriptHas(project.modules[k], n)
      /\ \A root \in roots : <<"node", root>> \in Done(b) /\ Replaced(b, root)
  <2>1. \A k \in DOMAIN project.modules : OfScript(nodes, project.modules[k])
    BY HasOfModules
  <2>2. <<"node", ProjectNode(project)>> \in knownA /\ \A root \in ModuleRoots(project) : <<"delete", root>> \in knownA
    BY <1>6 DEF After, top
  <2> HIDE DEF knownA
  <2> QED BY <2>1, <2>2, AllModuleStepsFit DEF roots
<1> HIDE DEF b
<1>8. Fit(nodes, known, roots, ab) /\ \A x : x \in Done(ab) <=> x \in Done(a) \/ x \in Done(b)
  <2>1. ab = Then(a, b) /\ knownA = After(known, a)
    OBVIOUS
  <2> HIDE DEF ab, knownA
  <2> QED BY <1>4, <1>7, <2>1, FitBoth
<1>9. IsSeq(a) /\ IsSeq(b)
  BY <1>4, <1>7 DEF Fit
<1>10. FreshEach(ab)
  <2>1. FreshEach(a)
    <3>1. \A k \in DOMAIN a : a[k] \in ToSet(a)
      BY DEF ToSet
    <3> QED BY <1>5, <3>1 DEF FreshEach
  <2> HIDE DEF ab
  <2>2. FreshEach(Then(a, b))
    BY <1>5, <1>7, <1>9, <2>1, FreshBoth
  <2> QED BY <2>2 DEF ab
<1>11. ToSet(b) \subseteq ToSet(ab)
  <2>1. Joined(a, b, ab)
    BY <1>9, JoinIs DEF Then
  <2> HIDE DEF ab
  <2> QED BY <2>1 DEF Joined
<1> HIDE DEF ab, knownA
<1>12. ASSUME NEW n \in nodes, Tag(n) = "spark" PROVE <<"node", n>> \in knownB
  <2>1. PICK k \in DOMAIN project.modules : ScriptHas(project.modules[k], n)
    BY <1>1, <1>12 DEF ProjectHas, top
  <2>2. n = ScriptNode(project.modules[k])
    BY <1>12, <2>1, HasHome DEF ScriptTags
  <2>3. n \in roots
    BY <2>2 DEF roots, ModuleRoots, ToSet
  <2> QED BY <1>7, <1>8, <2>3 DEF After
<1>13. Fit(nodes, knownB, roots, c) /\ Fit(nodes, {<<"node", n>> : n \in nodes}, roots, c)
       /\ \A n : <<"node", n>> \notin Done(c)
  <2>1. IsSeq(project.imports)
    BY DEF IsProject
  <2> DEFINE all == {<<"node", n>> : n \in nodes}
  <2>2. \A n \in nodes : Tag(n) = "spark" => <<"node", n>> \in all
    OBVIOUS
  <2> HIDE DEF knownB, all
  <2>3. Fit(nodes, all, roots, c)
    BY <2>1, <2>2, ImportStepsFit
  <2>4. Fit(nodes, knownB, roots, c) /\ \A n : <<"node", n>> \notin Done(c)
    BY <1>12, <2>1, ImportStepsFit
  <2> QED BY <2>3, <2>4 DEF all
<1>14. \A st \in ToSet(c) : st.op # "delete"
  <2> DEFINE all == {<<"node", n>> : n \in nodes}
  <2>1. \A r : <<"delete", r>> \notin all
    OBVIOUS
  <2>2. Fit(nodes, all, roots, c)
    BY <1>13
  <2> HIDE DEF all, c
  <2> QED BY <2>1, <2>2, NoLeaveNoDelete
<1> HIDE DEF c
<1>15. Fit(nodes, known, roots, Then(ab, c)) /\ \A x : x \in Done(Then(ab, c)) <=> x \in Done(ab) \/ x \in Done(c)
  BY <1>8, <1>13, FitBoth
<1>16. IsSeq(ab) /\ IsSeq(c)
  BY <1>8, <1>13 DEF Fit
<1>17. FreshEach(Then(ab, c))
  <2>1. FreshEach(c)
    <3>1. \A k \in DOMAIN c : c[k] \in ToSet(c)
      BY DEF ToSet
    <3> QED BY <1>14, <3>1 DEF FreshEach
  <2> QED BY <1>10, <1>14, <1>16, <2>1, FreshBoth
<1>18. ToSet(ab) \subseteq ToSet(Then(ab, c))
  <2> DEFINE d == ab \o c
  <2>1. Joined(ab, c, d)
    BY <1>16, JoinIs
  <2>2. Then(ab, c) = d
    BY DEF Then
  <2> HIDE DEF d
  <2> QED BY <2>1, <2>2 DEF Joined
<1>19. \A n : <<"node", n>> \in Done(Then(ab, c)) => ProjectHas(project, n)
  BY <1>6, <1>7, <1>8, <1>13, <1>15 DEF ProjectHas, top
<1>20. \A root \in roots : Replaced(Then(ab, c), root)
  BY <1>7, <1>11, <1>18 DEF Replaced
<1> QED BY <1>2, <1>15, <1>17, <1>19, <1>20 DEF roots

\* The plan of a project.
THEOREM ProjectPlanned ==
  ASSUME NEW project, IsProject(project)
  PROVE  FilePlan(ProjectPlan(project))
<1> DEFINE steps == Then(Then(<<OneNode(ProjectNode(project))>>, AllModuleSteps(project)),
                         ImportSteps(project))
           roots == ModuleRoots(project)
           leave == {<<"delete", r>> : r \in roots}
           p == ProjectPlan(project)
<1>1. p = Plan(roots, steps, p.resume, ScriptOwns)
  BY DEF ProjectPlan, Plan, AllModuleSteps, ModuleRoots, Then
<1>2. p.nodes = WrittenBy(steps) /\ p.steps = steps /\ p.roots = roots /\ p.owns = ScriptOwns
  <2> HIDE DEF p, steps
  <2> QED BY <1>1 DEF Plan
<1>3. \A root \in roots : <<"delete", root>> \in leave
  OBVIOUS
<1>4. \A root \in roots : IsHome(root) /\ Tag(root) = "spark" /\ root.label = "SparkScript"
  <2> SUFFICES ASSUME NEW root \in roots PROVE IsHome(root) /\ Tag(root) = "spark" /\ root.label = "SparkScript"
    OBVIOUS
  <2>1. PICK m \in ToSet(project.modules) : root = ScriptNode(m)
    BY DEF ModuleRoots
  <2> QED BY <2>1 DEF IsHome, ScriptNode, Node, Tag, Home, ScriptTags
<1>5. \A n : <<"node", n>> \in Done(steps) => ProjectHas(project, n)
  <2> DEFINE nodes == {}
  <2>1. \A n \in nodes : ProjectHas(project, n)
    OBVIOUS
  <2>2. steps = Then(Then(<<OneNode(ProjectNode(project))>>, AllModuleSteps(project)), ImportSteps(project))
    OBVIOUS
  <2> HIDE DEF nodes, leave, steps
  <2> QED BY <1>3, <2>1, <2>2, ProjectStepsFit
<1>6. \A n \in p.nodes : ProjectHas(project, n)
  <2> HIDE DEF steps, p
  <2> QED BY <1>2, <1>5, WrittenAre
<1>7. /\ Fit(p.nodes, leave, roots, steps) /\ FreshEach(steps)
      /\ \A root \in roots : Replaced(steps, root)
  <2>1. steps = Then(Then(<<OneNode(ProjectNode(project))>>, AllModuleSteps(project)), ImportSteps(project))
    OBVIOUS
  <2> HIDE DEF p, leave, steps
  <2> QED BY <1>3, <1>6, <2>1, ProjectStepsFit
<1> HIDE DEF steps, p
<1>8. FreshFirst(p)
  BY <1>2, <1>7 DEF FreshFirst, FreshEach, Unwritten
<1>9. OwnsHomed(p)
  <2>1. ASSUME NEW root \in roots
        PROVE  \E i \in DOMAIN steps :
                 steps[i].op = "delete" /\ steps[i].root = root /\ <<"CONTAINS_DATAFRAME">> \in steps[i].paths
    BY <1>7 DEF Replaced, ToSet
  <2> HIDE DEF roots
  <2> QED BY <1>2, <1>4, <2>1 DEF OwnsHomed, ScriptOwns
<1>10. \A r \in roots : r.label # "TableauWorkbook"
  BY <1>4
<1> HIDE DEF roots
<1>11. \A e \in RowsOf(p) : AptRow(roots, e)
  BY <1>2, <1>7, SequenceIs DEF RowsOf, Fit, Apt
<1>12. FieldsHaveTables(p)
  BY <1>10, <1>11, NoColumns
<1>13. FilePlan(p)
  BY <1>1, <1>7, <1>8, <1>9, <1>12, FitPlan
<1> QED BY <1>13 DEF p

-----------------------------------------------------------------------------
\* The plan of a workbook.

\* A batch without rows leaves nothing, so what is sent does what all statements do.
LEMMA FitSent ==
  ASSUME NEW nodes, NEW known, NEW roots, NEW s, Fit(nodes, known, roots, s)
  PROVE  /\ Fit(nodes, known, roots, Sent(s)) /\ Done(Sent(s)) = Done(s)
         /\ Fresh(s) => Fresh(Sent(s))
         /\ \A st \in ToSet(s) : st.op = "delete" => st \in ToSet(Sent(s))
<1>1. s \in Seq(ToSet(s)) /\ Len(s) \in Nat /\ DOMAIN s = 1..Len(s)
  BY SequenceIs DEF Fit, IsSeq
<1> SUFFICES ASSUME NEW c, c = Sent(s)
             PROVE  /\ Fit(nodes, known, roots, c) /\ Done(c) = Done(s)
                    /\ Fresh(s) => Fresh(c)
                    /\ \A st \in ToSet(s) : st.op = "delete" => st \in ToSet(c)
  OBVIOUS
<1>2. c \in Seq(ToSet(s))
  BY <1>1, SentFacts
<1>3. PICK from \in [DOMAIN c -> Kept(s)] :
        /\ \A n \in DOMAIN c : c[n] = s[from[n]]
        /\ \A m, n \in DOMAIN c : m < n <=> from[m] < from[n]
        /\ \A i \in Kept(s) : \E n \in DOMAIN c : from[n] = i
  BY <1>1, SentFacts
<1>4. /\ \A i \in DOMAIN s : i \notin Kept(s) => Things(s[i]) = {} /\ s[i].op # "delete"
      /\ Kept(s) \subseteq DOMAIN s
  <2>1. ASSUME NEW i \in DOMAIN s, i \notin Kept(s) PROVE Things(s[i]) = {} /\ s[i].op # "delete"
    <3>1. s[i].rows = {} /\ s[i].op # "delete"
      BY <2>1 DEF Kept
    <3>2. NodesAt(s[i]) = {} /\ IdsAt(s[i]) = {} /\ EdgesAt(s[i]) = {}
      BY <3>1 DEF NodesAt, IdsAt, EdgesAt
    <3> QED BY <3>1, <3>2 DEF Things
  <2>2. Kept(s) \subseteq DOMAIN s
    BY DEF Kept
  <2> QED BY <2>1, <2>2
<1>5. IsSeq(c) /\ ToSet(c) \subseteq ToSet(s) /\ Len(c) \in Nat /\ DOMAIN c = 1..Len(c)
  <2>1. IsSeq(c) /\ ToSet(c) \subseteq ToSet(s)
    BY <1>2, SequencesAre
  <2> QED BY <2>1, SequenceIs
<1>6. \A n \in DOMAIN c : Earlier(s, from[n]) \subseteq Earlier(c, n)
  <2> SUFFICES ASSUME NEW n \in DOMAIN c, NEW k \in 1..(from[n] - 1), NEW x \in Things(s[k])
               PROVE  x \in Earlier(c, n)
    BY DEF Earlier
  <2>1. from[n] \in DOMAIN s /\ k \in DOMAIN s /\ k < from[n]
    BY <1>1, <1>3, <1>4
  <2>2. PICK m \in DOMAIN c : from[m] = k
    BY <1>3, <1>4, <2>1
  <2>3. m < n
    BY <1>3, <2>1, <2>2
  <2>4. m \in 1..(n - 1)
    BY <1>5, <2>3
  <2> QED BY <1>3, <2>2, <2>4 DEF Earlier
<1>7. Fit(nodes, known, roots, c)
  <2>1. Ordered(nodes, known, c)
    <3> SUFFICES ASSUME NEW n \in DOMAIN c, NEW e \in EdgesAt(c[n])
                 PROVE  Ready(nodes, known \cup Earlier(c, n), e)
      BY DEF Ordered
    <3>1. Ready(nodes, known \cup Earlier(s, from[n]), e)
      BY <1>3, <1>4 DEF Fit, Ordered
    <3>2. known \cup Earlier(s, from[n]) \subseteq known \cup Earlier(c, n)
      BY <1>6
    <3> QED BY <3>1, <3>2, ReadyMore
  <2>2. \A st \in ToSet(c) : Apt(roots, st) /\ Allowed(known, st)
    BY <1>5 DEF Fit
  <2> QED BY <1>5, <2>1, <2>2 DEF Fit
<1>8. Done(c) = Done(s)
  <2>1. ASSUME NEW st \in ToSet(s), NEW x \in Things(st) PROVE x \in Done(c)
    <3>1. PICK i \in DOMAIN s : st = s[i]
      BY DEF ToSet
    <3>2. i \in Kept(s)
      BY <1>4, <2>1, <3>1
    <3>3. PICK n \in DOMAIN c : from[n] = i
      BY <1>3, <3>2
    <3>4. c[n] = st /\ c[n] \in ToSet(c)
      BY <1>3, <3>1, <3>3 DEF ToSet
    <3> QED BY <3>4 DEF Done
  <2>2. Done(c) \subseteq Done(s)
    BY <1>5 DEF Done
  <2> QED BY <2>1, <2>2 DEF Done
<1>9. ASSUME Fresh(s) PROVE Fresh(c)
  <2> SUFFICES ASSUME NEW k \in DOMAIN c, c[k].op = "delete", NEW i \in 1..(k - 1)
               PROVE  NodesAt(c[i]) = {} /\ EdgesAt(c[i]) = {}
    BY DEF Fresh
  <2>1. i \in DOMAIN c /\ i < k
    BY <1>5
  <2>2. from[i] < from[k] /\ from[i] \in DOMAIN s /\ from[k] \in DOMAIN s
    BY <1>3, <1>4, <2>1
  <2>3. from[i] \in 1..(from[k] - 1)
    BY <1>1, <2>2
  <2> QED BY <1>3, <1>9, <2>1, <2>2, <2>3 DEF Fresh
<1>10. \A st \in ToSet(s) : st.op = "delete" => st \in ToSet(c)
  <2> SUFFICES ASSUME NEW st \in ToSet(s), st.op = "delete" PROVE st \in ToSet(c)
    OBVIOUS
  <2>1. PICK i \in DOMAIN s : st = s[i]
    BY DEF ToSet
  <2>2. i \in Kept(s)
    BY <1>4, <2>1
  <2> QED BY <1>3, <2>1, <2>2 DEF ToSet
<1> QED BY <1>7, <1>8, <1>9, <1>10

\* A statement that is fit whatever is sent before it, when the things in known are.
Sound(nodes, known, roots, st) ==
  Apt(roots, st) /\ st.op # "delete" /\ \A e \in EdgesAt(st) : Ready(nodes, known, e)

\* A sequence whose first n statements only need what is known, and the others these too.
LEMMA FitLed ==
  ASSUME NEW nodes, NEW known, NEW roots, NEW s, IsSeq(s), NEW n \in Nat,
         \A i \in DOMAIN s :
           Sound(nodes, IF i <= n THEN known ELSE known \cup Earlier(s, n + 1), roots, s[i])
  PROVE  Fit(nodes, known, roots, s) /\ \A st \in ToSet(s) : st.op # "delete"
<1>1. Len(s) \in Nat /\ DOMAIN s = 1..Len(s)
  BY SequenceIs
<1>2. Ordered(nodes, known, s)
  <2> SUFFICES ASSUME NEW i \in DOMAIN s, NEW e \in EdgesAt(s[i])
               PROVE  Ready(nodes, known \cup Earlier(s, i), e)
    BY DEF Ordered
  <2>1. CASE i <= n
    <3>1. Ready(nodes, known, e)
      BY <2>1 DEF Sound
    <3>2. known \subseteq known \cup Earlier(s, i)
      OBVIOUS
    <3> QED BY <3>1, <3>2, ReadyMore
  <2>2. CASE ~ (i <= n)
    <3>1. Ready(nodes, known \cup Earlier(s, n + 1), e)
      BY <2>2 DEF Sound
    <3>2. \A k \in 1..((n + 1) - 1) : k \in 1..(i - 1)
      BY <1>1, <2>2
    <3>3. known \cup Earlier(s, n + 1) \subseteq known \cup Earlier(s, i)
      BY <3>2 DEF Earlier
    <3> QED BY <3>1, <3>3, ReadyMore
  <2> QED BY <2>1, <2>2
<1>3. \A st \in ToSet(s) : Apt(roots, st) /\ st.op # "delete"
  BY DEF Sound, ToSet
<1> QED BY <1>2, <1>3 DEF Fit, Allowed

\* The nodes of a workbook.
LEMMA BookNodesAre ==
  ASSUME NEW w, NEW roots, WorkbookNode(w) \in roots
  PROVE  /\ Writable(roots, WorkbookNode(w)) /\ PlainEnd(WorkbookNode(w))
         /\ Tag(WorkbookNode(w)) = "workbook" /\ IsHome(WorkbookNode(w))
         /\ \A d : /\ Writable(roots, DatasourceNode(w, d)) /\ PlainEnd(DatasourceNode(w, d))
                   /\ Tag(DatasourceNode(w, d)) = "datasource" /\ Home(DatasourceNode(w, d)) = WorkbookNode(w)
         /\ \A s : /\ Writable(roots, Worksheet(w, s)) /\ PlainEnd(Worksheet(w, s))
                   /\ Tag(Worksheet(w, s)) = "worksheet" /\ Home(Worksheet(w, s)) = WorkbookNode(w)
         /\ \A d : /\ Writable(roots, Dashboard(w, d)) /\ PlainEnd(Dashboard(w, d))
                   /\ Tag(Dashboard(w, d)) = "dashboard" /\ Home(Dashboard(w, d)) = WorkbookNode(w)
         /\ \A p : /\ Writable(roots, Parameter(w, p)) /\ PlainEnd(Parameter(w, p))
                   /\ Tag(Parameter(w, p)) = "parameter" /\ Home(Parameter(w, p)) = WorkbookNode(w)
         /\ Writable(roots, Scope(w)) /\ PlainEnd(Scope(w)) /\ Tag(Scope(w)) = "scope"
         /\ Home(Scope(w)) = WorkbookNode(w)
         /\ \A s, b : /\ Writable(roots, Blend(w, s, b)) /\ PlainEnd(Blend(w, s, b))
                      /\ Tag(Blend(w, s, b)) = "blend" /\ Home(Blend(w, s, b)) = WorkbookNode(w)
<1>1. ASSUME NEW n, Tag(n) \in BookTags, Home(n) = WorkbookNode(w), n.label \notin {"Table", "?"}
      PROVE  Writable(roots, n) /\ PlainEnd(n)
  BY <1>1 DEF Writable, AptNode, PlainEnd, BookTags
<1>2. ASSUME NEW label, label \notin {"Table", "?"}, NEW id, id[1] \in BookTags, id[2] = w.path
      PROVE  /\ Writable(roots, Node(label, id)) /\ PlainEnd(Node(label, id))
             /\ Tag(Node(label, id)) = id[1] /\ Home(Node(label, id)) = WorkbookNode(w)
  <2> DEFINE n == Node(label, id)
  <2>1. n.label = label /\ n.id = id /\ Tag(n) = id[1]
    BY DEF Node, Tag
  <2> HIDE DEF n
  <2>2. Tag(n) \notin ScriptTags
    BY <1>2, <2>1 DEF ScriptTags, BookTags
  <2>3. Home(n) = WorkbookNode(w)
    BY <1>2, <2>1, <2>2 DEF Home, WorkbookNode
  <2> QED BY <1>1, <1>2, <2>1, <2>3 DEF n
<1>3. /\ Writable(roots, WorkbookNode(w)) /\ PlainEnd(WorkbookNode(w))
      /\ Tag(WorkbookNode(w)) = "workbook" /\ IsHome(WorkbookNode(w))
  <2> DEFINE id == <<"workbook", w.path>>
  <2>1. id[1] = "workbook" /\ id[2] = w.path /\ "workbook" \in BookTags
    BY DEF BookTags
  <2>2. WorkbookNode(w) = Node("TableauWorkbook", id)
    BY DEF WorkbookNode
  <2> HIDE DEF id
  <2> QED BY <1>2, <2>1, <2>2 DEF IsHome
<1>4. \A d : /\ Writable(roots, DatasourceNode(w, d)) /\ PlainEnd(DatasourceNode(w, d))
             /\ Tag(DatasourceNode(w, d)) = "datasource" /\ Home(DatasourceNode(w, d)) = WorkbookNode(w)
  <2> TAKE d
  <2> DEFINE id == <<"datasource", w.path, d>>
  <2>1. id[1] = "datasource" /\ id[2] = w.path /\ "datasource" \in BookTags
    BY DEF BookTags
  <2>2. DatasourceNode(w, d) = Node("TableauDatasource", id)
    BY DEF DatasourceNode
  <2> HIDE DEF id
  <2> QED BY <1>2, <2>1, <2>2
<1>5. \A s : /\ Writable(roots, Worksheet(w, s)) /\ PlainEnd(Worksheet(w, s))
             /\ Tag(Worksheet(w, s)) = "worksheet" /\ Home(Worksheet(w, s)) = WorkbookNode(w)
  <2> TAKE s
  <2> DEFINE id == <<"worksheet", w.path, s>>
  <2>1. id[1] = "worksheet" /\ id[2] = w.path /\ "worksheet" \in BookTags
    BY DEF BookTags
  <2>2. Worksheet(w, s) = Node("TableauWorksheet", id)
    BY DEF Worksheet
  <2> HIDE DEF id
  <2> QED BY <1>2, <2>1, <2>2
<1>6. \A d : /\ Writable(roots, Dashboard(w, d)) /\ PlainEnd(Dashboard(w, d))
             /\ Tag(Dashboard(w, d)) = "dashboard" /\ Home(Dashboard(w, d)) = WorkbookNode(w)
  <2> TAKE d
  <2> DEFINE id == <<"dashboard", w.path, d>>
  <2>1. id[1] = "dashboard" /\ id[2] = w.path /\ "dashboard" \in BookTags
    BY DEF BookTags
  <2>2. Dashboard(w, d) = Node("TableauDashboard", id)
    BY DEF Dashboard
  <2> HIDE DEF id
  <2> QED BY <1>2, <2>1, <2>2
<1>7. \A p : /\ Writable(roots, Parameter(w, p)) /\ PlainEnd(Parameter(w, p))
             /\ Tag(Parameter(w, p)) = "parameter" /\ Home(Parameter(w, p)) = WorkbookNode(w)
  <2> TAKE p
  <2> DEFINE id == <<"parameter", w.path, p>>
  <2>1. id[1] = "parameter" /\ id[2] = w.path /\ "parameter" \in BookTags
    BY DEF BookTags
  <2>2. Parameter(w, p) = Node("Parameter", id)
    BY DEF Parameter
  <2> HIDE DEF id
  <2> QED BY <1>2, <2>1, <2>2
<1>8. /\ Writable(roots, Scope(w)) /\ PlainEnd(Scope(w))
      /\ Tag(Scope(w)) = "scope" /\ Home(Scope(w)) = WorkbookNode(w)
  <2> DEFINE id == <<"scope", w.path>>
  <2>1. id[1] = "scope" /\ id[2] = w.path /\ "scope" \in BookTags
    BY DEF BookTags
  <2>2. Scope(w) = Node("TableauParameterScope", id)
    BY DEF Scope
  <2> HIDE DEF id
  <2> QED BY <1>2, <2>1, <2>2
<1>9. \A s, b : /\ Writable(roots, Blend(w, s, b)) /\ PlainEnd(Blend(w, s, b))
                /\ Tag(Blend(w, s, b)) = "blend" /\ Home(Blend(w, s, b)) = WorkbookNode(w)
  <2> TAKE s, b
  <2> DEFINE id == <<"blend", w.path, s, b>>
  <2>1. id[1] = "blend" /\ id[2] = w.path /\ "blend" \in BookTags
    BY DEF BookTags
  <2>2. Blend(w, s, b) = Node("WorksheetBlend", id)
    BY DEF Blend
  <2> HIDE DEF id
  <2> QED BY <1>2, <2>1, <2>2
<1> QED BY <1>3, <1>4, <1>5, <1>6, <1>7, <1>8, <1>9

\* What a workbook shares with others, and what it has that no delete reaches.
LEMMA BookOthersAre ==
  ASSUME NEW w, NEW roots
  PROVE  /\ \A c : /\ Writable(roots, ConnectionNode(c)) /\ PlainEnd(ConnectionNode(c))
                   /\ Tag(ConnectionNode(c)) = "connection"
         /\ \A d, t : /\ AptNode(roots, BookTable(d, t)) /\ BookTable(d, t).label = "Table"
                      /\ PlainEnd(BookTable(d, t)) /\ Tag(BookTable(d, t)) = "table"
         /\ \A d, z : /\ Writable(roots, Zone(w, d, z)) /\ PlainEnd(Zone(w, d, z)) /\ Tag(Zone(w, d, z)) = "zone"
         /\ \A d, h : /\ Writable(roots, Hierarchy(w, d, h)) /\ PlainEnd(Hierarchy(w, d, h))
                      /\ Tag(Hierarchy(w, d, h)) = "hierarchy"
         /\ \A d, x : x.kind \in DOMAIN HasDerived =>
              /\ Writable(roots, Derived(w, d, x)) /\ PlainEnd(Derived(w, d, x))
              /\ Tag(Derived(w, d, x)) \in {"GROUP", "SET", "BIN"}
<1>1. \A c : /\ Writable(roots, ConnectionNode(c)) /\ PlainEnd(ConnectionNode(c))
             /\ Tag(ConnectionNode(c)) = "connection"
  BY SharedNodesAre
<1>2. \A d, t : /\ AptNode(roots, BookTable(d, t)) /\ BookTable(d, t).label = "Table"
                /\ PlainEnd(BookTable(d, t)) /\ Tag(BookTable(d, t)) = "table"
  BY DEF BookTable, TableNode, Node, AptNode, Homed, PlainEnd, Tag, BookTags, ScriptTags
<1>3. \A d, z : /\ Writable(roots, Zone(w, d, z)) /\ PlainEnd(Zone(w, d, z)) /\ Tag(Zone(w, d, z)) = "zone"
  BY DEF Zone, Node, Writable, AptNode, Homed, PlainEnd, Tag, BookTags, ScriptTags
<1>4. \A d, h : /\ Writable(roots, Hierarchy(w, d, h)) /\ PlainEnd(Hierarchy(w, d, h))
                /\ Tag(Hierarchy(w, d, h)) = "hierarchy"
  BY DEF Hierarchy, Node, Writable, AptNode, Homed, PlainEnd, Tag, BookTags, ScriptTags
<1>5. ASSUME NEW d, NEW x, x.kind \in DOMAIN HasDerived
      PROVE  /\ Writable(roots, Derived(w, d, x)) /\ PlainEnd(Derived(w, d, x))
             /\ Tag(Derived(w, d, x)) \in {"GROUP", "SET", "BIN"}
  <2>1. x.kind \in {"GROUP", "SET", "BIN"}
    BY <1>5 DEF HasDerived
  <2> DEFINE n == Derived(w, d, x)
  <2>2. n.label = x.kind /\ Tag(n) = x.kind
    BY DEF Derived, Node, Tag
  <2> HIDE DEF n
  <2> QED BY <2>1, <2>2 DEF n, Writable, AptNode, Homed, PlainEnd, BookTags, ScriptTags
<1> QED BY <1>1, <1>2, <1>3, <1>4, <1>5

\* The node of a field: the table's column, or the datasource's own.
LEMMA FieldNodeIs ==
  ASSUME NEW w, NEW roots, WorkbookNode(w) \in roots, NEW d, NEW f
  PROVE  /\ Writable(roots, FieldNode(w, d, f)) /\ PlainEnd(FieldNode(w, d, f))
         /\ Tag(FieldNode(w, d, f)) = IF IsColumn(d, f) THEN "column" ELSE "calculated"
         /\ Homed(FieldNode(w, d, f)) => Home(FieldNode(w, d, f)) = WorkbookNode(w)
<1> DEFINE n == FieldNode(w, d, f)
<1>0. Tag(WorkbookNode(w)) = "workbook"
  BY BookNodesAre
<1>1. CASE IsColumn(d, f)
  <2>1. n.label = "Attribute" /\ Tag(n) = "column"
    BY <1>1 DEF FieldNode, Node, Tag
  <2> HIDE DEF n
  <2> QED BY <1>0, <1>1, <2>1 DEF n, Writable, AptNode, Homed, PlainEnd, BookTags, ScriptTags
<1>2. CASE ~ IsColumn(d, f)
  <2>1. n.label = "Attribute" /\ Tag(n) = "calculated" /\ Home(n) = WorkbookNode(w)
    BY <1>2 DEF FieldNode, WorkbookNode, Node, Tag, Home, ScriptTags
  <2> HIDE DEF n
  <2> QED BY <1>0, <1>2, <2>1 DEF n, Writable, AptNode, Homed, PlainEnd, BookTags, ScriptTags
<1> QED BY <1>1, <1>2

\* A batch of nodes, of tables, of edges.
LEMMA NodesSound ==
  ASSUME NEW nodes, NEW known, NEW roots, NEW R, \A n \in R : Writable(roots, n)
  PROVE  /\ Sound(nodes, known, roots, NodeRows(R))
         /\ \A n : <<"node", n>> \in Things(NodeRows(R)) <=> n \in R
         /\ \A e : <<"edge", e>> \notin Things(NodeRows(R))
<1> SUFFICES ASSUME NEW st, st = NodeRows(R)
             PROVE  /\ Sound(nodes, known, roots, st)
                    /\ \A n : <<"node", n>> \in Things(st) <=> n \in R
                    /\ \A e : <<"edge", e>> \notin Things(st)
  OBVIOUS
<1>1. st.op = "nodes" /\ st.rows = R
  BY DEF NodeRows
<1>2. NodesAt(st) = R /\ IdsAt(st) = {} /\ EdgesAt(st) = {}
  BY <1>1 DEF NodesAt, IdsAt, EdgesAt
<1>3. \A n \in R : AptNode(roots, n) /\ n.label # "Table"
  BY DEF Writable
<1>4. Sound(nodes, known, roots, st)
  BY <1>1, <1>2, <1>3 DEF Sound, Apt, ShapedStep
<1> QED BY <1>2, <1>4 DEF Things

\* A batch of tables.
LEMMA TablesSound ==
  ASSUME NEW nodes, NEW known, NEW roots, NEW R, NEW how,
         \A x \in R : AptNode(roots, x.table) /\ x.table.label = "Table"
  PROVE  /\ Sound(nodes, known, roots, TableRows(R, how))
         /\ \A x \in R : <<"node", x.table>> \in Things(TableRows(R, how))
         /\ \A e : <<"edge", e>> \notin Things(TableRows(R, how))
<1> SUFFICES ASSUME NEW st, st = TableRows(R, how)
             PROVE  /\ Sound(nodes, known, roots, st)
                    /\ \A x \in R : <<"node", x.table>> \in Things(st)
                    /\ \A e : <<"edge", e>> \notin Things(st)
  OBVIOUS
<1>1. st.op = "tables" /\ st.rows = R
  BY DEF TableRows
<1>2. NodesAt(st) = {x.table : x \in R} /\ IdsAt(st) = R /\ EdgesAt(st) = {}
  BY <1>1 DEF NodesAt, IdsAt, EdgesAt
<1>3. Sound(nodes, known, roots, st)
  BY <1>1, <1>2 DEF Sound, Apt, ShapedStep
<1> QED BY <1>2, <1>3 DEF Things

\* A batch of edges.
LEMMA RowsSound ==
  ASSUME NEW nodes, NEW known, NEW roots, NEW R,
         \A e \in R : AptRow(roots, e) /\ Ready(nodes, known, e)
  PROVE  /\ Sound(nodes, known, roots, EdgeRows(R))
         /\ \A n : <<"node", n>> \notin Things(EdgeRows(R))
         /\ \A e : <<"edge", e>> \in Things(EdgeRows(R)) <=> e \in R
<1> SUFFICES ASSUME NEW st, st = EdgeRows(R)
             PROVE  /\ Sound(nodes, known, roots, st)
                    /\ \A n : <<"node", n>> \notin Things(st)
                    /\ \A e : <<"edge", e>> \in Things(st) <=> e \in R
  OBVIOUS
<1>1. st.op = "edges" /\ st.rows = R
  BY DEF EdgeRows
<1>2. NodesAt(st) = {} /\ IdsAt(st) = {} /\ EdgesAt(st) = R
  BY <1>1 DEF NodesAt, IdsAt, EdgesAt
<1>3. \A e \in R : e = Edge(e.from, e.type, e.to)
  BY DEF AptRow
<1>4. Sound(nodes, known, roots, st)
  BY <1>1, <1>2, <1>3 DEF Sound, Apt, ShapedStep
<1> QED BY <1>2, <1>4 DEF Things

\* A row of a hop, between two nodes that are there, and after the first hop when it is a
\* second.
LEMMA HopRowIs ==
  ASSUME NEW roots, NEW from, NEW to, PlainEnd(from), PlainEnd(to), NEW type,
         <<Tag(from), type, Tag(to)>> \in Hops, Home(from) \in roots,
         Homed(to) => Home(to) = Home(from)
  PROVE  /\ AptRow(roots, Edge(from, type, to))
         /\ \A nodes, known :
              /\ <<"node", from>> \in known /\ <<"node", to>> \in known
              /\ type \in SecondTypes => <<"edge", Edge(Home(from), FirstHop[Tag(from)], from)>> \in known
              => Ready(nodes, known, Edge(from, type, to))
<1> DEFINE e == Edge(from, type, to)
<1>1. e.from = from /\ e.type = type /\ e.to = to /\ e = Edge(e.from, e.type, e.to)
  BY DEF Edge
<1>2. type \in HopTypes /\ type \notin {"HAS_COLUMN", "INHERITS_FROM"}
  <2>1. type \in HopTypes
    BY DEF HopTypes
  <2> QED BY <2>1, HopTypesAre
<1>3. Meant(from) = from /\ Meant(to) = to /\ MeantEnd(from) /\ MeantEnd(to) /\ Plain(e)
  BY <1>1 DEF PlainEnd, Meant, MeantEnd, Plain
<1> HIDE DEF e
<1>4. AptRow(roots, e)
  BY <1>1, <1>2, <1>3 DEF AptRow
<1>5. ASSUME NEW nodes, NEW known, <<"node", from>> \in known, <<"node", to>> \in known,
             type \in SecondTypes => <<"edge", Edge(Home(from), FirstHop[Tag(from)], from)>> \in known
      PROVE  Ready(nodes, known, e)
  BY <1>1, <1>3, <1>5 DEF Ready, Ends
<1> QED BY <1>4, <1>5 DEF e

\* What is there of a workbook once its nodes are.
Booked(w, known) ==
  /\ <<"node", WorkbookNode(w)>> \in known
  /\ \A d \in w.datasources :
       /\ <<"node", DatasourceNode(w, d.name)>> \in known
       /\ \A t \in d.tables : <<"node", BookTable(d, t)>> \in known
       /\ \A f \in d.fields : <<"node", FieldNode(w, d, f)>> \in known
  /\ \A s \in w.worksheets : <<"node", Worksheet(w, s.name)>> \in known
  /\ \A d \in w.dashboards : <<"node", Dashboard(w, d.name)>> \in known
  /\ \A p \in w.parameters : <<"node", Parameter(w, p)>> \in known

\* What is there stays there.
LEMMA BookedMore ==
  ASSUME NEW w, NEW known, Booked(w, known), NEW more, known \subseteq more
  PROVE  Booked(w, more)
BY DEF Booked

\* Of statements one after the other, the things of the first n.
LEMMA EarlierHas ==
  ASSUME NEW s, NEW n \in Nat, NEW i \in 1..n
  PROVE  Things(s[i]) \subseteq Earlier(s, n + 1)
<1>1. i \in 1..((n + 1) - 1)
  OBVIOUS
<1> QED BY <1>1 DEF Earlier

\* _write_nodes: batches that need nothing, but for the parameter scope's edges.
LEMMA NodeStepsFit ==
  ASSUME NEW w, IsWorkbook(w), NEW nodes, NEW roots, WorkbookNode(w) \in roots, NEW known
  PROVE  /\ Fit(nodes, known, roots, NodeSteps(w)) /\ \A st \in ToSet(NodeSteps(w)) : st.op # "delete"
         /\ Booked(w, Done(NodeSteps(w)))
         /\ \A e : <<"edge", e>> \in Done(NodeSteps(w)) => e.type # "HAS_FIELD"
<1> DEFINE root == WorkbookNode(w)
           params == {Parameter(w, p) : p \in w.parameters}
           r1 == {root}
           r2 == OfDatasources(w, LAMBDA d : {ConnectionNode(c) : c \in d.conns})
           r3 == {DatasourceNode(w, d.name) : d \in w.datasources}
           r4 == OfDatasources(w, LAMBDA d :
                   {[table |-> BookTable(d, t), id |-> BookTableId(d, t)] : t \in d.tables})
           r5 == OfDatasources(w, LAMBDA d : {FieldNode(w, d, f) : f \in d.fields})
           r6 == {Worksheet(w, s.name) : s \in w.worksheets}
           r7 == {Dashboard(w, d.name) : d \in w.dashboards}
           r8 == params
           r9 == IF w.scoped THEN {Scope(w)} ELSE {}
           r10 == IF w.scoped THEN {Edge(root, "HAS_PARAMETER_SCOPE", Scope(w))} ELSE {}
           r11 == IF w.scoped THEN Links(Scope(w), "HAS_PARAMETER", params) ELSE {}
           r12 == OfDashboards(w, LAMBDA d : {Zone(w, d.name, z.n) : z \in d.zones})
           r13 == OfDatasources(w, LAMBDA d : {Derived(w, d.name, x) : x \in d.derived})
           r14 == OfDatasources(w, LAMBDA d : {Hierarchy(w, d.name, l[1]) : l \in d.levels})
           s == NodeSteps(w)
           early == known \cup Earlier(s, 9 + 1)
<1>0. s = <<NodeRows(r1), NodeRows(r2), NodeRows(r3), TableRows(r4, "create"), NodeRows(r5), NodeRows(r6),
            NodeRows(r7), NodeRows(r8), NodeRows(r9), EdgeRows(r10), EdgeRows(r11), NodeRows(r12),
            NodeRows(r13), NodeRows(r14)>>
  BY DEF NodeSteps
<1>1. /\ \A n \in r1 : Writable(roots, n)
      /\ \A n \in r3 : Writable(roots, n)
      /\ \A n \in r6 : Writable(roots, n)
      /\ \A n \in r7 : Writable(roots, n)
      /\ \A n \in r8 : Writable(roots, n)
      /\ \A n \in r9 : Writable(roots, n)
  BY BookNodesAre
<1>2. /\ \A n \in r2 : Writable(roots, n)
      /\ \A n \in r12 : Writable(roots, n)
      /\ \A n \in r14 : Writable(roots, n)
      /\ \A x \in r4 : AptNode(roots, x.table) /\ x.table.label = "Table"
  BY BookOthersAre DEF OfDatasources, OfDashboards
<1>3. \A n \in r13 : Writable(roots, n)
  BY BookOthersAre DEF OfDatasources, IsWorkbook
<1>4. \A n \in r5 : Writable(roots, n)
  BY FieldNodeIs DEF OfDatasources
<1>5. /\ \A e \in r10 : e = Edge(root, "HAS_PARAMETER_SCOPE", Scope(w)) /\ Scope(w) \in r9
      /\ \A e \in r11 : Scope(w) \in r9 /\ \E n \in r8 : e = Edge(Scope(w), "HAS_PARAMETER", n)
  BY DEF Links
<1>6. /\ root \in r1
      /\ \A d \in w.datasources :
           /\ DatasourceNode(w, d.name) \in r3
           /\ \A f \in d.fields : FieldNode(w, d, f) \in r5
           /\ \A t \in d.tables : \E x \in r4 : x.table = BookTable(d, t)
      /\ \A x \in w.worksheets : Worksheet(w, x.name) \in r6
      /\ \A d \in w.dashboards : Dashboard(w, d.name) \in r7
      /\ \A p \in w.parameters : Parameter(w, p) \in r8
  <2>1. ASSUME NEW d \in w.datasources
        PROVE  /\ DatasourceNode(w, d.name) \in r3
               /\ \A f \in d.fields : FieldNode(w, d, f) \in r5
               /\ \A t \in d.tables : \E x \in r4 : x.table = BookTable(d, t)
    <3>1. \A f \in d.fields : FieldNode(w, d, f) \in r5
      BY DEF OfDatasources
    <3>2. ASSUME NEW t \in d.tables PROVE \E x \in r4 : x.table = BookTable(d, t)
      <4> DEFINE x == [table |-> BookTable(d, t), id |-> BookTableId(d, t)]
      <4>1. x \in r4 /\ x.table = BookTable(d, t)
        BY DEF OfDatasources
      <4> QED BY <4>1
    <3> QED BY <3>1, <3>2
  <2> QED BY <2>1
<1>7. /\ PlainEnd(root) /\ Tag(root) = "workbook" /\ Home(root) = root
      /\ PlainEnd(Scope(w)) /\ Tag(Scope(w)) = "scope" /\ Home(Scope(w)) = root
      /\ \A n \in r8 : PlainEnd(n) /\ Tag(n) = "parameter" /\ Home(n) = root
      /\ root \in roots
  BY BookNodesAre DEF IsHome
<1> HIDE DEF r1, r2, r3, r4, r5, r6, r7, r8, r9, r10, r11, r12, r13, r14, s, root
<1> DEFINE st1 == NodeRows(r1)
           st2 == NodeRows(r2)
           st3 == NodeRows(r3)
           st4 == TableRows(r4, "create")
           st5 == NodeRows(r5)
           st6 == NodeRows(r6)
           st7 == NodeRows(r7)
           st8 == NodeRows(r8)
           st9 == NodeRows(r9)
           st10 == EdgeRows(r10)
           st11 == EdgeRows(r11)
           st12 == NodeRows(r12)
           st13 == NodeRows(r13)
           st14 == NodeRows(r14)
<1>8. s = <<st1, st2, st3, st4, st5, st6, st7, st8, st9, st10, st11, st12, st13, st14>>
  BY <1>0
<1> HIDE DEF st1, st2, st3, st4, st5, st6, st7, st8, st9, st10, st11, st12, st13, st14
<1>9. /\ s \in Seq({st1, st2, st3, st4, st5, st6, st7, st8, st9, st10, st11, st12, st13, st14})
      /\ DOMAIN s = 1..14
      /\ s[1] = st1 /\ s[2] = st2 /\ s[3] = st3 /\ s[4] = st4 /\ s[5] = st5 /\ s[6] = st6 /\ s[7] = st7
      /\ s[8] = st8 /\ s[9] = st9 /\ s[10] = st10 /\ s[11] = st11 /\ s[12] = st12 /\ s[13] = st13
      /\ s[14] = st14
  BY <1>8
<1>10. \A more : /\ Sound(nodes, more, roots, st1) /\ Sound(nodes, more, roots, st2)
                 /\ Sound(nodes, more, roots, st3) /\ Sound(nodes, more, roots, st4)
                 /\ Sound(nodes, more, roots, st5) /\ Sound(nodes, more, roots, st6)
                 /\ Sound(nodes, more, roots, st7) /\ Sound(nodes, more, roots, st8)
                 /\ Sound(nodes, more, roots, st9) /\ Sound(nodes, more, roots, st12)
                 /\ Sound(nodes, more, roots, st13) /\ Sound(nodes, more, roots, st14)
  <2> TAKE more
  <2>1. /\ Sound(nodes, more, roots, NodeRows(r1)) /\ Sound(nodes, more, roots, NodeRows(r2))
        /\ Sound(nodes, more, roots, NodeRows(r3)) /\ Sound(nodes, more, roots, NodeRows(r5))
        /\ Sound(nodes, more, roots, NodeRows(r6)) /\ Sound(nodes, more, roots, NodeRows(r7))
    BY <1>1, <1>2, <1>4, NodesSound
  <2>2. /\ Sound(nodes, more, roots, NodeRows(r8)) /\ Sound(nodes, more, roots, NodeRows(r9))
        /\ Sound(nodes, more, roots, NodeRows(r12)) /\ Sound(nodes, more, roots, NodeRows(r13))
        /\ Sound(nodes, more, roots, NodeRows(r14))
    BY <1>1, <1>2, <1>3, NodesSound
  <2>3. Sound(nodes, more, roots, TableRows(r4, "create"))
    BY <1>2, TablesSound
  <2> QED BY <2>1, <2>2, <2>3 DEF st1, st2, st3, st4, st5, st6, st7, st8, st9, st12, st13, st14
<1>11. /\ \A n \in r1 : <<"node", n>> \in Things(st1)
       /\ \A n \in r3 : <<"node", n>> \in Things(st3)
       /\ \A n \in r5 : <<"node", n>> \in Things(st5)
       /\ \A n \in r6 : <<"node", n>> \in Things(st6)
       /\ \A n \in r7 : <<"node", n>> \in Things(st7)
       /\ \A n \in r8 : <<"node", n>> \in Things(st8)
       /\ \A n \in r9 : <<"node", n>> \in Things(st9)
       /\ \A x \in r4 : <<"node", x.table>> \in Things(st4)
  BY <1>1, <1>2, <1>4, NodesSound, TablesSound DEF st1, st3, st4, st5, st6, st7, st8, st9
<1>12. Things(st1) \cup Things(st8) \cup Things(st9) \subseteq early
  <2>1. 1 \in 1..9 /\ 8 \in 1..9 /\ 9 \in 1..9 /\ 9 \in Nat
    OBVIOUS
  <2>2. /\ Things(s[1]) \subseteq Earlier(s, 9 + 1) /\ Things(s[8]) \subseteq Earlier(s, 9 + 1)
        /\ Things(s[9]) \subseteq Earlier(s, 9 + 1)
    BY <2>1, EarlierHas
  <2> QED BY <1>9, <2>2
<1> HIDE DEF early
<1>13. \A e \in r10 : AptRow(roots, e) /\ Ready(nodes, early, e) /\ e.type # "HAS_FIELD"
  <2> SUFFICES ASSUME NEW e \in r10 PROVE AptRow(roots, e) /\ Ready(nodes, early, e) /\ e.type # "HAS_FIELD"
    OBVIOUS
  <2> DEFINE to == Scope(w)
  <2>1. e = Edge(root, "HAS_PARAMETER_SCOPE", to) /\ <<"node", to>> \in early /\ <<"node", root>> \in early
    BY <1>5, <1>6, <1>11, <1>12
  <2>2. PlainEnd(to) /\ Tag(to) = "scope" /\ Home(to) = root
    BY <1>7
  <2> HIDE DEF to
  <2>3. <<Tag(root), "HAS_PARAMETER_SCOPE", Tag(to)>> \in Hops
    BY <1>7, <2>2 DEF Hops
  <2>4. "HAS_PARAMETER_SCOPE" \notin SecondTypes
    BY DEF SecondTypes
  <2>5. AptRow(roots, e) /\ Ready(nodes, early, e)
    BY <1>7, <2>1, <2>2, <2>3, <2>4, HopRowIs
  <2>6. e.type = "HAS_PARAMETER_SCOPE"
    BY <2>1 DEF Edge
  <2> QED BY <2>5, <2>6
<1>14. \A e \in r11 : AptRow(roots, e) /\ Ready(nodes, early, e) /\ e.type # "HAS_FIELD"
  <2> SUFFICES ASSUME NEW e \in r11 PROVE AptRow(roots, e) /\ Ready(nodes, early, e) /\ e.type # "HAS_FIELD"
    OBVIOUS
  <2> DEFINE from == Scope(w)
  <2>1. PICK to \in r8 : e = Edge(from, "HAS_PARAMETER", to)
    BY <1>5
  <2>2. <<"node", to>> \in early /\ <<"node", from>> \in early
    BY <1>5, <1>11, <1>12
  <2>3. PlainEnd(from) /\ Tag(from) = "scope" /\ Home(from) = root
    BY <1>7
  <2>4. PlainEnd(to) /\ Tag(to) = "parameter" /\ Home(to) = root
    BY <1>7
  <2> HIDE DEF from
  <2>5. <<Tag(from), "HAS_PARAMETER", Tag(to)>> \in Hops
    BY <2>3, <2>4 DEF Hops
  <2>6. "HAS_PARAMETER" \notin SecondTypes
    BY DEF SecondTypes
  <2>7. AptRow(roots, e) /\ Ready(nodes, early, e)
    BY <1>7, <2>1, <2>2, <2>3, <2>4, <2>5, <2>6, HopRowIs
  <2>8. e.type = "HAS_PARAMETER"
    BY <2>1 DEF Edge
  <2> QED BY <2>7, <2>8
<1>15. /\ Sound(nodes, early, roots, st10) /\ Sound(nodes, early, roots, st11)
       /\ \A e : <<"edge", e>> \in Things(st10) <=> e \in r10
       /\ \A e : <<"edge", e>> \in Things(st11) <=> e \in r11
  BY <1>13, <1>14, RowsSound DEF st10, st11
<1>16. IsSeq(s) /\ ToSet(s) \subseteq {st1, st2, st3, st4, st5, st6, st7, st8, st9, st10, st11, st12, st13, st14}
  BY <1>9, SequencesAre
<1>17. \A i \in DOMAIN s :
         Sound(nodes, IF i <= 9 THEN known ELSE known \cup Earlier(s, 9 + 1), roots, s[i])
  <2>1. \A i \in DOMAIN s : i <= 9 => Sound(nodes, known, roots, s[i])
    <3>1. \A i \in 1..14 : i <= 9 => i \in {1, 2, 3, 4, 5, 6, 7, 8, 9}
      OBVIOUS
    <3> QED BY <1>9, <1>10, <3>1
  <2>2. \A i \in DOMAIN s : ~ (i <= 9) => Sound(nodes, early, roots, s[i])
    <3>1. \A i \in 1..14 : ~ (i <= 9) => i \in {10, 11, 12, 13, 14}
      OBVIOUS
    <3> QED BY <1>9, <1>10, <1>15, <3>1
  <2> QED BY <2>1, <2>2 DEF early
<1>18. Fit(nodes, known, roots, s) /\ \A st \in ToSet(s) : st.op # "delete"
  <2>1. 9 \in Nat
    OBVIOUS
  <2> QED BY <1>16, <1>17, <2>1, FitLed
<1>19. \A i \in 1..14 : Things(s[i]) \subseteq Done(s)
  BY <1>9 DEF Done, ToSet
<1>20. Booked(w, Done(s))
  <2>1. /\ Things(st1) \subseteq Done(s) /\ Things(st3) \subseteq Done(s) /\ Things(st4) \subseteq Done(s)
        /\ Things(st5) \subseteq Done(s) /\ Things(st6) \subseteq Done(s) /\ Things(st7) \subseteq Done(s)
        /\ Things(st8) \subseteq Done(s)
    <3>1. 1 \in 1..14 /\ 3 \in 1..14 /\ 4 \in 1..14 /\ 5 \in 1..14 /\ 6 \in 1..14 /\ 7 \in 1..14 /\ 8 \in 1..14
      OBVIOUS
    <3> QED BY <1>9, <1>19, <3>1
  <2>2. ASSUME NEW d \in w.datasources
        PROVE  /\ <<"node", DatasourceNode(w, d.name)>> \in Done(s)
               /\ \A t \in d.tables : <<"node", BookTable(d, t)>> \in Done(s)
               /\ \A f \in d.fields : <<"node", FieldNode(w, d, f)>> \in Done(s)
    BY <1>6, <1>11, <2>1
  <2>3. /\ <<"node", root>> \in Done(s)
        /\ \A x \in w.worksheets : <<"node", Worksheet(w, x.name)>> \in Done(s)
        /\ \A d \in w.dashboards : <<"node", Dashboard(w, d.name)>> \in Done(s)
        /\ \A p \in w.parameters : <<"node", Parameter(w, p)>> \in Done(s)
    BY <1>6, <1>11, <2>1
  <2> QED BY <2>2, <2>3 DEF Booked, root
<1>21. ASSUME NEW e, <<"edge", e>> \in Done(s) PROVE e.type # "HAS_FIELD"
  <2>1. PICK st \in ToSet(s) : <<"edge", e>> \in Things(st)
    BY <1>21 DEF Done
  <2>2. \A r : (\A n \in r : Writable(roots, n)) => <<"edge", e>> \notin Things(NodeRows(r))
    BY NodesSound
  <2>3. st \notin {st1, st2, st3, st5, st6, st7, st8, st9, st12, st13, st14}
    BY <1>1, <1>2, <1>3, <1>4, <2>1, <2>2 DEF st1, st2, st3, st5, st6, st7, st8, st9, st12, st13, st14
  <2>4. st # st4
    BY <1>2, <2>1, TablesSound DEF st4
  <2>5. e \in r10 \/ e \in r11
    BY <1>15, <1>16, <2>1, <2>3, <2>4
  <2> QED BY <1>13, <1>14, <2>5
<1> QED BY <1>18, <1>20, <1>21 DEF s

\* Between nodes that are there, but for blends, a row no delete follows can always be sent.
Free(n) == PlainEnd(n) /\ Tag(n) # "blend"
Placed(nodes, known) == \A n \in nodes : Tag(n) = "blend" \/ <<"node", n>> \in known
FreeRows(R) ==
  \A e \in R : \E from, to, type : Free(from) /\ Free(to) /\ Link(type) /\ e = Edge(from, type, to)

\* A batch of free rows needs only the nodes.
LEMMA FreeSound ==
  ASSUME NEW nodes, NEW known, Placed(nodes, known), NEW roots, NEW R, FreeRows(R)
  PROVE  /\ Sound(nodes, known, roots, EdgeRows(R))
         /\ \A n : <<"node", n>> \notin Things(EdgeRows(R))
         /\ \A e : <<"edge", e>> \in Things(EdgeRows(R)) => e.type # "HAS_FIELD"
<1>1. ASSUME NEW e \in R
      PROVE  AptRow(roots, e) /\ Ready(nodes, known, e) /\ e.type # "HAS_FIELD"
  <2>1. PICK from, to, type : Free(from) /\ Free(to) /\ Link(type) /\ e = Edge(from, type, to)
    BY DEF FreeRows
  <2>2. \A n \in {from, to} \cap nodes : <<"node", n>> \in known
    BY <2>1 DEF Free, Placed
  <2>3. AptRow(roots, e) /\ Ready(nodes, known, e)
    BY <2>1, <2>2, PlainLinkIs DEF Free
  <2>4. type # "HAS_FIELD" /\ e.type = type
    BY <2>1, HopTypesAre DEF Link, Edge
  <2> QED BY <2>3, <2>4
<1>2. /\ Sound(nodes, known, roots, EdgeRows(R))
      /\ \A n : <<"node", n>> \notin Things(EdgeRows(R))
      /\ \A e : <<"edge", e>> \in Things(EdgeRows(R)) <=> e \in R
  BY <1>1, RowsSound
<1> QED BY <1>1, <1>2

\* Edges from one free node are free rows.
LEMMA FreeLinks ==
  ASSUME NEW from, Free(from), NEW type, Link(type), NEW ends, \A n \in ends : Free(n)
  PROVE  FreeRows(Links(from, type, ends))
BY DEF FreeRows, Links

\* Edges from free nodes to free nodes are free rows.
LEMMA FreeLinkAll ==
  ASSUME NEW froms, \A n \in froms : Free(n), NEW type, Link(type), NEW ends, \A n \in ends : Free(n)
  PROVE  FreeRows(LinkAll(froms, type, ends))
BY DEF FreeRows, LinkAll, Links

\* Free rows together are free rows.
LEMMA FreeUnion ==
  ASSUME NEW S, \A R \in S : FreeRows(R)
  PROVE  FreeRows(UNION S)
BY DEF FreeRows

\* The edge types of the Tableau writer that no delete follows.
LEMMA BookTypesAre ==
  \A type \in {"CONNECTS_VIA", "READS_TABLE", "DERIVES_FROM", "DERIVES_FROM_REF", "FILTERS_BY", "SORTS_BY",
               "HAS_ZONE", "CONTROLS_PARAMETER", "FILTERS_VIA_ACTION", "SETS_PARAMETER", "HAS_GROUP",
               "HAS_SET", "HAS_BIN", "HAS_HIERARCHY", "HAS_LEVEL", "DERIVES_FROM_CROSS_DS",
               "BLENDS_WITH"} : Link(type)
BY HopTypesAre DEF Link

\* All nodes of a workbook but its blends are free.
LEMMA BookNodesFree ==
  ASSUME NEW w, IsWorkbook(w)
  PROVE  /\ \A d : Free(DatasourceNode(w, d))
         /\ \A s : Free(Worksheet(w, s))
         /\ \A d : Free(Dashboard(w, d))
         /\ \A p : Free(Parameter(w, p))
         /\ \A c : Free(ConnectionNode(c))
         /\ \A d, t : Free(BookTable(d, t))
         /\ \A d, z : Free(Zone(w, d, z))
         /\ \A d, h : Free(Hierarchy(w, d, h))
         /\ \A d \in w.datasources : \A x \in d.derived : Free(Derived(w, d.name, x))
         /\ \A d, f : Free(FieldNode(w, d, f))
         /\ \A d, name : \A n \in FieldOf(w, d, name) : Free(n)
         /\ \A r : \A n \in FieldIn(w, r) : Free(n)
<1> DEFINE roots == {WorkbookNode(w)}
<1>1. WorkbookNode(w) \in roots
  OBVIOUS
<1> HIDE DEF roots
<1>2. /\ \A d : Free(DatasourceNode(w, d))
      /\ \A s : Free(Worksheet(w, s))
      /\ \A d : Free(Dashboard(w, d))
      /\ \A p : Free(Parameter(w, p))
  BY <1>1, BookNodesAre DEF Free
<1>3. /\ \A c : Free(ConnectionNode(c))
      /\ \A d, t : Free(BookTable(d, t))
      /\ \A d, z : Free(Zone(w, d, z))
      /\ \A d, h : Free(Hierarchy(w, d, h))
  BY BookOthersAre DEF Free
<1>4. \A d \in w.datasources : \A x \in d.derived : Free(Derived(w, d.name, x))
  BY BookOthersAre DEF Free, IsWorkbook
<1>5. \A d, f : Free(FieldNode(w, d, f))
  BY <1>1, FieldNodeIs DEF Free
<1>6. \A d, name : \A n \in FieldOf(w, d, name) : Free(n)
  BY <1>5 DEF FieldOf
<1>7. \A r : \A n \in FieldIn(w, r) : Free(n)
  BY <1>6 DEF FieldIn
<1> QED BY <1>2, <1>3, <1>4, <1>5, <1>6, <1>7

\* _write_relationships of the datasources: a field is hung below a datasource that hangs below
\* the workbook, and where it is a column there is a table that has it.
LEMMA DatasourceEdgesFit ==
  ASSUME NEW w, IsWorkbook(w), NEW nodes, NEW known, Placed(nodes, known), Booked(w, known),
         NEW roots, WorkbookNode(w) \in roots
  PROVE  /\ Fit(nodes, known, roots, DatasourceEdges(w)) /\ \A st \in ToSet(DatasourceEdges(w)) : st.op # "delete"
         /\ \A n : <<"node", n>> \notin Done(DatasourceEdges(w))
         /\ \A e : <<"edge", e>> \in Done(DatasourceEdges(w)) /\ e.type = "HAS_FIELD" /\ Tag(e.to) = "column" =>
              \E x : <<"edge", x>> \in Done(DatasourceEdges(w)) /\ Plain(x) /\ x.type = "HAS_COLUMN" /\ x.to = e.to
<1> DEFINE root == WorkbookNode(w)
           r1 == Links(root, "CONTAINS_DATASOURCE", {DatasourceNode(w, d.name) : d \in w.datasources})
           r2 == OfDatasources(w, LAMBDA d :
                   Links(DatasourceNode(w, d.name), "CONNECTS_VIA", {ConnectionNode(c) : c \in d.conns}))
           r3 == OfDatasources(w, LAMBDA d :
                   Links(DatasourceNode(w, d.name), "READS_TABLE", {BookTable(d, t) : t \in d.tables}))
           r4 == OfDatasources(w, LAMBDA d :
                   Links(DatasourceNode(w, d.name), "HAS_FIELD", {FieldNode(w, d, f) : f \in d.fields}))
           r5 == OfDatasources(w, LAMBDA d :
                   LinkAll({BookTable(d, t) : t \in d.tables}, "HAS_COLUMN",
                           {FieldNode(w, d, f) : f \in {g \in d.fields : IsColumn(d, g)}}))
           r6 == OfDatasources(w, LAMBDA d : UNION {
                   LinkAll(FieldOf(w, d, p[1]), "DERIVES_FROM", FieldOf(w, d, p[2])) : p \in d.derives})
           r7 == OfDatasources(w, LAMBDA d : UNION {
                   LinkAll(FieldOf(w, d, p[1]), "DERIVES_FROM_REF", FieldOf(w, d, p[2])) : p \in d.derives})
           s == DatasourceEdges(w)
           early == known \cup Earlier(s, 1 + 1)
<1>0. s = <<EdgeRows(r1), EdgeRows(r2), EdgeRows(r3), EdgeRows(r4), EdgeRows(r5), EdgeRows(r6), EdgeRows(r7)>>
  BY DEF DatasourceEdges
<1>1. FreeRows(r2)
  <2>1. \A d \in w.datasources :
          FreeRows(Links(DatasourceNode(w, d.name), "CONNECTS_VIA", {ConnectionNode(c) : c \in d.conns}))
    BY BookNodesFree, BookTypesAre, FreeLinks
  <2> QED BY <2>1, FreeUnion DEF OfDatasources
<1>2. FreeRows(r3)
  <2>1. \A d \in w.datasources :
          FreeRows(Links(DatasourceNode(w, d.name), "READS_TABLE", {BookTable(d, t) : t \in d.tables}))
    BY BookNodesFree, BookTypesAre, FreeLinks
  <2> QED BY <2>1, FreeUnion DEF OfDatasources
<1>3. FreeRows(r6) /\ FreeRows(r7)
  <2>1. ASSUME NEW type \in {"DERIVES_FROM", "DERIVES_FROM_REF"}, NEW d \in w.datasources
        PROVE  FreeRows(UNION {LinkAll(FieldOf(w, d, p[1]), type, FieldOf(w, d, p[2])) : p \in d.derives})
    <3>1. \A p \in d.derives : FreeRows(LinkAll(FieldOf(w, d, p[1]), type, FieldOf(w, d, p[2])))
      BY BookNodesFree, BookTypesAre, FreeLinkAll
    <3> QED BY <3>1, FreeUnion
  <2> QED BY <2>1, FreeUnion DEF OfDatasources
<1>4. \A e \in r1 : \E d \in w.datasources : e = Edge(root, "CONTAINS_DATASOURCE", DatasourceNode(w, d.name))
  BY DEF Links
<1>5. \A d \in w.datasources : Edge(root, "CONTAINS_DATASOURCE", DatasourceNode(w, d.name)) \in r1
  BY DEF Links
<1>6. \A e \in r4 : \E d \in w.datasources : \E f \in d.fields :
        e = Edge(DatasourceNode(w, d.name), "HAS_FIELD", FieldNode(w, d, f))
  BY DEF OfDatasources, Links
<1>7. \A e \in r5 : \E d \in w.datasources : \E t \in d.tables, f \in d.fields :
        IsColumn(d, f) /\ e = Edge(BookTable(d, t), "HAS_COLUMN", FieldNode(w, d, f))
  BY DEF OfDatasources, LinkAll, Links
<1>8. \A d \in w.datasources : \A t \in d.tables, f \in d.fields :
        IsColumn(d, f) => Edge(BookTable(d, t), "HAS_COLUMN", FieldNode(w, d, f)) \in r5
  BY DEF OfDatasources, LinkAll, Links
<1> HIDE DEF r1, r2, r3, r4, r5, r6, r7, s, root
<1> DEFINE st1 == EdgeRows(r1)
           st2 == EdgeRows(r2)
           st3 == EdgeRows(r3)
           st4 == EdgeRows(r4)
           st5 == EdgeRows(r5)
           st6 == EdgeRows(r6)
           st7 == EdgeRows(r7)
<1>9. s = <<st1, st2, st3, st4, st5, st6, st7>>
  BY <1>0
<1> HIDE DEF st1, st2, st3, st4, st5, st6, st7
<1>10. /\ s \in Seq({st1, st2, st3, st4, st5, st6, st7}) /\ DOMAIN s = 1..7
       /\ s[1] = st1 /\ s[2] = st2 /\ s[3] = st3 /\ s[4] = st4 /\ s[5] = st5 /\ s[6] = st6 /\ s[7] = st7
  BY <1>9
<1>11. IsSeq(s) /\ ToSet(s) \subseteq {st1, st2, st3, st4, st5, st6, st7}
  BY <1>10, SequencesAre
<1>12. known \subseteq early /\ Placed(nodes, early) /\ Booked(w, early) /\ Things(st1) \subseteq early
  <2>1. known \subseteq early
    OBVIOUS
  <2>2. 1 \in Nat /\ 1 \in 1..1
    OBVIOUS
  <2>3. Things(s[1]) \subseteq Earlier(s, 1 + 1)
    BY <2>2, EarlierHas
  <2>4. Things(st1) \subseteq early
    BY <1>10, <2>3
  <2> HIDE DEF early
  <2> QED BY <2>1, <2>4, BookedMore DEF Placed
<1> HIDE DEF early
<1>13. root \in roots /\ PlainEnd(root) /\ Tag(root) = "workbook" /\ Home(root) = root
  BY BookNodesAre DEF IsHome, root
<1>14. \A d : /\ PlainEnd(DatasourceNode(w, d)) /\ Tag(DatasourceNode(w, d)) = "datasource"
              /\ Home(DatasourceNode(w, d)) = root
  BY BookNodesAre DEF root
<1>15. \A e \in r1 : AptRow(roots, e) /\ Ready(nodes, known, e) /\ e.type = "CONTAINS_DATASOURCE"
  <2> SUFFICES ASSUME NEW e \in r1 PROVE AptRow(roots, e) /\ Ready(nodes, known, e) /\ e.type = "CONTAINS_DATASOURCE"
    OBVIOUS
  <2>1. PICK d \in w.datasources : e = Edge(root, "CONTAINS_DATASOURCE", DatasourceNode(w, d.name))
    BY <1>4
  <2> DEFINE to == DatasourceNode(w, d.name)
  <2>2. <<"node", root>> \in known /\ <<"node", to>> \in known
    BY DEF Booked, root
  <2>3. PlainEnd(to) /\ Tag(to) = "datasource" /\ Home(to) = root /\ e = Edge(root, "CONTAINS_DATASOURCE", to)
    BY <1>14, <2>1
  <2> HIDE DEF to
  <2>4. <<Tag(root), "CONTAINS_DATASOURCE", Tag(to)>> \in Hops
    BY <1>13, <2>3 DEF Hops
  <2>5. "CONTAINS_DATASOURCE" \notin SecondTypes
    BY DEF SecondTypes
  <2>6. AptRow(roots, e) /\ Ready(nodes, known, e)
    BY <1>13, <2>2, <2>3, <2>4, <2>5, HopRowIs
  <2> QED BY <2>3, <2>6 DEF Edge
<1>16. /\ Sound(nodes, known, roots, st1) /\ \A n : <<"node", n>> \notin Things(st1)
       /\ \A e : <<"edge", e>> \in Things(st1) <=> e \in r1
  BY <1>15, RowsSound DEF st1
<1>17. \A e \in r4 : AptRow(roots, e) /\ Ready(nodes, early, e)
  <2> SUFFICES ASSUME NEW e \in r4 PROVE AptRow(roots, e) /\ Ready(nodes, early, e)
    OBVIOUS
  <2>1. PICK d \in w.datasources : \E f \in d.fields :
          e = Edge(DatasourceNode(w, d.name), "HAS_FIELD", FieldNode(w, d, f))
    BY <1>6
  <2>2. PICK f \in d.fields : e = Edge(DatasourceNode(w, d.name), "HAS_FIELD", FieldNode(w, d, f))
    BY <2>1
  <2> DEFINE from == DatasourceNode(w, d.name)
             to == FieldNode(w, d, f)
  <2>3. <<"node", from>> \in early /\ <<"node", to>> \in early
    BY <1>12 DEF Booked
  <2>4. <<"edge", Edge(root, "CONTAINS_DATASOURCE", from)>> \in early
    BY <1>5, <1>12, <1>16
  <2>5. PlainEnd(from) /\ Tag(from) = "datasource" /\ Home(from) = root /\ e = Edge(from, "HAS_FIELD", to)
    BY <1>14, <2>2
  <2>6. PlainEnd(to) /\ Tag(to) \in {"column", "calculated"} /\ (Homed(to) => Home(to) = root)
    BY FieldNodeIs DEF root
  <2> HIDE DEF from, to
  <2>7. <<Tag(from), "HAS_FIELD", Tag(to)>> \in Hops
    BY <2>5, <2>6 DEF Hops
  <2>8. FirstHop[Tag(from)] = "CONTAINS_DATASOURCE"
    BY <2>5 DEF FirstHop
  <2> QED BY <1>13, <2>3, <2>4, <2>5, <2>6, <2>7, <2>8, HopRowIs
<1>18. /\ Sound(nodes, early, roots, st4) /\ \A n : <<"node", n>> \notin Things(st4)
       /\ \A e : <<"edge", e>> \in Things(st4) <=> e \in r4
  BY <1>17, RowsSound DEF st4
<1>19. ASSUME NEW e \in r5
       PROVE  AptRow(roots, e) /\ Ready(nodes, early, e) /\ e.type = "HAS_COLUMN" /\ Plain(e)
  <2>1. PICK d \in w.datasources : \E t \in d.tables, f \in d.fields :
          IsColumn(d, f) /\ e = Edge(BookTable(d, t), "HAS_COLUMN", FieldNode(w, d, f))
    BY <1>7
  <2>2. PICK t \in d.tables, f \in d.fields :
          IsColumn(d, f) /\ e = Edge(BookTable(d, t), "HAS_COLUMN", FieldNode(w, d, f))
    BY <2>1
  <2> DEFINE from == BookTable(d, t)
             to == FieldNode(w, d, f)
  <2>3. <<"node", from>> \in early /\ <<"node", to>> \in early
    BY <1>12 DEF Booked
  <2>4. PlainEnd(from) /\ Tag(from) = "table"
    BY BookOthersAre
  <2>5. PlainEnd(to) /\ Tag(to) = "column"
    BY <2>2, FieldNodeIs
  <2> HIDE DEF from, to
  <2>6. e.from = from /\ e.type = "HAS_COLUMN" /\ e.to = to /\ e = Edge(e.from, e.type, e.to)
    BY <2>2 DEF Edge, from, to
  <2>7. "HAS_COLUMN" \notin HopTypes \cup SecondTypes
    BY HopTypesAre DEF SecondTypes
  <2>8. Meant(from) = from /\ Meant(to) = to /\ MeantEnd(from) /\ MeantEnd(to) /\ Plain(e)
    BY <2>4, <2>5, <2>6 DEF PlainEnd, Meant, MeantEnd, Plain
  <2>9. AptRow(roots, e)
    BY <2>4, <2>5, <2>6, <2>7, <2>8 DEF AptRow
  <2>10. Ready(nodes, early, e)
    BY <2>3, <2>4, <2>5, <2>6, <2>7, <2>8 DEF Ready, Ends
  <2> QED BY <2>6, <2>8, <2>9, <2>10
<1>20. /\ Sound(nodes, early, roots, st5) /\ \A n : <<"node", n>> \notin Things(st5)
       /\ \A e : <<"edge", e>> \in Things(st5) <=> e \in r5
  BY <1>19, RowsSound DEF st5
<1>21. /\ Sound(nodes, early, roots, st2) /\ \A n : <<"node", n>> \notin Things(st2)
       /\ \A e : <<"edge", e>> \in Things(st2) => e.type # "HAS_FIELD"
  BY <1>1, <1>12, FreeSound DEF st2
<1>22. /\ Sound(nodes, early, roots, st3) /\ \A n : <<"node", n>> \notin Things(st3)
       /\ \A e : <<"edge", e>> \in Things(st3) => e.type # "HAS_FIELD"
  BY <1>2, <1>12, FreeSound DEF st3
<1>23. /\ Sound(nodes, early, roots, st6) /\ \A n : <<"node", n>> \notin Things(st6)
       /\ \A e : <<"edge", e>> \in Things(st6) => e.type # "HAS_FIELD"
  BY <1>3, <1>12, FreeSound DEF st6
<1>24. /\ Sound(nodes, early, roots, st7) /\ \A n : <<"node", n>> \notin Things(st7)
       /\ \A e : <<"edge", e>> \in Things(st7) => e.type # "HAS_FIELD"
  BY <1>3, <1>12, FreeSound DEF st7
<1>25. \A i \in DOMAIN s :
         Sound(nodes, IF i <= 1 THEN known ELSE known \cup Earlier(s, 1 + 1), roots, s[i])
  <2>1. \A i \in DOMAIN s : i <= 1 => Sound(nodes, known, roots, s[i])
    BY <1>10, <1>16
  <2>2. \A i \in DOMAIN s : ~ (i <= 1) => Sound(nodes, early, roots, s[i])
    <3>1. \A i \in 1..7 : ~ (i <= 1) => i \in {2, 3, 4, 5, 6, 7}
      OBVIOUS
    <3> QED BY <1>10, <1>18, <1>20, <1>21, <1>22, <1>23, <1>24, <3>1
  <2> QED BY <2>1, <2>2 DEF early
<1>26. Fit(nodes, known, roots, s) /\ \A st \in ToSet(s) : st.op # "delete"
  <2>1. 1 \in Nat
    OBVIOUS
  <2> QED BY <1>11, <1>25, <2>1, FitLed
<1>27. \A n : <<"node", n>> \notin Done(s)
  BY <1>11, <1>16, <1>18, <1>20, <1>21, <1>22, <1>23, <1>24 DEF Done
<1>28. ASSUME NEW e, <<"edge", e>> \in Done(s), e.type = "HAS_FIELD", Tag(e.to) = "column"
       PROVE  \E x : <<"edge", x>> \in Done(s) /\ Plain(x) /\ x.type = "HAS_COLUMN" /\ x.to = e.to
  <2>1. PICK st \in ToSet(s) : <<"edge", e>> \in Things(st)
    BY <1>28 DEF Done
  <2>2. e \in r4
    <3>1. e \notin r1 /\ e \notin r5
      BY <1>15, <1>19, <1>28
    <3> QED BY <1>11, <1>16, <1>18, <1>20, <1>21, <1>22, <1>23, <1>24, <1>28, <2>1, <3>1
  <2>3. PICK d \in w.datasources : \E f \in d.fields :
          e = Edge(DatasourceNode(w, d.name), "HAS_FIELD", FieldNode(w, d, f))
    BY <1>6, <2>2
  <2>4. PICK f \in d.fields : e = Edge(DatasourceNode(w, d.name), "HAS_FIELD", FieldNode(w, d, f))
    BY <2>3
  <2>5. e.to = FieldNode(w, d, f)
    BY <2>4 DEF Edge
  <2>6. IsColumn(d, f)
    BY <1>28, <2>5, FieldNodeIs
  <2>7. PICK t \in d.tables : TRUE
    <3>1. Cardinality(d.tables) = 1
      BY <2>6 DEF IsColumn
    <3>2. d.tables # {}
      BY <3>1, FS_EmptySet
    <3> QED BY <3>2
  <2> DEFINE x == Edge(BookTable(d, t), "HAS_COLUMN", FieldNode(w, d, f))
  <2>8. x \in r5 /\ x.to = e.to
    BY <1>8, <2>5, <2>6 DEF Edge
  <2> HIDE DEF x
  <2>9. <<"edge", x>> \in Things(st5) /\ Plain(x) /\ x.type = "HAS_COLUMN"
    BY <1>19, <1>20, <2>8
  <2>10. st5 \in ToSet(s)
    <3>1. 5 \in DOMAIN s /\ s[5] = st5
      BY <1>10
    <3> QED BY <3>1 DEF ToSet
  <2> QED BY <2>8, <2>9, <2>10 DEF Done
<1> QED BY <1>26, <1>27, <1>28 DEF s

\* _write_relationships of the sheets: a worksheet and a dashboard hang below the workbook before
\* anything hangs below them.
LEMMA SheetEdgesFit ==
  ASSUME NEW w, IsWorkbook(w), NEW nodes, NEW known, Placed(nodes, known), Booked(w, known),
         NEW roots, WorkbookNode(w) \in roots
  PROVE  /\ Fit(nodes, known, roots, SheetEdges(w)) /\ \A st \in ToSet(SheetEdges(w)) : st.op # "delete"
         /\ \A n : <<"node", n>> \notin Done(SheetEdges(w))
         /\ \A e : <<"edge", e>> \in Done(SheetEdges(w)) => e.type # "HAS_FIELD"
<1> DEFINE root == WorkbookNode(w)
           sheets(names) == {Worksheet(w, s.name) : s \in {x \in w.worksheets : x.name \in names}}
           param(p) == {Parameter(w, q) : q \in w.parameters \cap {p}}
           r1 == Links(root, "CONTAINS_WORKSHEET", {Worksheet(w, s.name) : s \in w.worksheets})
           r2 == Links(root, "CONTAINS_DASHBOARD", {Dashboard(w, d.name) : d \in w.dashboards})
           r3 == OfWorksheets(w, LAMBDA s : UNION {
                   Links(Worksheet(w, s.name), "USES_FIELD", FieldIn(w, r)) : r \in s.uses})
           r4 == OfWorksheets(w, LAMBDA s : UNION {
                   Links(Worksheet(w, s.name), "FILTERS_BY", FieldIn(w, r)) : r \in s.filters})
           r5 == OfDatasources(w, LAMBDA d : UNION {
                   Links(DatasourceNode(w, d.name), "FILTERS_BY", FieldOf(w, d, f)) : f \in d.filters})
           r6 == OfWorksheets(w, LAMBDA s : UNION {
                   Links(Worksheet(w, s.name), "SORTS_BY", FieldIn(w, r)) : r \in s.sorts})
           r7 == OfDashboards(w, LAMBDA d :
                   Links(Dashboard(w, d.name), "DISPLAYS_WORKSHEET", sheets(d.shows)))
           r8 == Links(root, "HAS_PARAMETER", {Parameter(w, p) : p \in w.parameters})
           r9 == OfDashboards(w, LAMBDA d :
                   Links(Dashboard(w, d.name), "HAS_ZONE", {Zone(w, d.name, z.n) : z \in d.zones}))
           r10 == OfDashboards(w, LAMBDA d : UNION {
                    Links(Zone(w, d.name, z.n), "CONTROLS_PARAMETER", param(z.param)) : z \in d.zones})
           r11 == OfDashboards(w, LAMBDA d : UNION {
                    LinkAll(sheets(a.from), "FILTERS_VIA_ACTION", sheets(a.to)) :
                      a \in {x \in d.actions : x.kind \in {"filter", "highlight"}}})
           r12 == OfDashboards(w, LAMBDA d : UNION {
                    LinkAll(sheets(a.from), "SETS_PARAMETER", param(a.param)) :
                      a \in {x \in d.actions : x.kind = "parameter"}})
           s == SheetEdges(w)
           early == known \cup Earlier(s, 2 + 1)
<1>0. s = <<EdgeRows(r1), EdgeRows(r2), EdgeRows(r3), EdgeRows(r4), EdgeRows(r5), EdgeRows(r6), EdgeRows(r7),
            EdgeRows(r8), EdgeRows(r9), EdgeRows(r10), EdgeRows(r11), EdgeRows(r12)>>
  BY DEF SheetEdges
<1>1. /\ \A names : \A n \in sheets(names) : Free(n)
      /\ \A p : \A n \in param(p) : Free(n)
  BY BookNodesFree
<1>2. FreeRows(r4)
  <2>1. ASSUME NEW x \in w.worksheets
        PROVE  FreeRows(UNION {Links(Worksheet(w, x.name), "FILTERS_BY", FieldIn(w, r)) : r \in x.filters})
    <3>1. \A r \in x.filters : FreeRows(Links(Worksheet(w, x.name), "FILTERS_BY", FieldIn(w, r)))
      BY BookNodesFree, BookTypesAre, FreeLinks
    <3> QED BY <3>1, FreeUnion
  <2> QED BY <2>1, FreeUnion DEF OfWorksheets
<1>3. FreeRows(r5)
  <2>1. ASSUME NEW d \in w.datasources
        PROVE  FreeRows(UNION {Links(DatasourceNode(w, d.name), "FILTERS_BY", FieldOf(w, d, f)) : f \in d.filters})
    <3>1. \A f \in d.filters : FreeRows(Links(DatasourceNode(w, d.name), "FILTERS_BY", FieldOf(w, d, f)))
      BY BookNodesFree, BookTypesAre, FreeLinks
    <3> QED BY <3>1, FreeUnion
  <2> QED BY <2>1, FreeUnion DEF OfDatasources
<1>4. FreeRows(r6)
  <2>1. ASSUME NEW x \in w.worksheets
        PROVE  FreeRows(UNION {Links(Worksheet(w, x.name), "SORTS_BY", FieldIn(w, r)) : r \in x.sorts})
    <3>1. \A r \in x.sorts : FreeRows(Links(Worksheet(w, x.name), "SORTS_BY", FieldIn(w, r)))
      BY BookNodesFree, BookTypesAre, FreeLinks
    <3> QED BY <3>1, FreeUnion
  <2> QED BY <2>1, FreeUnion DEF OfWorksheets
<1>5. FreeRows(r9)
  <2>1. \A d \in w.dashboards :
          FreeRows(Links(Dashboard(w, d.name), "HAS_ZONE", {Zone(w, d.name, z.n) : z \in d.zones}))
    BY BookNodesFree, BookTypesAre, FreeLinks
  <2> QED BY <2>1, FreeUnion DEF OfDashboards
<1>6. FreeRows(r10)
  <2>1. ASSUME NEW d \in w.dashboards
        PROVE  FreeRows(UNION {Links(Zone(w, d.name, z.n), "CONTROLS_PARAMETER", param(z.param)) : z \in d.zones})
    <3> HIDE DEF param
    <3>1. \A z \in d.zones : FreeRows(Links(Zone(w, d.name, z.n), "CONTROLS_PARAMETER", param(z.param)))
      BY <1>1, BookNodesFree, BookTypesAre, FreeLinks
    <3> QED BY <3>1, FreeUnion
  <2> QED BY <2>1, FreeUnion DEF OfDashboards
<1>7. FreeRows(r11)
  <2>1. ASSUME NEW d \in w.dashboards
        PROVE  FreeRows(UNION {LinkAll(sheets(a.from), "FILTERS_VIA_ACTION", sheets(a.to)) :
                                 a \in {x \in d.actions : x.kind \in {"filter", "highlight"}}})
    <3> HIDE DEF sheets
    <3>1. \A a : FreeRows(LinkAll(sheets(a.from), "FILTERS_VIA_ACTION", sheets(a.to)))
      BY <1>1, BookTypesAre, FreeLinkAll
    <3> QED BY <3>1, FreeUnion
  <2> QED BY <2>1, FreeUnion DEF OfDashboards
<1>8. FreeRows(r12)
  <2>1. ASSUME NEW d \in w.dashboards
        PROVE  FreeRows(UNION {LinkAll(sheets(a.from), "SETS_PARAMETER", param(a.param)) :
                                 a \in {x \in d.actions : x.kind = "parameter"}})
    <3> HIDE DEF sheets, param
    <3>1. \A a : FreeRows(LinkAll(sheets(a.from), "SETS_PARAMETER", param(a.param)))
      BY <1>1, BookTypesAre, FreeLinkAll
    <3> QED BY <3>1, FreeUnion
  <2> QED BY <2>1, FreeUnion DEF OfDashboards
<1>9. /\ \A e \in r1 : \E x \in w.worksheets : e = Edge(root, "CONTAINS_WORKSHEET", Worksheet(w, x.name))
      /\ \A x \in w.worksheets : Edge(root, "CONTAINS_WORKSHEET", Worksheet(w, x.name)) \in r1
      /\ \A e \in r2 : \E d \in w.dashboards : e = Edge(root, "CONTAINS_DASHBOARD", Dashboard(w, d.name))
      /\ \A d \in w.dashboards : Edge(root, "CONTAINS_DASHBOARD", Dashboard(w, d.name)) \in r2
      /\ \A e \in r8 : \E p \in w.parameters : e = Edge(root, "HAS_PARAMETER", Parameter(w, p))
  BY DEF Links
<1>10. \A e \in r3 : \E x \in w.worksheets : \E d \in w.datasources : \E f \in d.fields :
         e = Edge(Worksheet(w, x.name), "USES_FIELD", FieldNode(w, d, f))
  BY DEF OfWorksheets, Links, FieldIn, FieldOf
<1>11. \A e \in r7 : \E d \in w.dashboards : \E x \in w.worksheets :
         e = Edge(Dashboard(w, d.name), "DISPLAYS_WORKSHEET", Worksheet(w, x.name))
  BY DEF OfDashboards, Links
<1> HIDE DEF r1, r2, r3, r4, r5, r6, r7, r8, r9, r10, r11, r12, s, root
<1> DEFINE st1 == EdgeRows(r1)
           st2 == EdgeRows(r2)
           st3 == EdgeRows(r3)
           st4 == EdgeRows(r4)
           st5 == EdgeRows(r5)
           st6 == EdgeRows(r6)
           st7 == EdgeRows(r7)
           st8 == EdgeRows(r8)
           st9 == EdgeRows(r9)
           st10 == EdgeRows(r10)
           st11 == EdgeRows(r11)
           st12 == EdgeRows(r12)
<1>12. s = <<st1, st2, st3, st4, st5, st6, st7, st8, st9, st10, st11, st12>>
  BY <1>0
<1> HIDE DEF st1, st2, st3, st4, st5, st6, st7, st8, st9, st10, st11, st12
<1>13. /\ s \in Seq({st1, st2, st3, st4, st5, st6, st7, st8, st9, st10, st11, st12}) /\ DOMAIN s = 1..12
       /\ s[1] = st1 /\ s[2] = st2 /\ s[3] = st3 /\ s[4] = st4 /\ s[5] = st5 /\ s[6] = st6 /\ s[7] = st7
       /\ s[8] = st8 /\ s[9] = st9 /\ s[10] = st10 /\ s[11] = st11 /\ s[12] = st12
  BY <1>12
<1>14. IsSeq(s) /\ ToSet(s) \subseteq {st1, st2, st3, st4, st5, st6, st7, st8, st9, st10, st11, st12}
  BY <1>13, SequencesAre
<1>15. /\ known \subseteq early /\ Placed(nodes, early) /\ Booked(w, early)
       /\ Things(st1) \subseteq early /\ Things(st2) \subseteq early
  <2>1. known \subseteq early
    OBVIOUS
  <2>2. 2 \in Nat /\ 1 \in 1..2 /\ 2 \in 1..2
    OBVIOUS
  <2>3. Things(s[1]) \subseteq Earlier(s, 2 + 1) /\ Things(s[2]) \subseteq Earlier(s, 2 + 1)
    BY <2>2, EarlierHas
  <2>4. Things(st1) \subseteq early /\ Things(st2) \subseteq early
    BY <1>13, <2>3
  <2> HIDE DEF early
  <2> QED BY <2>1, <2>4, BookedMore DEF Placed
<1> HIDE DEF early
<1>16. root \in roots /\ PlainEnd(root) /\ Tag(root) = "workbook" /\ Home(root) = root
  BY BookNodesAre DEF IsHome, root
<1>17. /\ \A x : /\ PlainEnd(Worksheet(w, x)) /\ Tag(Worksheet(w, x)) = "worksheet"
                 /\ Home(Worksheet(w, x)) = root
       /\ \A d : /\ PlainEnd(Dashboard(w, d)) /\ Tag(Dashboard(w, d)) = "dashboard"
                 /\ Home(Dashboard(w, d)) = root
       /\ \A p : /\ PlainEnd(Parameter(w, p)) /\ Tag(Parameter(w, p)) = "parameter"
                 /\ Home(Parameter(w, p)) = root
  BY BookNodesAre DEF root
<1>18. ASSUME NEW e, NEW type, type \notin SecondTypes \cup {"HAS_FIELD"}, NEW to, PlainEnd(to), Home(to) = root,
              <<"workbook", type, Tag(to)>> \in Hops, e = Edge(root, type, to),
              NEW more, <<"node", root>> \in more, <<"node", to>> \in more
       PROVE  AptRow(roots, e) /\ Ready(nodes, more, e) /\ e.type # "HAS_FIELD"
  <2>1. AptRow(roots, e) /\ Ready(nodes, more, e)
    BY <1>16, <1>18, HopRowIs
  <2>2. e.type = type
    BY <1>18 DEF Edge
  <2> QED BY <1>18, <2>1, <2>2
<1>19. /\ <<"workbook", "CONTAINS_WORKSHEET", "worksheet">> \in Hops
       /\ <<"workbook", "CONTAINS_DASHBOARD", "dashboard">> \in Hops
       /\ <<"workbook", "HAS_PARAMETER", "parameter">> \in Hops
       /\ "CONTAINS_WORKSHEET" \notin SecondTypes \cup {"HAS_FIELD"}
       /\ "CONTAINS_DASHBOARD" \notin SecondTypes \cup {"HAS_FIELD"}
       /\ "HAS_PARAMETER" \notin SecondTypes \cup {"HAS_FIELD"}
  BY DEF Hops, SecondTypes
<1>20. <<"node", root>> \in known /\ <<"node", root>> \in early
  BY <1>15 DEF Booked, root
<1>21. \A e \in r1 : AptRow(roots, e) /\ Ready(nodes, known, e) /\ e.type # "HAS_FIELD"
  <2> SUFFICES ASSUME NEW e \in r1 PROVE AptRow(roots, e) /\ Ready(nodes, known, e) /\ e.type # "HAS_FIELD"
    OBVIOUS
  <2>1. PICK x \in w.worksheets : e = Edge(root, "CONTAINS_WORKSHEET", Worksheet(w, x.name))
    BY <1>9
  <2>2. <<"node", Worksheet(w, x.name)>> \in known
    BY DEF Booked
  <2> QED BY <1>17, <1>18, <1>19, <1>20, <2>1, <2>2
<1>22. \A e \in r2 : AptRow(roots, e) /\ Ready(nodes, known, e) /\ e.type # "HAS_FIELD"
  <2> SUFFICES ASSUME NEW e \in r2 PROVE AptRow(roots, e) /\ Ready(nodes, known, e) /\ e.type # "HAS_FIELD"
    OBVIOUS
  <2>1. PICK d \in w.dashboards : e = Edge(root, "CONTAINS_DASHBOARD", Dashboard(w, d.name))
    BY <1>9
  <2>2. <<"node", Dashboard(w, d.name)>> \in known
    BY DEF Booked
  <2> QED BY <1>17, <1>18, <1>19, <1>20, <2>1, <2>2
<1>23. \A e \in r8 : AptRow(roots, e) /\ Ready(nodes, early, e) /\ e.type # "HAS_FIELD"
  <2> SUFFICES ASSUME NEW e \in r8 PROVE AptRow(roots, e) /\ Ready(nodes, early, e) /\ e.type # "HAS_FIELD"
    OBVIOUS
  <2>1. PICK p \in w.parameters : e = Edge(root, "HAS_PARAMETER", Parameter(w, p))
    BY <1>9
  <2>2. <<"node", Parameter(w, p)>> \in early
    BY <1>15 DEF Booked
  <2> QED BY <1>17, <1>18, <1>19, <1>20, <2>1, <2>2
<1>24. /\ Sound(nodes, known, roots, st1) /\ Sound(nodes, known, roots, st2) /\ Sound(nodes, early, roots, st8)
       /\ \A n : <<"node", n>> \notin Things(st1) /\ <<"node", n>> \notin Things(st2) /\ <<"node", n>> \notin Things(st8)
       /\ \A e : /\ <<"edge", e>> \in Things(st1) <=> e \in r1
                 /\ <<"edge", e>> \in Things(st2) <=> e \in r2
                 /\ <<"edge", e>> \in Things(st8) <=> e \in r8
  BY <1>21, <1>22, <1>23, RowsSound DEF st1, st2, st8
<1>25. \A e \in r3 : AptRow(roots, e) /\ Ready(nodes, early, e) /\ e.type # "HAS_FIELD"
  <2> SUFFICES ASSUME NEW e \in r3 PROVE AptRow(roots, e) /\ Ready(nodes, early, e) /\ e.type # "HAS_FIELD"
    OBVIOUS
  <2>1. PICK x \in w.worksheets : \E d \in w.datasources : \E f \in d.fields :
          e = Edge(Worksheet(w, x.name), "USES_FIELD", FieldNode(w, d, f))
    BY <1>10
  <2>2. PICK d \in w.datasources : \E f \in d.fields :
          e = Edge(Worksheet(w, x.name), "USES_FIELD", FieldNode(w, d, f))
    BY <2>1
  <2>3. PICK f \in d.fields : e = Edge(Worksheet(w, x.name), "USES_FIELD", FieldNode(w, d, f))
    BY <2>2
  <2> DEFINE from == Worksheet(w, x.name)
             to == FieldNode(w, d, f)
  <2>4. <<"node", from>> \in early /\ <<"node", to>> \in early
    BY <1>15 DEF Booked
  <2>5. <<"edge", Edge(root, "CONTAINS_WORKSHEET", from)>> \in early
    BY <1>9, <1>15, <1>24
  <2>6. PlainEnd(from) /\ Tag(from) = "worksheet" /\ Home(from) = root /\ e = Edge(from, "USES_FIELD", to)
    BY <1>17, <2>3
  <2>7. PlainEnd(to) /\ Tag(to) \in {"column", "calculated"} /\ (Homed(to) => Home(to) = root)
    BY FieldNodeIs DEF root
  <2> HIDE DEF from, to
  <2>8. <<Tag(from), "USES_FIELD", Tag(to)>> \in Hops
    BY <2>6, <2>7 DEF Hops
  <2>9. FirstHop[Tag(from)] = "CONTAINS_WORKSHEET"
    BY <2>6 DEF FirstHop
  <2>10. AptRow(roots, e) /\ Ready(nodes, early, e)
    BY <1>16, <2>4, <2>5, <2>6, <2>7, <2>8, <2>9, HopRowIs
  <2>11. e.type = "USES_FIELD"
    BY <2>6 DEF Edge
  <2> QED BY <2>10, <2>11
<1>26. \A e \in r7 : AptRow(roots, e) /\ Ready(nodes, early, e) /\ e.type # "HAS_FIELD"
  <2> SUFFICES ASSUME NEW e \in r7 PROVE AptRow(roots, e) /\ Ready(nodes, early, e) /\ e.type # "HAS_FIELD"
    OBVIOUS
  <2>1. PICK d \in w.dashboards : \E x \in w.worksheets :
          e = Edge(Dashboard(w, d.name), "DISPLAYS_WORKSHEET", Worksheet(w, x.name))
    BY <1>11
  <2>2. PICK x \in w.worksheets : e = Edge(Dashboard(w, d.name), "DISPLAYS_WORKSHEET", Worksheet(w, x.name))
    BY <2>1
  <2> DEFINE from == Dashboard(w, d.name)
             to == Worksheet(w, x.name)
  <2>3. <<"node", from>> \in early /\ <<"node", to>> \in early
    BY <1>15 DEF Booked
  <2>4. <<"edge", Edge(root, "CONTAINS_DASHBOARD", from)>> \in early
    BY <1>9, <1>15, <1>24
  <2>5. /\ PlainEnd(from) /\ Tag(from) = "dashboard" /\ Home(from) = root
        /\ PlainEnd(to) /\ Tag(to) = "worksheet" /\ Home(to) = root /\ e = Edge(from, "DISPLAYS_WORKSHEET", to)
    BY <1>17, <2>2
  <2> HIDE DEF from, to
  <2>6. <<Tag(from), "DISPLAYS_WORKSHEET", Tag(to)>> \in Hops
    BY <2>5 DEF Hops
  <2>7. FirstHop[Tag(from)] = "CONTAINS_DASHBOARD"
    BY <2>5 DEF FirstHop
  <2>8. AptRow(roots, e) /\ Ready(nodes, early, e)
    BY <1>16, <2>3, <2>4, <2>5, <2>6, <2>7, HopRowIs
  <2>9. e.type = "DISPLAYS_WORKSHEET"
    BY <2>5 DEF Edge
  <2> QED BY <2>8, <2>9
<1>27. /\ Sound(nodes, early, roots, st3) /\ Sound(nodes, early, roots, st7)
       /\ \A n : <<"node", n>> \notin Things(st3) /\ <<"node", n>> \notin Things(st7)
       /\ \A e : /\ <<"edge", e>> \in Things(st3) <=> e \in r3
                 /\ <<"edge", e>> \in Things(st7) <=> e \in r7
  BY <1>25, <1>26, RowsSound DEF st3, st7
<1>28. \A st \in {st4, st5, st6, st9, st10, st11, st12} :
         /\ Sound(nodes, early, roots, st) /\ \A n : <<"node", n>> \notin Things(st)
         /\ \A e : <<"edge", e>> \in Things(st) => e.type # "HAS_FIELD"
  <2>1. \A R : FreeRows(R) =>
          /\ Sound(nodes, early, roots, EdgeRows(R)) /\ \A n : <<"node", n>> \notin Things(EdgeRows(R))
          /\ \A e : <<"edge", e>> \in Things(EdgeRows(R)) => e.type # "HAS_FIELD"
    BY <1>15, FreeSound
  <2> QED BY <1>2, <1>3, <1>4, <1>5, <1>6, <1>7, <1>8, <2>1 DEF st4, st5, st6, st9, st10, st11, st12
<1>29. \A i \in DOMAIN s :
         Sound(nodes, IF i <= 2 THEN known ELSE known \cup Earlier(s, 2 + 1), roots, s[i])
  <2>1. \A i \in DOMAIN s : i <= 2 => Sound(nodes, known, roots, s[i])
    <3>1. \A i \in 1..12 : i <= 2 => i \in {1, 2}
      OBVIOUS
    <3> QED BY <1>13, <1>24, <3>1
  <2>2. \A i \in DOMAIN s : ~ (i <= 2) => Sound(nodes, early, roots, s[i])
    <3>1. \A i \in 1..12 : ~ (i <= 2) => i \in {3, 4, 5, 6, 7, 8, 9, 10, 11, 12}
      OBVIOUS
    <3> QED BY <1>13, <1>24, <1>27, <1>28, <3>1
  <2> QED BY <2>1, <2>2 DEF early
<1>30. Fit(nodes, known, roots, s) /\ \A st \in ToSet(s) : st.op # "delete"
  <2>1. 2 \in Nat
    OBVIOUS
  <2> QED BY <1>14, <1>29, <2>1, FitLed
<1>31. \A st \in ToSet(s) : /\ \A n : <<"node", n>> \notin Things(st)
                            /\ \A e : <<"edge", e>> \in Things(st) => e.type # "HAS_FIELD"
  BY <1>14, <1>21, <1>22, <1>23, <1>24, <1>25, <1>26, <1>27, <1>28
<1>32. /\ \A n : <<"node", n>> \notin Done(s)
       /\ \A e : <<"edge", e>> \in Done(s) => e.type # "HAS_FIELD"
  BY <1>31 DEF Done
<1> QED BY <1>30, <1>32 DEF s

\* What is derived, what crosses datasources, and the blends: nodes of their own, which
\* only the last two statements need.
LEMMA DerivedEdgesFit ==
  ASSUME NEW w, IsWorkbook(w), NEW nodes, NEW known, Placed(nodes, known), Booked(w, known),
         NEW roots, WorkbookNode(w) \in roots
  PROVE  /\ Fit(nodes, known, roots, DerivedEdges(w)) /\ \A st \in ToSet(DerivedEdges(w)) : st.op # "delete"
         /\ \A n : <<"node", n>> \in Done(DerivedEdges(w)) => Tag(n) = "blend"
         /\ \A e : <<"edge", e>> \in Done(DerivedEdges(w)) => e.type # "HAS_FIELD"
<1> DEFINE root == WorkbookNode(w)
           named(x) == {DatasourceNode(w, d.name) : d \in {e \in w.datasources : e.name = x}}
           r1 == OfDatasources(w, LAMBDA d :
                   {Edge(DatasourceNode(w, d.name), HasDerived[x.kind], Derived(w, d.name, x)) : x \in d.derived})
           r2 == OfDatasources(w, LAMBDA d :
                   Links(DatasourceNode(w, d.name), "HAS_HIERARCHY", {Hierarchy(w, d.name, l[1]) : l \in d.levels}))
           r3 == OfDatasources(w, LAMBDA d : UNION {UNION {
                   Links(Derived(w, d.name, x), "DERIVES_FROM", FieldOf(w, d, f)) : f \in x.from}
                     : x \in d.derived})
           r4 == OfDatasources(w, LAMBDA d : UNION {
                   Links(Hierarchy(w, d.name, l[1]), "HAS_LEVEL", FieldOf(w, d, l[2])) : l \in d.levels})
           r5 == UNION {LinkAll(FieldIn(w, c[1]), "DERIVES_FROM_CROSS_DS", FieldIn(w, c[2])) : c \in w.crosses}
           r6 == UNION {LinkAll(FieldIn(w, c[1]), "DERIVES_FROM_CROSS_DS",
                                {Parameter(w, p) : p \in w.parameters \cap {c[2][2]}})
                          : c \in {x \in w.crosses : x[2][1] = "Parameters"}}
           r7 == OfWorksheets(w, LAMBDA s : {Blend(w, s.name, b) : b \in s.blends})
           r8 == OfWorksheets(w, LAMBDA s :
                   Links(Worksheet(w, s.name), "HAS_BLEND", {Blend(w, s.name, b) : b \in s.blends}))
           r9 == OfWorksheets(w, LAMBDA s : UNION {
                   Links(Blend(w, s.name, b), "BLENDS_WITH", named(b[1]) \cup named(b[2])) : b \in s.blends})
           s == DerivedEdges(w)
           early == known \cup Earlier(s, 7 + 1)
<1>0. s = <<EdgeRows(r1), EdgeRows(r2), EdgeRows(r3), EdgeRows(r4), EdgeRows(r5), EdgeRows(r6), NodeRows(r7),
            EdgeRows(r8), EdgeRows(r9)>>
  BY DEF DerivedEdges
<1>1. FreeRows(r1)
  <2> SUFFICES ASSUME NEW d \in w.datasources, NEW x \in d.derived
               PROVE  /\ Free(DatasourceNode(w, d.name)) /\ Free(Derived(w, d.name, x))
                      /\ Link(HasDerived[x.kind])
    BY DEF FreeRows, OfDatasources
  <2>1. HasDerived[x.kind] \in {"HAS_GROUP", "HAS_SET", "HAS_BIN"}
    BY DEF IsWorkbook, HasDerived
  <2> QED BY <2>1, BookNodesFree, BookTypesAre
<1>2. FreeRows(r2)
  <2>1. \A d \in w.datasources :
          FreeRows(Links(DatasourceNode(w, d.name), "HAS_HIERARCHY", {Hierarchy(w, d.name, l[1]) : l \in d.levels}))
    BY BookNodesFree, BookTypesAre, FreeLinks
  <2> QED BY <2>1, FreeUnion DEF OfDatasources
<1>3. FreeRows(r3)
  <2>1. ASSUME NEW d \in w.datasources
        PROVE  FreeRows(UNION {UNION {Links(Derived(w, d.name, x), "DERIVES_FROM", FieldOf(w, d, f)) : f \in x.from}
                                 : x \in d.derived})
    <3>1. ASSUME NEW x \in d.derived
          PROVE  FreeRows(UNION {Links(Derived(w, d.name, x), "DERIVES_FROM", FieldOf(w, d, f)) : f \in x.from})
      <4>1. \A f \in x.from : FreeRows(Links(Derived(w, d.name, x), "DERIVES_FROM", FieldOf(w, d, f)))
        BY BookNodesFree, BookTypesAre, FreeLinks
      <4> QED BY <4>1, FreeUnion
    <3> QED BY <3>1, FreeUnion
  <2> QED BY <2>1, FreeUnion DEF OfDatasources
<1>4. FreeRows(r4)
  <2>1. ASSUME NEW d \in w.datasources
        PROVE  FreeRows(UNION {Links(Hierarchy(w, d.name, l[1]), "HAS_LEVEL", FieldOf(w, d, l[2])) : l \in d.levels})
    <3>1. \A l \in d.levels : FreeRows(Links(Hierarchy(w, d.name, l[1]), "HAS_LEVEL", FieldOf(w, d, l[2])))
      BY BookNodesFree, BookTypesAre, FreeLinks
    <3> QED BY <3>1, FreeUnion
  <2> QED BY <2>1, FreeUnion DEF OfDatasources
<1>5. FreeRows(r5)
  <2>1. \A c \in w.crosses : FreeRows(LinkAll(FieldIn(w, c[1]), "DERIVES_FROM_CROSS_DS", FieldIn(w, c[2])))
    BY BookNodesFree, BookTypesAre, FreeLinkAll
  <2> QED BY <2>1, FreeUnion
<1>6. FreeRows(r6)
  <2>1. \A c : FreeRows(LinkAll(FieldIn(w, c[1]), "DERIVES_FROM_CROSS_DS",
                                {Parameter(w, p) : p \in w.parameters \cap {c[2][2]}}))
    BY BookNodesFree, BookTypesAre, FreeLinkAll
  <2> QED BY <2>1, FreeUnion
<1>7. /\ \A n \in r7 : \E x \in w.worksheets : \E b \in x.blends : n = Blend(w, x.name, b)
      /\ \A x \in w.worksheets : \A b \in x.blends : Blend(w, x.name, b) \in r7
  BY DEF OfWorksheets
<1>8. \A e \in r8 : \E x \in w.worksheets : \E b \in x.blends :
        e = Edge(Worksheet(w, x.name), "HAS_BLEND", Blend(w, x.name, b))
  BY DEF OfWorksheets, Links
<1>9. \A e \in r9 : \E x \in w.worksheets : \E b \in x.blends : \E d \in w.datasources :
        e = Edge(Blend(w, x.name, b), "BLENDS_WITH", DatasourceNode(w, d.name))
  BY DEF OfWorksheets, Links
<1> HIDE DEF r1, r2, r3, r4, r5, r6, r7, r8, r9, s, root
<1> DEFINE st1 == EdgeRows(r1)
           st2 == EdgeRows(r2)
           st3 == EdgeRows(r3)
           st4 == EdgeRows(r4)
           st5 == EdgeRows(r5)
           st6 == EdgeRows(r6)
           st7 == NodeRows(r7)
           st8 == EdgeRows(r8)
           st9 == EdgeRows(r9)
<1>10. s = <<st1, st2, st3, st4, st5, st6, st7, st8, st9>>
  BY <1>0
<1> HIDE DEF st1, st2, st3, st4, st5, st6, st7, st8, st9
<1>11. /\ s \in Seq({st1, st2, st3, st4, st5, st6, st7, st8, st9}) /\ DOMAIN s = 1..9
       /\ s[1] = st1 /\ s[2] = st2 /\ s[3] = st3 /\ s[4] = st4 /\ s[5] = st5 /\ s[6] = st6 /\ s[7] = st7
       /\ s[8] = st8 /\ s[9] = st9
  BY <1>10
<1>12. IsSeq(s) /\ ToSet(s) \subseteq {st1, st2, st3, st4, st5, st6, st7, st8, st9}
  BY <1>11, SequencesAre
<1>13. Placed(nodes, early) /\ Booked(w, early) /\ Things(st7) \subseteq early
  <2>1. known \subseteq early
    OBVIOUS
  <2>2. 7 \in Nat /\ 7 \in 1..7
    OBVIOUS
  <2>3. Things(s[7]) \subseteq Earlier(s, 7 + 1)
    BY <2>2, EarlierHas
  <2>4. Things(st7) \subseteq early
    BY <1>11, <2>3
  <2> HIDE DEF early
  <2> QED BY <2>1, <2>4, BookedMore DEF Placed
<1> HIDE DEF early
<1>14. root \in roots
  BY DEF root
<1>15. /\ \A x : /\ PlainEnd(Worksheet(w, x)) /\ Tag(Worksheet(w, x)) = "worksheet"
                 /\ Home(Worksheet(w, x)) = root
       /\ \A x, b : /\ Writable(roots, Blend(w, x, b)) /\ PlainEnd(Blend(w, x, b))
                    /\ Tag(Blend(w, x, b)) = "blend" /\ Home(Blend(w, x, b)) = root
  BY BookNodesAre DEF root
<1>16. /\ Sound(nodes, known, roots, st7) /\ \A n \in r7 : Tag(n) = "blend"
       /\ \A n : <<"node", n>> \in Things(st7) <=> n \in r7
       /\ \A e : <<"edge", e>> \notin Things(st7)
  <2>1. \A n \in r7 : Writable(roots, n) /\ Tag(n) = "blend"
    BY <1>7, <1>15
  <2> QED BY <2>1, NodesSound DEF st7
<1>17. \A e \in r8 : AptRow(roots, e) /\ Ready(nodes, early, e) /\ e.type # "HAS_FIELD"
  <2> SUFFICES ASSUME NEW e \in r8 PROVE AptRow(roots, e) /\ Ready(nodes, early, e) /\ e.type # "HAS_FIELD"
    OBVIOUS
  <2>1. PICK x \in w.worksheets : \E b \in x.blends :
          e = Edge(Worksheet(w, x.name), "HAS_BLEND", Blend(w, x.name, b))
    BY <1>8
  <2>2. PICK b \in x.blends : e = Edge(Worksheet(w, x.name), "HAS_BLEND", Blend(w, x.name, b))
    BY <2>1
  <2> DEFINE from == Worksheet(w, x.name)
             to == Blend(w, x.name, b)
  <2>3. <<"node", from>> \in early
    BY <1>13 DEF Booked
  <2>4. <<"node", to>> \in early
    BY <1>7, <1>13, <1>16
  <2>5. /\ PlainEnd(from) /\ Tag(from) = "worksheet" /\ Home(from) = root
        /\ PlainEnd(to) /\ Tag(to) = "blend" /\ Home(to) = root /\ e = Edge(from, "HAS_BLEND", to)
    BY <1>15, <2>2
  <2> HIDE DEF from, to
  <2>6. <<Tag(from), "HAS_BLEND", Tag(to)>> \in Hops
    BY <2>5 DEF Hops
  <2>7. "HAS_BLEND" \notin SecondTypes
    BY DEF SecondTypes
  <2>8. AptRow(roots, e) /\ Ready(nodes, early, e)
    BY <1>14, <2>3, <2>4, <2>5, <2>6, <2>7, HopRowIs
  <2>9. e.type = "HAS_BLEND"
    BY <2>5 DEF Edge
  <2> QED BY <2>8, <2>9
<1>18. \A e \in r9 : AptRow(roots, e) /\ Ready(nodes, early, e) /\ e.type # "HAS_FIELD"
  <2> SUFFICES ASSUME NEW e \in r9 PROVE AptRow(roots, e) /\ Ready(nodes, early, e) /\ e.type # "HAS_FIELD"
    OBVIOUS
  <2>1. PICK x \in w.worksheets : \E b \in x.blends : \E d \in w.datasources :
          e = Edge(Blend(w, x.name, b), "BLENDS_WITH", DatasourceNode(w, d.name))
    BY <1>9
  <2>2. PICK b \in x.blends : \E d \in w.datasources :
          e = Edge(Blend(w, x.name, b), "BLENDS_WITH", DatasourceNode(w, d.name))
    BY <2>1
  <2>3. PICK d \in w.datasources : e = Edge(Blend(w, x.name, b), "BLENDS_WITH", DatasourceNode(w, d.name))
    BY <2>2
  <2> DEFINE from == Blend(w, x.name, b)
             to == DatasourceNode(w, d.name)
  <2>4. <<"node", from>> \in early
    BY <1>7, <1>13, <1>16
  <2>5. <<"node", to>> \in early
    BY <1>13 DEF Booked
  <2>6. PlainEnd(from) /\ PlainEnd(to) /\ e = Edge(from, "BLENDS_WITH", to)
    BY <1>15, <2>3, BookNodesFree DEF Free
  <2> HIDE DEF from, to
  <2>7. Link("BLENDS_WITH")
    BY BookTypesAre
  <2>8. AptRow(roots, e) /\ Ready(nodes, early, e)
    BY <2>4, <2>5, <2>6, <2>7, PlainLinkIs
  <2>9. e.type = "BLENDS_WITH"
    BY <2>6 DEF Edge
  <2> QED BY <2>8, <2>9
<1>19. /\ Sound(nodes, early, roots, st8) /\ Sound(nodes, early, roots, st9)
       /\ \A n : <<"node", n>> \notin Things(st8) /\ <<"node", n>> \notin Things(st9)
       /\ \A e : /\ <<"edge", e>> \in Things(st8) <=> e \in r8
                 /\ <<"edge", e>> \in Things(st9) <=> e \in r9
  BY <1>17, <1>18, RowsSound DEF st8, st9
<1>20. \A st \in {st1, st2, st3, st4, st5, st6} :
         /\ Sound(nodes, known, roots, st) /\ \A n : <<"node", n>> \notin Things(st)
         /\ \A e : <<"edge", e>> \in Things(st) => e.type # "HAS_FIELD"
  <2>1. \A R : FreeRows(R) =>
          /\ Sound(nodes, known, roots, EdgeRows(R)) /\ \A n : <<"node", n>> \notin Things(EdgeRows(R))
          /\ \A e : <<"edge", e>> \in Things(EdgeRows(R)) => e.type # "HAS_FIELD"
    BY FreeSound
  <2> QED BY <1>1, <1>2, <1>3, <1>4, <1>5, <1>6, <2>1 DEF st1, st2, st3, st4, st5, st6
<1>21. \A i \in DOMAIN s :
         Sound(nodes, IF i <= 7 THEN known ELSE known \cup Earlier(s, 7 + 1), roots, s[i])
  <2>1. \A i \in DOMAIN s : i <= 7 => Sound(nodes, known, roots, s[i])
    <3>1. \A i \in 1..9 : i <= 7 => i \in {1, 2, 3, 4, 5, 6, 7}
      OBVIOUS
    <3> QED BY <1>11, <1>16, <1>20, <3>1
  <2>2. \A i \in DOMAIN s : ~ (i <= 7) => Sound(nodes, early, roots, s[i])
    <3>1. \A i \in 1..9 : ~ (i <= 7) => i \in {8, 9}
      OBVIOUS
    <3> QED BY <1>11, <1>19, <3>1
  <2> QED BY <2>1, <2>2 DEF early
<1>22. Fit(nodes, known, roots, s) /\ \A st \in ToSet(s) : st.op # "delete"
  <2>1. 7 \in Nat
    OBVIOUS
  <2> QED BY <1>12, <1>21, <2>1, FitLed
<1>23. \A st \in ToSet(s) : /\ \A n : <<"node", n>> \in Things(st) => Tag(n) = "blend"
                            /\ \A e : <<"edge", e>> \in Things(st) => e.type # "HAS_FIELD"
  BY <1>12, <1>16, <1>17, <1>18, <1>19, <1>20
<1>24. /\ \A n : <<"node", n>> \in Done(s) => Tag(n) = "blend"
       /\ \A e : <<"edge", e>> \in Done(s) => e.type # "HAS_FIELD"
  BY <1>23 DEF Done
<1> QED BY <1>22, <1>24 DEF s

\* The delete an overwriting request begins with.
BookPurge(w, overwrite) == IF overwrite THEN DeleteSteps(w) ELSE <<>>

\* It starts from the workbook's own node.
LEMMA BookPurgeFits ==
  ASSUME NEW w, NEW overwrite, NEW nodes, NEW known, NEW roots, WorkbookNode(w) \in roots,
         <<"delete", WorkbookNode(w)>> \in known
  PROVE  /\ Fit(nodes, known, roots, BookPurge(w, overwrite)) /\ Fresh(BookPurge(w, overwrite))
         /\ \A x : x \notin Done(BookPurge(w, overwrite))
         /\ overwrite => \E st \in ToSet(BookPurge(w, overwrite)) :
              st.op = "delete" /\ st.root = WorkbookNode(w) /\ st.paths = BookPaths
<1>1. CASE ~ overwrite
  <2>1. BookPurge(w, overwrite) = <<>>
    BY <1>1 DEF BookPurge
  <2>2. Fresh(<<>>)
    BY DEF Fresh
  <2> QED BY <1>1, <2>1, <2>2, FitNone
<1>2. CASE overwrite
  <2> DEFINE root == WorkbookNode(w)
             st == Subgraph(root, BookPaths, {"HAS_COLUMN"})
             s == <<st>>
  <2>1. BookPurge(w, overwrite) = s
    BY <1>2 DEF BookPurge, DeleteSteps
  <2>2. IsHome(root) /\ Tag(root) = "workbook"
    BY BookNodesAre
  <2>3. st.op = "delete" /\ st.root = root /\ st.paths = BookPaths /\ st.sparing = {"HAS_COLUMN"}
    BY DEF Subgraph
  <2>4. root \in roots /\ <<"delete", root>> \in known
    OBVIOUS
  <2>5. DOMAIN s = {1} /\ s[1] = st /\ ToSet(s) = {st}
    BY DEF ToSet
  <2> HIDE DEF root, st
  <2>6. NodesAt(st) = {} /\ IdsAt(st) = {} /\ EdgesAt(st) = {}
    BY <2>3 DEF NodesAt, IdsAt, EdgesAt
  <2>7. \A path \in BookPaths : path = <<>> \/ path = <<path[1]>> \/ path = <<path[1], path[2]>>
    BY DEF BookPaths
  <2>8. ShapedStep(st)
    BY <2>3, <2>7 DEF ShapedStep
  <2>9. Deleting(st)
    BY <2>2, <2>3 DEF Deleting
  <2>10. Apt(roots, st) /\ Allowed(known, st)
    BY <2>3, <2>4, <2>6, <2>8, <2>9 DEF Apt, Allowed
  <2>11. Fit(nodes, known, roots, s) /\ Done(s) = Things(st)
    BY <2>6, <2>10, FitOne
  <2>12. Things(st) = {}
    BY <2>6 DEF Things
  <2>13. Fresh(s)
    <3> SUFFICES ASSUME NEW k \in DOMAIN s, NEW i \in 1..(k - 1) PROVE FALSE
      BY DEF Fresh
    <3>1. k = 1
      BY <2>5
    <3> QED BY <3>1
  <2> HIDE DEF s
  <2> QED BY <2>1, <2>3, <2>5, <2>11, <2>12, <2>13 DEF root
<1> QED BY <1>1, <1>2

\* A field that is a table's column is one of a table that is there.
FieldsDone(s) ==
  \A e : <<"edge", e>> \in Done(s) /\ e.type = "HAS_FIELD" /\ Tag(e.to) = "column" =>
    \E x : <<"edge", x>> \in Done(s) /\ Plain(x) /\ x.type = "HAS_COLUMN" /\ x.to = e.to
BookReplaced(w, s) ==
  \E st \in ToSet(s) : st.op = "delete" /\ st.root = WorkbookNode(w) /\ st.paths = BookPaths

\* All statements of a workbook, one part after the other.
LEMMA BookStepsFit ==
  ASSUME NEW w, IsWorkbook(w), NEW overwrite, NEW nodes, Placed(nodes, Done(NodeSteps(w))),
         NEW known, NEW roots, WorkbookNode(w) \in roots, <<"delete", WorkbookNode(w)>> \in known,
         NEW steps, steps = Then(Then(Then(Then(BookPurge(w, overwrite), NodeSteps(w)), DatasourceEdges(w)),
                                      SheetEdges(w)), DerivedEdges(w))
  PROVE  /\ Fit(nodes, known, roots, steps) /\ Fresh(steps)
         /\ \A n : <<"node", n>> \in Done(steps) => Tag(n) = "blend" \/ <<"node", n>> \in Done(NodeSteps(w))
         /\ FieldsDone(steps) /\ (overwrite => BookReplaced(w, steps))
<1> DEFINE a == BookPurge(w, overwrite)
           b == NodeSteps(w)
           c == DatasourceEdges(w)
           d == SheetEdges(w)
           v == DerivedEdges(w)
           ab == Then(a, b)
           abc == Then(ab, c)
           abcd == Then(abc, d)
<1>1. steps = Then(abcd, v)
  OBVIOUS
<1>2. /\ Fit(nodes, known, roots, a) /\ Fresh(a) /\ \A x : x \notin Done(a)
      /\ overwrite => \E st \in ToSet(a) :
           st.op = "delete" /\ st.root = WorkbookNode(w) /\ st.paths = BookPaths
  BY BookPurgeFits
<1>3. /\ \A more : Fit(nodes, more, roots, b)
      /\ \A st \in ToSet(b) : st.op # "delete"
      /\ Booked(w, Done(b)) /\ Placed(nodes, Done(b))
      /\ \A e : <<"edge", e>> \in Done(b) => e.type # "HAS_FIELD"
  BY NodeStepsFit
<1>4. ASSUME NEW more, Placed(nodes, more), Booked(w, more)
      PROVE  /\ Fit(nodes, more, roots, c) /\ Fit(nodes, more, roots, d) /\ Fit(nodes, more, roots, v)
             /\ \A st \in ToSet(c) \cup ToSet(d) \cup ToSet(v) : st.op # "delete"
             /\ \A n : /\ <<"node", n>> \notin Done(c) /\ <<"node", n>> \notin Done(d)
                       /\ <<"node", n>> \in Done(v) => Tag(n) = "blend"
             /\ \A e : /\ <<"edge", e>> \in Done(d) => e.type # "HAS_FIELD"
                       /\ <<"edge", e>> \in Done(v) => e.type # "HAS_FIELD"
                       /\ <<"edge", e>> \in Done(c) /\ e.type = "HAS_FIELD" /\ Tag(e.to) = "column" =>
                            \E x : <<"edge", x>> \in Done(c) /\ Plain(x) /\ x.type = "HAS_COLUMN" /\ x.to = e.to
  BY <1>4, DatasourceEdgesFit, SheetEdgesFit, DerivedEdgesFit
<1> HIDE DEF a, b, c, d, v
<1>5. Fit(nodes, known, roots, ab) /\ \A x : x \in Done(ab) <=> x \in Done(b)
  <2>1. Fit(nodes, After(known, a), roots, b)
    BY <1>3
  <2> QED BY <1>2, <2>1, FitBoth
<1>6. Fresh(ab) /\ ToSet(a) \subseteq ToSet(ab)
  BY <1>2, <1>3, FreshThen DEF Fit
<1> HIDE DEF ab
<1>7. ASSUME NEW s, \A x : x \in Done(b) => x \in Done(s)
      PROVE  Placed(nodes, After(known, s)) /\ Booked(w, After(known, s))
  <2>1. Done(b) \subseteq After(known, s)
    BY <1>7 DEF After
  <2> QED BY <1>3, <2>1, BookedMore DEF Placed
<1>8. Placed(nodes, Done(b)) /\ Booked(w, Done(b))
  BY <1>3
<1>9. Fit(nodes, known, roots, abc) /\ \A x : x \in Done(abc) <=> x \in Done(ab) \/ x \in Done(c)
  <2>1. Fit(nodes, After(known, ab), roots, c)
    BY <1>4, <1>5, <1>7
  <2> QED BY <1>5, <2>1, FitBoth
<1>10. Fresh(abc) /\ ToSet(ab) \subseteq ToSet(abc)
  BY <1>4, <1>5, <1>6, <1>8, FreshThen DEF Fit
<1> HIDE DEF abc
<1>11. Fit(nodes, known, roots, abcd) /\ \A x : x \in Done(abcd) <=> x \in Done(abc) \/ x \in Done(d)
  <2>1. Fit(nodes, After(known, abc), roots, d)
    BY <1>4, <1>5, <1>7, <1>9
  <2> QED BY <1>9, <2>1, FitBoth
<1>12. Fresh(abcd) /\ ToSet(abc) \subseteq ToSet(abcd)
  BY <1>4, <1>8, <1>9, <1>10, FreshThen DEF Fit
<1> HIDE DEF abcd
<1>13. Fit(nodes, known, roots, steps) /\ \A x : x \in Done(steps) <=> x \in Done(abcd) \/ x \in Done(v)
  <2>1. Fit(nodes, After(known, abcd), roots, v)
    BY <1>4, <1>5, <1>7, <1>9, <1>11
  <2> QED BY <1>1, <1>11, <2>1, FitBoth
<1>14. Fresh(steps) /\ ToSet(abcd) \subseteq ToSet(steps)
  BY <1>1, <1>4, <1>8, <1>11, <1>12, FreshThen DEF Fit
<1>15. \A x : x \in Done(steps) <=> x \in Done(b) \/ x \in Done(c) \/ x \in Done(d) \/ x \in Done(v)
  BY <1>5, <1>9, <1>11, <1>13
<1>16. \A n : <<"node", n>> \in Done(steps) => Tag(n) = "blend" \/ <<"node", n>> \in Done(b)
  BY <1>4, <1>8, <1>15
<1>17. \A e : <<"edge", e>> \in Done(steps) /\ e.type = "HAS_FIELD" /\ Tag(e.to) = "column" =>
         \E x : <<"edge", x>> \in Done(steps) /\ Plain(x) /\ x.type = "HAS_COLUMN" /\ x.to = e.to
  <2> TAKE e
  <2> HAVE <<"edge", e>> \in Done(steps) /\ e.type = "HAS_FIELD" /\ Tag(e.to) = "column"
  <2>1. <<"edge", e>> \in Done(c)
    BY <1>3, <1>4, <1>8, <1>15
  <2>2. PICK x : <<"edge", x>> \in Done(c) /\ Plain(x) /\ x.type = "HAS_COLUMN" /\ x.to = e.to
    BY <1>4, <1>8, <2>1
  <2> QED BY <1>15, <2>2
<1>18. overwrite => \E st \in ToSet(steps) :
         st.op = "delete" /\ st.root = WorkbookNode(w) /\ st.paths = BookPaths
  BY <1>2, <1>6, <1>10, <1>12, <1>14
<1>19. FieldsDone(steps)
  BY <1>17 DEF FieldsDone
<1>20. overwrite => BookReplaced(w, steps)
  BY <1>18 DEF BookReplaced
<1> QED BY <1>13, <1>14, <1>16, <1>19, <1>20 DEF b

\* The rows of a plan are the edges its statements leave.
LEMMA RowsDone ==
  ASSUME NEW p
  PROVE  \A e : e \in RowsOf(p) <=> <<"edge", e>> \in Done(p.steps)
<1>1. \A st, e : <<"edge", e>> \in Things(st) <=> e \in EdgesAt(st)
  BY DEF Things
<1> QED BY <1>1 DEF RowsOf, Done, ToSet

\* The plan of a workbook.
THEOREM WorkbookPlanned ==
  ASSUME NEW w, IsWorkbook(w), NEW overwrite \in BOOLEAN
  PROVE  FilePlan(WorkbookPlan(w, overwrite))
<1> DEFINE all == Then(Then(Then(Then(BookPurge(w, overwrite), NodeSteps(w)), DatasourceEdges(w)),
                            SheetEdges(w)), DerivedEdges(w))
           steps == WorkbookSteps(w, overwrite)
           root == WorkbookNode(w)
           roots == {root}
           owns == IF overwrite THEN BookOwns ELSE {}
           leave == {<<"delete", r>> : r \in roots}
           p == WorkbookPlan(w, overwrite)
<1>1. p = Plan(roots, steps, GiveUp(steps), owns)
  BY DEF WorkbookPlan
<1>2. p.nodes = WrittenBy(steps) /\ p.steps = steps /\ p.roots = roots /\ p.owns = owns
  BY <1>1 DEF Plan
<1>3. steps = Sent(all)
  BY DEF WorkbookSteps, BookPurge, Then
<1>4. root \in roots /\ <<"delete", root>> \in leave
  OBVIOUS
<1>5. IsHome(root) /\ Tag(root) = "workbook"
  BY BookNodesAre
<1> HIDE DEF steps, p, roots, leave, owns
<1>6. ASSUME NEW nodes, Placed(nodes, Done(NodeSteps(w)))
      PROVE  /\ Fit(nodes, leave, roots, all) /\ Fresh(all)
             /\ \A n : <<"node", n>> \in Done(all) => Tag(n) = "blend" \/ <<"node", n>> \in Done(NodeSteps(w))
             /\ FieldsDone(all) /\ (overwrite => BookReplaced(w, all))
  <2>1. all = Then(Then(Then(Then(BookPurge(w, overwrite), NodeSteps(w)), DatasourceEdges(w)), SheetEdges(w)),
                   DerivedEdges(w))
    OBVIOUS
  <2>2. WorkbookNode(w) \in roots /\ <<"delete", WorkbookNode(w)>> \in leave
    BY <1>4
  <2> HIDE DEF all, root
  <2> QED BY <1>6, <2>1, <2>2, BookStepsFit
<1> HIDE DEF all, root
<1>7. Placed(p.nodes, Done(NodeSteps(w)))
  <2> DEFINE none == {}
  <2>1. Placed(none, Done(NodeSteps(w)))
    BY DEF Placed
  <2> HIDE DEF none
  <2>2. /\ Fit(none, leave, roots, all)
        /\ \A n : <<"node", n>> \in Done(all) => Tag(n) = "blend" \/ <<"node", n>> \in Done(NodeSteps(w))
    BY <1>6, <2>1
  <2>3. Done(steps) = Done(all)
    BY <1>3, <2>2, FitSent
  <2> QED BY <1>2, <2>2, <2>3, WrittenAre DEF Placed
<1>8. /\ Fit(p.nodes, leave, roots, steps) /\ Fresh(steps) /\ Done(steps) = Done(all)
      /\ \A st \in ToSet(all) : st.op = "delete" => st \in ToSet(steps)
  BY <1>3, <1>6, <1>7, FitSent
<1>9. FreshFirst(p)
  BY <1>2, <1>8 DEF FreshFirst, Fresh
<1>10. OwnsHomed(p)
  <2>1. CASE ~ overwrite
    BY <1>2, <2>1 DEF OwnsHomed, owns
  <2>2. CASE overwrite
    <3>1. PICK st \in ToSet(steps) : st.op = "delete" /\ st.root = root /\ st.paths = BookPaths
      <4>1. BookReplaced(w, all)
        BY <1>6, <1>7, <2>2
      <4> QED BY <1>8, <4>1 DEF BookReplaced, root
    <3>2. PICK i \in DOMAIN steps : steps[i] = st
      BY DEF ToSet
    <3>3. \A pair \in BookOwns : <<pair[1]>> \in BookPaths
      BY DEF BookOwns, BookPaths
    <3>4. p.owns = BookOwns /\ p.roots = {root}
      BY <1>2, <2>2 DEF owns, roots
    <3> QED BY <1>2, <1>5, <3>1, <3>2, <3>3, <3>4 DEF OwnsHomed, root
  <2> QED BY <2>1, <2>2
<1>11. FieldsHaveTables(p)
  <2>1. \A e : e \in RowsOf(p) <=> <<"edge", e>> \in Done(all)
    BY <1>2, <1>8, RowsDone
  <2>2. FieldsDone(all)
    BY <1>6, <1>7
  <2> QED BY <2>1, <2>2 DEF FieldsHaveTables, FieldsDone
<1>12. Fit(p.nodes, {<<"delete", r>> : r \in roots}, roots, steps)
  BY <1>8 DEF leave
<1>13. FilePlan(p)
  BY <1>1, <1>9, <1>10, <1>11, <1>12, FitPlan
<1> QED BY <1>13 DEF p

-----------------------------------------------------------------------------
\* The plans of any requests are of the shape the invariant needs: deletes that come to
\* nothing of another file, nodes before the edges at them, a file's old content deleted
\* before its new one is written.
THEOREM FilesPlanned ==
  ASSUME NEW m, IsSeq(m), \A r \in DOMAIN m : IsRequest(m[r])
  PROVE  WellPlanned([r \in DOMAIN m |-> PlanOf(m[r])])
<1> DEFINE plans == [r \in DOMAIN m |-> PlanOf(m[r])]
<1>1. DOMAIN plans \subseteq Nat
  BY SequenceIs
<1>2. ASSUME NEW request, IsRequest(request) PROVE FilePlan(PlanOf(request))
  <2>1. CASE request.kind = "script" /\ IsScript(request.file)
    BY <2>1, ScriptPlanned DEF PlanOf
  <2>2. CASE request.kind = "project" /\ IsProject(request.file)
    BY <2>2, ProjectPlanned DEF PlanOf
  <2>3. CASE request.kind = "app" /\ IsApp(request.file)
    BY <2>3, AppPlanned DEF PlanOf
  <2>4. CASE request.kind = "workbook" /\ IsWorkbook(request.file) /\ request.overwrite \in BOOLEAN
    BY <2>4, WorkbookPlanned DEF PlanOf
  <2> QED BY <1>2, <2>1, <2>2, <2>3, <2>4 DEF IsRequest
<1>3. \A r \in DOMAIN plans : FilePlan(plans[r])
  BY <1>2
<1> HIDE DEF plans
<1>4. WellPlanned(plans)
  BY <1>1, <1>3, FilesFit
<1> QED BY <1>4 DEF plans

-----------------------------------------------------------------------------
\* The request a file's content is due to: started, and no later one of the file is.
Latest(p) == pc[p] # "idle" /\ \A q \in SameFile(p) : q > p => pc[q] = "idle"

\* An edge that the row x may have made.
OfRow(e, x) ==
  /\ e = Edge(e.from, x.type, e.to)
  /\ PlainEnd(x.from) => e.from = x.from
  /\ PlainEnd(x.to) => e.to = x.to

Spares(m, x) == Plain(x) /\ \E st \in Deletes(m) : x.type \in st.sparing

TypeInv ==
  /\ WellPlanned(plan)
  /\ at = [r \in Requests |-> at[r]]
  /\ pc \in [Requests -> {"idle", "writing", "answered"}]
  /\ graph = [nodes |-> graph.nodes, edges |-> graph.edges]

Progress ==
  \A r \in Requests :
    /\ at[r] \in Nat \ {0}
    /\ pc[r] = "idle" => at[r] = 1
    /\ pc[r] = "answered" => at[r] > Len(plan[r].steps)

\* Requests of one file follow one another.
Alone ==
  \A r \in Requests : \A q \in SameFile(r) : q < r /\ pc[r] # "idle" => pc[q] = "answered"

\* Every edge was made by a row that was sent.
Origin ==
  \A e \in graph.edges : \E q \in Requests : \E i \in DOMAIN plan[q].steps :
    i < at[q] /\ \E x \in EdgesAt(plan[q].steps[i]) : OfRow(e, x)

\* An edge that spares what it points at is there since it was sent.
Guarded ==
  \A q \in Requests : \A i \in DOMAIN plan[q].steps : i < at[q] =>
    \A x \in EdgesAt(plan[q].steps[i]) : Spares(plan, x) => x \in graph.edges

NodesLanded ==
  \A p \in Requests : Latest(p) =>
    \A i \in DOMAIN plan[p].steps : i < at[p] => NodesAt(plan[p].steps[i]) \subseteq graph.nodes

\* A table has an id that some parser computes for it.
TableIds ==
  \A t \in Tables :
    /\ t \in DOMAIN tableId
    /\ \E q \in Requests : \E x \in plan[q].tables : x.table = t /\ x.id = tableId[t]

MeantEdge(x) == Edge(Meant(x.from), x.type, Meant(x.to))
EdgesLanded ==
  \A p \in Requests : Latest(p) =>
    \A i \in DOMAIN plan[p].steps : i < at[p] =>
      \A x \in EdgesAt(plan[p].steps[i]) :
        (Plain(x) \/ IdsAgree) /\ Ends(x) \subseteq plan[p].nodes => MeantEdge(x) \in graph.edges

\* A second hop hangs on a first hop.
HungStand ==
  \A r \in Requests : \A pair \in plan[r].owns : \A root \in plan[r].roots :
    \A e \in graph.edges : Hung(plan, root, pair, e) => Edge(root, pair[1], e.from) \in graph.edges

\* Once a request has deleted what it replaces, what it owns in the graph is its own.
Clears(st, root, pair) == st.op = "delete" /\ st.root = root /\ <<pair[1]>> \in st.paths
Cleared(r, root, pair) ==
  \E i \in DOMAIN plan[r].steps : i < at[r] /\ Clears(plan[r].steps[i], root, pair)
NoneStale ==
  \A r \in Requests : Latest(r) =>
    \A pair \in plan[r].owns : \A root \in plan[r].roots : Cleared(r, root, pair) =>
      \A e \in graph.edges : Owned(plan, root, pair, e) => e \in RowsOf(plan[r])

Undisturbed ==
  /\ Progress /\ Alone /\ Origin /\ Guarded /\ NodesLanded /\ TableIds /\ EdgesLanded
  /\ HungStand /\ NoneStale

IInv == TypeInv /\ (~ disturbed => Undisturbed)

-----------------------------------------------------------------------------
\* What a plan that has the shape of Plan holds, statement by statement.
LEMMA StepsOf ==
  ASSUME NEW m, WellPlanned(m), NEW r \in DOMAIN m
  PROVE  /\ Len(m[r].steps) \in Nat
         /\ DOMAIN m[r].steps = 1..Len(m[r].steps)
         /\ \A i \in DOMAIN m[r].steps : ShapedStep(m[r].steps[i])
         /\ \A n : n \in m[r].nodes <=> \E i \in DOMAIN m[r].steps : n \in NodesAt(m[r].steps[i])
         /\ \A x : x \in m[r].tables <=> \E i \in DOMAIN m[r].steps : x \in IdsAt(m[r].steps[i])
         /\ \A x : x \in RowsOf(m[r]) <=> \E i \in DOMAIN m[r].steps : x \in EdgesAt(m[r].steps[i])
         /\ \A e : e \in m[r].edges
              <=> \E i \in DOMAIN m[r].steps : \E x \in EdgesAt(m[r].steps[i]) :
                    e = MeantEdge(x) /\ Ends(x) \subseteq m[r].nodes
<1> DEFINE p == m[r]
<1>1. Shaped(p)
  BY DEF WellPlanned
<1>2. p.steps \in Seq(ToSet(p.steps))
  BY <1>1 DEF Shaped
<1>3. /\ p.nodes = WrittenBy(p.steps)
      /\ p.tables = TablesOf(p.steps)
      /\ p.edges = MeantBy(p.steps)
  BY <1>1 DEF Shaped, Plan
<1>4. \A i \in DOMAIN p.steps : ShapedStep(p.steps[i])
  BY <1>1 DEF Shaped
<1>5. Len(p.steps) \in Nat /\ DOMAIN p.steps = 1..Len(p.steps)
  BY <1>2
<1>6. \A x : x \in TablesOf(p.steps) <=> \E i \in DOMAIN p.steps : x \in IdsAt(p.steps[i])
  BY DEF TablesOf, IdsAt
<1>7. \A n : n \in NodesOf(p.steps)
               <=> \E i \in DOMAIN p.steps : p.steps[i].op = "nodes" /\ n \in p.steps[i].rows
  BY DEF NodesOf
<1>8. \A n : n \in WrittenBy(p.steps) <=> \E i \in DOMAIN p.steps : n \in NodesAt(p.steps[i])
  <2>1. ASSUME NEW n, n \in WrittenBy(p.steps)
        PROVE  \E i \in DOMAIN p.steps : n \in NodesAt(p.steps[i])
    <3>1. CASE n \in NodesOf(p.steps)
      BY <1>7, <3>1 DEF NodesAt
    <3>2. CASE \E x \in TablesOf(p.steps) : n = x.table
      <4>1. PICK x \in TablesOf(p.steps) : n = x.table
        BY <3>2
      <4>2. PICK i \in DOMAIN p.steps : p.steps[i].op = "tables" /\ x \in p.steps[i].rows
        BY <4>1 DEF TablesOf
      <4> QED BY <4>1, <4>2 DEF NodesAt
    <3> QED BY <2>1, <3>1, <3>2 DEF WrittenBy
  <2>2. ASSUME NEW i \in DOMAIN p.steps, NEW n \in NodesAt(p.steps[i])
        PROVE  n \in WrittenBy(p.steps)
    <3>1. CASE p.steps[i].op = "nodes"
      BY <1>7, <3>1 DEF NodesAt, WrittenBy
    <3>2. CASE p.steps[i].op = "tables"
      <4>1. PICK x \in p.steps[i].rows : n = x.table
        BY <3>2 DEF NodesAt
      <4>2. x \in TablesOf(p.steps)
        BY <3>2, <4>1 DEF TablesOf
      <4> QED BY <4>1, <4>2 DEF WrittenBy
    <3> QED BY <3>1, <3>2 DEF NodesAt
  <2> QED BY <2>1, <2>2
<1>9. \A x : x \in RowsOf(p) <=> \E i \in DOMAIN p.steps : x \in EdgesAt(p.steps[i])
  BY DEF RowsOf
<1>10. ASSUME NEW e \in MeantBy(p.steps)
       PROVE  \E i \in DOMAIN p.steps : \E x \in EdgesAt(p.steps[i]) :
                e = MeantEdge(x) /\ Ends(x) \subseteq WrittenBy(p.steps)
  <2>1. PICK i \in DOMAIN p.steps : p.steps[i].op = "edges"
               /\ e \in {Edge(Meant(x.from), x.type, Meant(x.to)) : x \in p.steps[i].rows}
    BY DEF MeantBy
  <2>2. PICK x \in p.steps[i].rows : e = Edge(Meant(x.from), x.type, Meant(x.to))
    BY <2>1
  <2>3. {e.from, e.to} \subseteq WrittenBy(p.steps)
    BY DEF MeantBy
  <2> QED BY <2>1, <2>2, <2>3 DEF EdgesAt, MeantEdge, Ends, Edge
<1>11. ASSUME NEW i \in DOMAIN p.steps, NEW x \in EdgesAt(p.steps[i]), Ends(x) \subseteq WrittenBy(p.steps)
       PROVE  MeantEdge(x) \in MeantBy(p.steps)
  <2>1. p.steps[i].op = "edges" /\ x \in p.steps[i].rows
    BY DEF EdgesAt
  <2>2. {MeantEdge(x).from, MeantEdge(x).to} \subseteq WrittenBy(p.steps)
    BY <1>11 DEF MeantEdge, Ends, Edge
  <2> QED BY <2>1, <2>2 DEF MeantBy, MeantEdge
<1> HIDE DEF p
<1>12. /\ \A x : x \in p.tables <=> \E i \in DOMAIN p.steps : x \in IdsAt(p.steps[i])
       /\ \A n : n \in p.nodes <=> \E i \in DOMAIN p.steps : n \in NodesAt(p.steps[i])
       /\ \A e : e \in p.edges
            <=> \E i \in DOMAIN p.steps : \E x \in EdgesAt(p.steps[i]) :
                  e = MeantEdge(x) /\ Ends(x) \subseteq p.nodes
  BY <1>3, <1>6, <1>8, <1>10, <1>11
<1> QED BY <1>4, <1>5, <1>9, <1>12 DEF p

\* The rows and the deletes of a mix are those of its statements.
LEMMA RowsAre ==
  ASSUME NEW m, WellPlanned(m)
  PROVE  /\ \A x : x \in Rows(m)
                     <=> \E r \in DOMAIN m : \E i \in DOMAIN m[r].steps : x \in EdgesAt(m[r].steps[i])
         /\ \A x \in Rows(m) : x = Edge(x.from, x.type, x.to)
         /\ \A r \in DOMAIN m : \A i \in DOMAIN m[r].steps : m[r].steps[i].op = "delete" =>
              m[r].steps[i] \in DeletesOf(m[r]) /\ m[r].steps[i] \in Deletes(m)
<1>1. \A x : x \in Rows(m)
               <=> \E r \in DOMAIN m : \E i \in DOMAIN m[r].steps : x \in EdgesAt(m[r].steps[i])
  BY StepsOf DEF Rows
<1>2. \A r \in DOMAIN m : \A i \in DOMAIN m[r].steps : ShapedStep(m[r].steps[i])
  BY StepsOf
<1>3. \A x \in Rows(m) : x = Edge(x.from, x.type, x.to)
  BY <1>1, <1>2 DEF ShapedStep, EdgesAt
<1>4. \A r \in DOMAIN m : \A i \in DOMAIN m[r].steps : m[r].steps[i].op = "delete" =>
        m[r].steps[i] \in DeletesOf(m[r]) /\ m[r].steps[i] \in Deletes(m)
  BY DEF DeletesOf, Deletes
<1> QED BY <1>1, <1>3, <1>4
-----------------------------------------------------------------------------
\* What a delete takes.

SentRow(e) ==
  \E q \in Requests : \E i \in DOMAIN plan[q].steps : i < at[q] /\ e \in EdgesAt(plan[q].steps[i])

\* An edge of a type whose rows are matched by key is a row that was sent.
LEMMA EdgeIsRow ==
  ASSUME WellPlanned(plan), Origin, NEW e \in graph.edges,
         \A x \in Rows(plan) : x.type = e.type => Plain(x)
  PROVE  SentRow(e) /\ e \in Rows(plan)
<1>1. PICK q \in Requests : \E i \in DOMAIN plan[q].steps :
        i < at[q] /\ \E x \in EdgesAt(plan[q].steps[i]) : OfRow(e, x)
  BY DEF Origin
<1>2. PICK i \in DOMAIN plan[q].steps :
        i < at[q] /\ \E x \in EdgesAt(plan[q].steps[i]) : OfRow(e, x)
  BY <1>1
<1>3. PICK x \in EdgesAt(plan[q].steps[i]) : OfRow(e, x)
  BY <1>2
<1>4. x \in Rows(plan) /\ x = Edge(x.from, x.type, x.to)
  BY <1>1, <1>2, <1>3, RowsAre DEF Requests
<1>5. e.type = x.type
  BY <1>3 DEF OfRow, Edge
<1>6. e = x
  BY <1>3, <1>4, <1>5 DEF OfRow, Plain
<1> QED BY <1>2, <1>3, <1>4, <1>6 DEF SentRow

\* On the way of a delete, and under what a request owns, all edges are rows.
LEMMA PathIsRow ==
  ASSUME WellPlanned(plan), Origin, NEW st \in Deletes(plan), NEW path \in st.paths,
         NEW e \in graph.edges, e.type \in ToSet(path)
  PROVE  SentRow(e) /\ e \in Rows(plan)
<1>1. \A x \in Rows(plan) : x.type = e.type => Plain(x)
  BY DEF WellPlanned, PlainPaths
<1> QED BY <1>1, EdgeIsRow

LEMMA OwnedIsRow ==
  ASSUME WellPlanned(plan), Origin, NEW r \in Requests, NEW pair \in plan[r].owns,
         NEW e \in graph.edges, e.type \in {pair[1], pair[2]}
  PROVE  SentRow(e) /\ e \in Rows(plan)
<1>1. \A x \in Rows(plan) : x.type = e.type => Plain(x)
  BY DEF WellPlanned, PlainPaths, Requests
<1> QED BY <1>1, EdgeIsRow

\* What is taken is the root, or an edge along a path leads there; nothing spares it.
LEMMA Taken ==
  ASSUME WellPlanned(plan), Origin, NEW st \in Deletes(plan), ShapedStep(st), st.op = "delete",
         NEW n \in Victims(graph, st)
  PROVE  /\ \A e \in graph.edges : e.to = n => e.type \notin st.sparing
         /\ \/ n = st.root /\ <<>> \in st.paths
            \/ \E e \in graph.edges : e \in Reaching(plan, st) /\ SentRow(e) /\ e.to = n
         /\ n \in Reach(plan, st)
<1>1. PICK path \in st.paths : n \in PathEnds(graph, st.root, path)
  BY DEF Victims
<1>2. path = <<>> \/ path = <<path[1]>> \/ path = <<path[1], path[2]>>
  BY <1>1 DEF ShapedStep
<1>3. \A e \in graph.edges : e.to = n => e.type \notin st.sparing
  BY DEF Victims
<1>4. CASE path = <<>>
  <2>1. n = st.root
    BY <1>1, <1>4 DEF PathEnds
  <2> QED BY <1>1, <1>3, <1>4, <2>1 DEF Reach
<1>5. CASE path = <<path[1]>>
  <2>1. Len(path) = 1
    BY <1>5
  <2>2. n \in Hop(graph, {path[1]}, {st.root})
    BY <1>1, <2>1 DEF PathEnds
  <2>3. PICK e \in graph.edges : e.from = st.root /\ e.type = path[1] /\ e.to = n
    BY <2>2 DEF Hop
  <2>4. path[1] \in ToSet(path)
    BY <1>5, <2>1 DEF ToSet
  <2>5. SentRow(e) /\ e \in Rows(plan)
    BY <1>1, <2>3, <2>4, PathIsRow
  <2>6. e \in Reaching(plan, st)
    BY <1>1, <1>5, <2>3, <2>5 DEF Reaching
  <2> QED BY <1>3, <2>3, <2>5, <2>6 DEF Reach
<1>6. CASE path = <<path[1], path[2]>>
  <2>1. Len(path) = 2
    BY <1>6
  <2>2. n \in Hop(graph, {path[2]}, Hop(graph, {path[1]}, {st.root}))
    BY <1>1, <2>1 DEF PathEnds
  <2>3. PICK e \in graph.edges : e.from \in Hop(graph, {path[1]}, {st.root}) /\ e.type = path[2] /\ e.to = n
    BY <2>2 DEF Hop
  <2>4. PICK d \in graph.edges : d.from = st.root /\ d.type = path[1] /\ d.to = e.from
    BY <2>3 DEF Hop
  <2>5. path[1] \in ToSet(path) /\ path[2] \in ToSet(path)
    BY <1>6, <2>1 DEF ToSet
  <2>6. SentRow(e) /\ e \in Rows(plan) /\ d \in Rows(plan)
    BY <1>1, <2>3, <2>4, <2>5, PathIsRow
  <2>7. e \in Reaching(plan, st)
    BY <1>1, <1>6, <2>3, <2>4, <2>6 DEF Reaching
  <2> QED BY <1>3, <2>3, <2>6, <2>7 DEF Reach
<1> QED BY <1>2, <1>4, <1>5, <1>6
\* Two requests have a file in common, or not, whichever is asked.
LEMMA Symmetric ==
  ASSUME NEW p \in Requests, NEW q \in Requests, p \in SameFile(q)
  PROVE  q \in SameFile(p)
BY DEF SameFile

\* While a request writes, those before it of the file are answered, those after it idle.
LEMMA Turns ==
  ASSUME WellPlanned(plan), Alone, NEW q \in Requests, pc[q] = "writing", NEW o \in SameFile(q)
  PROVE  (o < q => pc[o] = "answered") /\ (o > q => pc[o] = "idle") /\ (o = q \/ o < q \/ o > q)
<1>1. o \in Requests /\ q \in SameFile(o)
  BY Symmetric DEF SameFile
<1>2. o \in Nat /\ q \in Nat
  BY <1>1 DEF WellPlanned, Requests
<1> QED BY <1>1, <1>2 DEF Alone

\* A request that sends a delete.
Purging(q, st) ==
  /\ q \in Requests /\ pc[q] = "writing" /\ at[q] \in DOMAIN plan[q].steps
  /\ st = plan[q].steps[at[q]] /\ st.op = "delete"

LEMMA PurgingIs ==
  ASSUME WellPlanned(plan), NEW q, NEW st, Purging(q, st)
  PROVE  st \in Deletes(plan) /\ st \in DeletesOf(plan[q]) /\ ShapedStep(st)
BY RowsAre, StepsOf DEF Purging, Requests

\* It takes nothing that a request for another file has.
LEMMA OthersStay ==
  ASSUME WellPlanned(plan), Progress, Alone, Origin, Guarded,
         NEW q, NEW st, Purging(q, st), NEW p \in Requests, p \notin SameFile(q)
  PROVE  plan[p].nodes \cap Victims(graph, st) = {}
<1> SUFFICES ASSUME NEW n \in plan[p].nodes, n \in Victims(graph, st) PROVE FALSE
  OBVIOUS
<1>1. q \in Requests /\ pc[q] = "writing" /\ st.op = "delete" /\ plan[q].steps[at[q]] = st
      /\ at[q] \in DOMAIN plan[q].steps
  BY DEF Purging
<1>2. st \in Deletes(plan) /\ st \in DeletesOf(plan[q]) /\ ShapedStep(st)
  BY PurgingIs
<1>3. /\ st.root \in plan[q].roots
      /\ \A o \in Requests :
           st.root \in plan[o].nodes \/ RowsOf(plan[o]) \cap Reaching(plan, st) # {}
             => o \in SameFile(q)
  BY <1>1, <1>2 DEF WellPlanned, Fenced, Requests, SameFile
<1>4. /\ \A e \in graph.edges : e.to = n => e.type \notin st.sparing
      /\ \/ n = st.root /\ <<>> \in st.paths
         \/ \E e \in graph.edges : e \in Reaching(plan, st) /\ SentRow(e) /\ e.to = n
      /\ n \in Reach(plan, st)
  BY <1>1, <1>2, Taken
<1>5. PICK e \in graph.edges : e \in Reaching(plan, st) /\ SentRow(e) /\ e.to = n
  BY <1>3, <1>4
<1>6. PICK o \in Requests : \E i \in DOMAIN plan[o].steps : i < at[o] /\ e \in EdgesAt(plan[o].steps[i])
  BY <1>5 DEF SentRow
<1>7. PICK i \in DOMAIN plan[o].steps : i < at[o] /\ e \in EdgesAt(plan[o].steps[i])
  BY <1>6
<1>8. e \in RowsOf(plan[o]) \cap Reaching(plan, st)
  BY <1>5, <1>7, StepsOf DEF Requests
<1>9. o \in SameFile(q)
  BY <1>3, <1>8
<1>10. plan[q].roots \cap plan[p].roots = {}
  BY DEF SameFile
<1>11. PICK x \in RowsOf(plan[o]) : Plain(x) /\ x.type \in st.sparing /\ x.to = n
  BY <1>1, <1>2, <1>4, <1>5, <1>8, <1>10 DEF WellPlanned, SharedSpared, Requests
<1>12. DOMAIN plan[o].steps = 1..Len(plan[o].steps) /\ Len(plan[o].steps) \in Nat
       /\ DOMAIN plan[q].steps = 1..Len(plan[q].steps) /\ Len(plan[q].steps) \in Nat
  BY <1>1, StepsOf DEF Requests
<1>13. CASE o = q
  <2>1. i \in 1..(at[q] - 1)
    BY <1>7, <1>12, <1>13, <1>1
  <2> QED BY <1>1, <1>5, <1>7, <1>13, <2>1 DEF WellPlanned, CleanFirst, Requests
<1>14. CASE o > q
  <2>1. at[o] = 1
    BY <1>1, <1>9, <1>14, Turns DEF Progress
  <2> QED BY <1>7, <1>12, <2>1
<1>15. CASE o < q
  <2>1. at[o] > Len(plan[o].steps) /\ at[o] \in Nat
    BY <1>1, <1>9, <1>15, Turns DEF Progress
  <2>2. PICK k \in DOMAIN plan[o].steps : x \in EdgesAt(plan[o].steps[k])
    BY <1>11, StepsOf DEF Requests
  <2>3. k < at[o]
    BY <1>12, <2>1
  <2>4. x \in graph.edges
    BY <1>2, <1>11, <2>2, <2>3 DEF Guarded, Spares
  <2> QED BY <1>4, <1>11, <2>4
<1> QED BY <1>1, <1>9, <1>13, <1>14, <1>15, Turns

\* It takes nothing that it has written itself,
LEMMA OwnStays ==
  ASSUME WellPlanned(plan), Origin, NEW q, NEW st, Purging(q, st), at[q] \in Nat,
         NEW i \in DOMAIN plan[q].steps, i < at[q]
  PROVE  NodesAt(plan[q].steps[i]) \cap Victims(graph, st) = {}
<1>1. q \in Requests /\ st.op = "delete" /\ plan[q].steps[at[q]] = st /\ at[q] \in DOMAIN plan[q].steps
  BY DEF Purging
<1>2. st \in Deletes(plan) /\ ShapedStep(st)
  BY PurgingIs
<1>3. Victims(graph, st) \subseteq Reach(plan, st)
  BY <1>1, <1>2, Taken
<1>4. i \in 1..(at[q] - 1)
  BY <1>1, StepsOf DEF Requests
<1> QED BY <1>1, <1>3, <1>4 DEF WellPlanned, CleanFirst, Requests

\* nor an edge that spares what it points at.
LEMMA GuardStays ==
  ASSUME WellPlanned(plan), Origin, NEW q, NEW st, Purging(q, st), NEW o \in Requests,
         NEW x \in RowsOf(plan[o]), Spares(plan, x), x \in graph.edges
  PROVE  x.from \notin Victims(graph, st) /\ x.to \notin Victims(graph, st)
<1>1. st \in Deletes(plan) /\ ShapedStep(st) /\ st.op = "delete"
  BY PurgingIs DEF Purging
<1>2. PICK d \in Deletes(plan) : x.type \in d.sparing
  BY DEF Spares
<1>3. x.from \notin Reach(plan, st) /\ (x.to \in Reach(plan, st) => x.type \in st.sparing)
  BY <1>1, <1>2 DEF WellPlanned, GuardsStand, Spares, Requests
<1> QED BY <1>1, <1>3, Taken

\* It takes all of the first hop of what is replaced.
LEMMA ChildTaken ==
  ASSUME WellPlanned(plan), Origin, NEW q, NEW st, Purging(q, st), NEW r \in Requests,
         NEW pair \in plan[r].owns, NEW root \in plan[r].roots, Clears(st, root, pair),
         NEW e \in graph.edges, e.from = root, e.type = pair[1]
  PROVE  e.to \in Victims(graph, st)
<1>1. st \in Deletes(plan)
  BY PurgingIs
<1>2. e \in Rows(plan)
  BY OwnedIsRow
<1>3. e.to \in Children(plan, root, pair)
  BY <1>2 DEF Children
<1>4. \A x \in Rows(plan) : x.type \in st.sparing =>
        PlainEnd(x.to) /\ x.to \notin Children(plan, root, pair)
  BY <1>1 DEF WellPlanned, Replaces, Requests
<1>5. ASSUME NEW g \in graph.edges, g.to = e.to, g.type \in st.sparing PROVE FALSE
  <2>1. PICK o \in Requests : \E i \in DOMAIN plan[o].steps :
          i < at[o] /\ \E x \in EdgesAt(plan[o].steps[i]) : OfRow(g, x)
    BY DEF Origin
  <2>2. PICK x \in Rows(plan) : OfRow(g, x)
    BY <2>1, RowsAre DEF Requests
  <2>3. g.type = x.type
    BY <2>2 DEF OfRow, Edge
  <2> QED BY <1>3, <1>4, <1>5, <2>2, <2>3 DEF OfRow
<1>6. e.to \in PathEnds(graph, root, <<pair[1]>>)
  BY DEF PathEnds, Hop
<1> QED BY <1>5, <1>6 DEF Victims, Clears
-----------------------------------------------------------------------------
\* What a statement does to the graph.

Gone(st) == IF st.op = "delete" THEN Victims(graph, st) ELSE {}
Added(st) ==
  {e \in UNION {RowEdges(x) : x \in EdgesAt(st)} : e.from \in graph.nodes /\ e.to \in graph.nodes}

LEMMA Effect ==
  ASSUME TypeInv, NEW st, ShapedStep(st), Run(st)
  PROVE  /\ graph' = [nodes |-> graph'.nodes, edges |-> graph'.edges]
         /\ \A n : n \in graph'.nodes <=> (n \in graph.nodes /\ n \notin Gone(st)) \/ n \in NodesAt(st)
         /\ \A e : e \in graph'.edges <=>
              \/ e \in graph.edges /\ e.from \notin Gone(st) /\ e.to \notin Gone(st)
              \/ e \in Added(st)
<1>1. graph = [nodes |-> graph.nodes, edges |-> graph.edges]
  BY DEF TypeInv
<1>2. CASE st.op = "nodes"
  <2>1. graph' = [nodes |-> graph.nodes \cup st.rows, edges |-> graph.edges]
    BY <1>2 DEF Run, Applied, MergeNodes
  <2>2. Gone(st) = {} /\ Added(st) = {} /\ NodesAt(st) = st.rows
    BY <1>2 DEF Gone, Added, NodesAt, EdgesAt
  <2> QED BY <2>1, <2>2
<1>3. CASE st.op = "tables"
  <2>1. graph' = [nodes |-> graph.nodes \cup {x.table : x \in st.rows}, edges |-> graph.edges]
    BY <1>3 DEF Run, MergeTables, MergeNodes
  <2>2. Gone(st) = {} /\ Added(st) = {} /\ NodesAt(st) = {x.table : x \in st.rows}
    BY <1>3 DEF Gone, Added, NodesAt, EdgesAt
  <2> HIDE DEF NodesAt
  <2> QED BY <2>1, <2>2
<1>4. CASE st.op = "edges"
  <2>1. graph' = MatchMergeEdges(graph, UNION {RowEdges(x) : x \in st.rows})
    BY <1>4 DEF Run
  <2>2. graph' = [nodes |-> graph.nodes, edges |-> graph.edges \cup Added(st)]
    BY <1>4, <2>1 DEF MatchMergeEdges, Added, EdgesAt
  <2>3. Gone(st) = {} /\ NodesAt(st) = {}
    BY <1>4 DEF Gone, NodesAt
  <2> QED BY <2>2, <2>3
<1>5. CASE st.op = "delete"
  <2>1. graph' = [nodes |-> graph.nodes \ Gone(st),
                  edges |-> {e \in graph.edges : e.from \notin Gone(st) /\ e.to \notin Gone(st)}]
    BY <1>5 DEF Run, Applied, DetachDelete, Gone
  <2>2. Added(st) = {} /\ NodesAt(st) = {}
    BY <1>5 DEF Added, NodesAt, EdgesAt
  <2> QED BY <2>1, <2>2
<1> QED BY <1>2, <1>3, <1>4, <1>5 DEF ShapedStep

\* A table keeps its id or is given that of a row.
LEMMA TableEffect ==
  ASSUME TypeInv, TableIds, NEW st, ShapedStep(st), Run(st)
  PROVE  \A t \in Tables' :
           /\ t \in DOMAIN tableId'
           /\ \/ t \in Tables /\ tableId'[t] = tableId[t]
              \/ \E x \in IdsAt(st) : x.table = t /\ x.id = tableId'[t]
<1>1. CASE st.op = "tables"
  <2> DEFINE merged == {r.table : r \in st.rows}
             rowOf(t) == CHOOSE r \in st.rows : r.table = t
             idOf(t) == IF t \in merged /\ (st.how = "set" \/ t \notin Tables)
                        THEN rowOf(t).id ELSE tableId[t]
  <2>1. /\ graph'.nodes = graph.nodes \cup merged
        /\ tableId' = [t \in Tables \cup merged |-> idOf(t)]
    BY <1>1 DEF Run, MergeTables, MergeNodes
  <2>2. \A t \in merged : rowOf(t) \in IdsAt(st) /\ rowOf(t).table = t
    BY <1>1 DEF IdsAt
  <2>3. Tables' \subseteq Tables \cup merged
    BY <2>1 DEF Tables
  <2>4. \A t \in Tables \cup merged :
          \/ t \in Tables /\ idOf(t) = tableId[t]
          \/ \E x \in IdsAt(st) : x.table = t /\ x.id = idOf(t)
    BY <2>2
  <2> HIDE DEF merged, idOf
  <2> QED BY <2>1, <2>3, <2>4
<1>2. CASE st.op # "tables"
  <2>1. tableId' = tableId
    BY <1>2 DEF Run
  <2>2. \A n \in NodesAt(st) : n.label # "Table"
    BY <1>2 DEF NodesAt, ShapedStep
  <2>3. Tables' \subseteq Tables
    BY <2>2, Effect DEF Tables
  <2> QED BY <2>1, <2>3 DEF TableIds
<1> QED BY <1>1, <1>2

\* An edge that is added is of a row, and between nodes of the graph.
LEMMA AddedIs ==
  ASSUME NEW st, ShapedStep(st), NEW e \in Added(st)
  PROVE  \E x \in EdgesAt(st) : OfRow(e, x)
<1>1. PICK x \in EdgesAt(st) : e \in RowEdges(x)
  BY DEF Added
<1>2. PICK f \in Matched(x.from) : \E t \in Matched(x.to) : e = Edge(f, x.type, t)
  BY <1>1 DEF RowEdges
<1>3. PICK t \in Matched(x.to) : e = Edge(f, x.type, t)
  BY <1>2
<1>4. e.from = f /\ e.to = t
  BY <1>3 DEF Edge
<1>5. (PlainEnd(x.from) => f = x.from) /\ (PlainEnd(x.to) => t = x.to)
  BY <1>2, <1>3 DEF Matched, PlainEnd
<1> QED BY <1>3, <1>4, <1>5 DEF OfRow

\* A row whose ends are in the graph adds the edge it has in mind, when its ends are
\* matched by key or the parsers agree on the ids of tables.
LEMMA EndFound ==
  ASSUME WellPlanned(plan), TableIds, NEW p \in Requests, NEW x \in RowsOf(plan[p]),
         Ends(x) \subseteq plan[p].nodes, NEW end \in {x.from, x.to}, Meant(end) \in graph.nodes,
         PlainEnd(end) \/ IdsAgree
  PROVE  Meant(end) \in Matched(end)
<1>1. CASE PlainEnd(end)
  BY <1>1 DEF PlainEnd, Meant, Matched
<1>2. CASE ~ PlainEnd(end)
  <2>1. Meant(end) = end.meant
    BY <1>2 DEF PlainEnd, Meant
  <2>2. (CASE end.by = "id" -> end.meant.label = "Table"
                                 /\ \E y \in plan[p].tables : y.table = end.meant /\ y.id = end.key
           [] end.by = "name" -> end.meant.label = "QlikTable" /\ end.meant.id[4] = end.key
           [] OTHER -> end.meant.label = "QlikScript" /\ end.meant.id[3] = end.key)
    BY <1>2 DEF WellPlanned, MatchesMeant, Requests
  <2>3. CASE end.by = "id"
    <3>1. PICK y \in plan[p].tables : y.table = end.meant /\ y.id = end.key
      BY <2>2, <2>3
    <3>2. end.meant \in Tables
      BY <2>1, <2>2, <2>3 DEF Tables
    <3>3. PICK q \in Requests : \E z \in plan[q].tables : z.table = end.meant /\ z.id = tableId[end.meant]
      BY <3>2 DEF TableIds
    <3>4. tableId[end.meant] = end.key
      BY <1>2, <3>1, <3>3 DEF IdsAgree, Range, Requests
    <3> QED BY <1>2, <2>1, <2>3, <3>2, <3>4 DEF Matched, PlainEnd
  <2>4. CASE end.by = "name"
    BY <1>2, <2>1, <2>2, <2>4 DEF Matched, PlainEnd
  <2>5. CASE end.by \notin {"id", "name"}
    BY <1>2, <2>1, <2>2, <2>5 DEF Matched, PlainEnd
  <2> QED BY <2>3, <2>4, <2>5
<1> QED BY <1>1, <1>2

LEMMA RowLands ==
  ASSUME WellPlanned(plan), TableIds, NEW p \in Requests, NEW i \in DOMAIN plan[p].steps,
         NEW x \in EdgesAt(plan[p].steps[i]), Ends(x) \subseteq plan[p].nodes,
         Ends(x) \subseteq graph.nodes, Plain(x) \/ IdsAgree
  PROVE  MeantEdge(x) \in Added(plan[p].steps[i])
<1>1. x \in RowsOf(plan[p]) /\ x = Edge(x.from, x.type, x.to)
  BY RowsAre, StepsOf DEF Requests
<1>2. Meant(x.from) \in Matched(x.from) /\ Meant(x.to) \in Matched(x.to)
  BY <1>1, EndFound DEF Ends, Plain
<1>3. x.type = "INHERITS_FROM" => Meant(x.to) # x.from
  BY <1>1 DEF WellPlanned, MatchesMeant, Requests
<1>4. MeantEdge(x) \in RowEdges(x)
  BY <1>2, <1>3 DEF RowEdges, MeantEdge, Edge
<1>5. MeantEdge(x).from \in graph.nodes /\ MeantEdge(x).to \in graph.nodes
  BY DEF MeantEdge, Ends, Edge
<1> QED BY <1>4, <1>5 DEF Added

-----------------------------------------------------------------------------
\* What a request's next statement leaves of what held before it.

Sending(q, st) ==
  /\ q \in Requests /\ pc[q] = "writing" /\ at[q] \in DOMAIN plan[q].steps
  /\ st = plan[q].steps[at[q]] /\ Run(st)
  /\ at' = [at EXCEPT ![q] = @ + 1]
  /\ UNCHANGED <<plan, pc, disturbed>>

LEMMA SendIs ==
  ASSUME TypeInv, Progress, WellPlanned(plan), NEW q \in Requests, Send(q)
  PROVE  Sending(q, plan[q].steps[at[q]])
<1>1. at[q] \in 1..Len(plan[q].steps)
  BY StepsOf DEF Send, Progress, Requests
<1> QED BY <1>1, StepsOf DEF Send, Sending, Requests

\* How far each request is then.
LEMMA Positions ==
  ASSUME TypeInv, Undisturbed, WellPlanned(plan), NEW q, NEW st, Sending(q, st)
  PROVE  /\ \A p \in Requests : at[p] \in Nat /\ at'[p] \in Nat
         /\ \A p \in Requests : \A i \in DOMAIN plan[p].steps :
              /\ i < at[p] => i < at'[p]
              /\ i < at'[p] => i < at[p] \/ (p = q /\ i = at[q])
         /\ at[q] < at'[q]
<1>1. \A p \in Requests : at[p] \in Nat \ {0}
  BY DEF Undisturbed, Progress
<1>2. \A p \in Requests : at'[p] = IF p = q THEN at[q] + 1 ELSE at[p]
  BY DEF TypeInv, Sending
<1>3. \A p \in Requests : \A i \in DOMAIN plan[p].steps : i \in Nat
  BY StepsOf DEF Requests
<1> QED BY <1>1, <1>2, <1>3 DEF Sending

\* The latest request of a file is the one that sends, or is of another file.
LEMMA LatestSends ==
  ASSUME WellPlanned(plan), Alone, NEW q, NEW st, Sending(q, st)
  PROVE  Latest(q) /\ \A p \in Requests : Latest(p) => p = q \/ p \notin SameFile(q)
<1>1. q \in Requests /\ pc[q] = "writing"
  BY DEF Sending
<1>2. Latest(q)
  BY <1>1, Turns DEF Latest
<1>3. ASSUME NEW p \in Requests, Latest(p), p \in SameFile(q) PROVE p = q
  <2>1. q \in SameFile(p)
    BY <1>1, <1>3, Symmetric
  <2>2. p \in Nat /\ q \in Nat
    BY <1>1 DEF WellPlanned, Requests
  <2> QED BY <1>1, <1>3, <2>1, <2>2, Turns DEF Latest
<1> QED BY <1>2, <1>3

\* Nothing of the latest requests goes, and no edge that spares.
LEMMA Steady ==
  ASSUME Undisturbed, WellPlanned(plan), NEW q, NEW st, Sending(q, st)
  PROVE  /\ \A p \in Requests : Latest(p) => \A i \in DOMAIN plan[p].steps : i < at[p] =>
              NodesAt(plan[p].steps[i]) \cap Gone(st) = {}
         /\ \A p \in Requests : p \notin SameFile(q) => plan[p].nodes \cap Gone(st) = {}
         /\ \A o \in Requests : \A x \in RowsOf(plan[o]) : Spares(plan, x) /\ x \in graph.edges =>
              x.from \notin Gone(st) /\ x.to \notin Gone(st)
<1>1. CASE st.op # "delete"
  BY <1>1 DEF Gone
<1>2. CASE st.op = "delete"
  <2>1. Purging(q, st) /\ Gone(st) = Victims(graph, st)
    BY <1>2 DEF Purging, Sending, Gone
  <2>2. /\ Progress /\ Alone /\ Origin /\ Guarded
        /\ at[q] \in Nat /\ q \in Requests
    BY DEF Undisturbed, Progress, Sending
  <2>3. \A p \in Requests : p \notin SameFile(q) => plan[p].nodes \cap Gone(st) = {}
    BY <2>1, <2>2, OthersStay
  <2>4. \A i \in DOMAIN plan[q].steps : i < at[q] => NodesAt(plan[q].steps[i]) \cap Gone(st) = {}
    BY <2>1, <2>2, OwnStays
  <2>5. \A p \in Requests : \A i \in DOMAIN plan[p].steps : NodesAt(plan[p].steps[i]) \subseteq plan[p].nodes
    BY StepsOf DEF Requests
  <2>6. \A p \in Requests : Latest(p) => \A i \in DOMAIN plan[p].steps : i < at[p] =>
          NodesAt(plan[p].steps[i]) \cap Gone(st) = {}
    BY <2>2, <2>3, <2>4, <2>5, LatestSends
  <2>7. \A o \in Requests : \A x \in RowsOf(plan[o]) : Spares(plan, x) /\ x \in graph.edges =>
          x.from \notin Gone(st) /\ x.to \notin Gone(st)
    BY <2>1, <2>2, GuardStays
  <2> QED BY <2>3, <2>6, <2>7
<1> QED BY <1>1, <1>2

\* The ends a row has in mind were written before it, and are there.
LEMMA EndsThere ==
  ASSUME Undisturbed, WellPlanned(plan), NEW p \in Requests, NEW i \in DOMAIN plan[p].steps,
         NEW x \in EdgesAt(plan[p].steps[i]), NEW n \in Ends(x), n \in plan[p].nodes
  PROVE  \E k \in DOMAIN plan[p].steps : k < i /\ n \in NodesAt(plan[p].steps[k])
<1>1. \E k \in 1..(i - 1) : n \in NodesAt(plan[p].steps[k])
  BY DEF WellPlanned, EndsBefore, Requests
<1> QED BY <1>1, StepsOf DEF Requests

LEMMA RowSent ==
  ASSUME Undisturbed, WellPlanned(plan), NEW q, NEW st, Sending(q, st), NEW x \in EdgesAt(st),
         Ends(x) \subseteq plan[q].nodes, Plain(x) \/ IdsAgree
  PROVE  MeantEdge(x) \in Added(st)
<1>1. /\ q \in Requests /\ at[q] \in DOMAIN plan[q].steps /\ st = plan[q].steps[at[q]]
      /\ Alone /\ NodesLanded /\ TableIds
  BY DEF Sending, Undisturbed
<1>2. Latest(q)
  BY <1>1, LatestSends
<1>3. ASSUME NEW n \in Ends(x) PROVE n \in graph.nodes
  <2>1. PICK k \in DOMAIN plan[q].steps : k < at[q] /\ n \in NodesAt(plan[q].steps[k])
    BY <1>1, EndsThere
  <2> QED BY <1>1, <1>2, <2>1 DEF NodesLanded
<1> QED BY <1>1, <1>3, RowLands

\* The edges that rows matched by key add are the rows.
LEMMA AddedRow ==
  ASSUME WellPlanned(plan), NEW q, NEW st, Sending(q, st), NEW r \in Requests,
         NEW pair \in plan[r].owns, NEW e \in Added(st), e.type \in {pair[1], pair[2]}
  PROVE  e \in EdgesAt(st) /\ Plain(e) /\ e \in Rows(plan) /\ st.op = "edges"
<1>1. /\ q \in Requests /\ at[q] \in DOMAIN plan[q].steps /\ st = plan[q].steps[at[q]]
      /\ ShapedStep(st)
  BY StepsOf DEF Sending, Requests
<1>2. PICK x \in EdgesAt(st) : OfRow(e, x)
  BY <1>1, AddedIs
<1>3. x \in Rows(plan) /\ x = Edge(x.from, x.type, x.to)
  BY <1>1, <1>2, RowsAre DEF Requests
<1>4. e.type = x.type
  BY <1>2 DEF OfRow, Edge
<1>5. Plain(x)
  BY <1>3, <1>4 DEF WellPlanned, PlainPaths, Requests
<1>6. e = x
  BY <1>2, <1>3, <1>5 DEF OfRow, Plain
<1> QED BY <1>2, <1>3, <1>5, <1>6 DEF EdgesAt
-----------------------------------------------------------------------------
\* Each part of the invariant after a statement.

LEMMA OriginSend ==
  ASSUME TypeInv, Undisturbed, WellPlanned(plan), NEW q, NEW st, Sending(q, st)
  PROVE  Origin'
<1>1. /\ q \in Requests /\ at[q] \in DOMAIN plan[q].steps /\ st = plan[q].steps[at[q]]
      /\ ShapedStep(st) /\ Run(st) /\ plan' = plan
  BY StepsOf DEF Sending, Requests
<1>2. ASSUME NEW e \in graph'.edges
      PROVE  \E o \in Requests : \E i \in DOMAIN plan[o].steps :
               i < at'[o] /\ \E x \in EdgesAt(plan[o].steps[i]) : OfRow(e, x)
  <2>1. CASE e \in graph.edges
    <3>1. PICK o \in Requests : \E i \in DOMAIN plan[o].steps :
            i < at[o] /\ \E x \in EdgesAt(plan[o].steps[i]) : OfRow(e, x)
      BY <2>1 DEF Undisturbed, Origin
    <3> QED BY <3>1, Positions
  <2>2. CASE e \in Added(st)
    BY <1>1, <2>2, AddedIs, Positions
  <2> QED BY <1>1, <2>1, <2>2, Effect
<1> QED BY <1>1, <1>2 DEF Origin, Requests

LEMMA GuardedSend ==
  ASSUME TypeInv, Undisturbed, WellPlanned(plan), NEW q, NEW st, Sending(q, st)
  PROVE  Guarded'
<1>1. /\ q \in Requests /\ at[q] \in DOMAIN plan[q].steps /\ st = plan[q].steps[at[q]]
      /\ ShapedStep(st) /\ Run(st) /\ plan' = plan
  BY StepsOf DEF Sending, Requests
<1>2. ASSUME NEW o \in Requests, NEW i \in DOMAIN plan[o].steps, i < at'[o],
             NEW x \in EdgesAt(plan[o].steps[i]), Spares(plan, x)
      PROVE  x \in graph'.edges
  <2>1. x \in RowsOf(plan[o])
    BY StepsOf DEF Requests
  <2>2. CASE i < at[o]
    <3>1. x \in graph.edges
      BY <1>2, <2>2 DEF Undisturbed, Guarded
    <3>2. x.from \notin Gone(st) /\ x.to \notin Gone(st)
      BY <1>2, <2>1, <3>1, Steady
    <3> QED BY <1>1, <3>1, <3>2, Effect
  <2>3. CASE o = q /\ i = at[q]
    <3>1. Ends(x) \subseteq plan[q].nodes
      BY <1>2, <2>1, <2>3 DEF WellPlanned, GuardsStand, Spares, Requests
    <3>2. MeantEdge(x) \in Added(st)
      BY <1>1, <1>2, <2>3, <3>1, RowSent DEF Spares
    <3>3. MeantEdge(x) = x
      <4>1. x = Edge(x.from, x.type, x.to)
        BY <1>2, RowsAre DEF Requests
      <4> QED BY <1>2, <4>1 DEF MeantEdge, Meant, Spares, Plain, PlainEnd
    <3> QED BY <1>1, <3>2, <3>3, Effect
  <2> QED BY <1>2, <2>2, <2>3, Positions
<1> QED BY <1>1, <1>2 DEF Guarded, Requests

LEMMA NodesSend ==
  ASSUME TypeInv, Undisturbed, WellPlanned(plan), NEW q, NEW st, Sending(q, st)
  PROVE  NodesLanded'
<1>1. /\ q \in Requests /\ at[q] \in DOMAIN plan[q].steps /\ st = plan[q].steps[at[q]]
      /\ ShapedStep(st) /\ Run(st) /\ plan' = plan /\ pc' = pc
  BY StepsOf DEF Sending, Requests
<1>2. ASSUME NEW p \in Requests, Latest(p), NEW i \in DOMAIN plan[p].steps, i < at'[p],
             NEW n \in NodesAt(plan[p].steps[i])
      PROVE  n \in graph'.nodes
  <2>1. CASE i < at[p]
    <3>1. n \in graph.nodes
      BY <1>2, <2>1 DEF Undisturbed, NodesLanded
    <3>2. n \notin Gone(st)
      BY <1>2, <2>1, Steady
    <3> QED BY <1>1, <3>1, <3>2, Effect
  <2>2. CASE p = q /\ i = at[q]
    BY <1>1, <1>2, <2>2, Effect
  <2> QED BY <1>2, <2>1, <2>2, Positions
<1> QED BY <1>1, <1>2 DEF NodesLanded, Latest, SameFile, Requests

LEMMA TablesSend ==
  ASSUME TypeInv, Undisturbed, WellPlanned(plan), NEW q, NEW st, Sending(q, st)
  PROVE  TableIds'
<1>1. /\ q \in Requests /\ at[q] \in DOMAIN plan[q].steps /\ st = plan[q].steps[at[q]]
      /\ ShapedStep(st) /\ Run(st) /\ plan' = plan /\ TableIds
  BY StepsOf DEF Sending, Requests, Undisturbed
<1>2. IdsAt(st) \subseteq plan[q].tables
  BY <1>1, StepsOf DEF Requests
<1>3. ASSUME NEW t \in Tables'
      PROVE  t \in DOMAIN tableId' /\ \E o \in Requests : \E x \in plan[o].tables :
               x.table = t /\ x.id = tableId'[t]
  <2>1. t \in DOMAIN tableId'
    BY <1>1, TableEffect
  <2>2. CASE t \in Tables /\ tableId'[t] = tableId[t]
    BY <1>1, <2>1, <2>2 DEF TableIds
  <2>3. CASE \E x \in IdsAt(st) : x.table = t /\ x.id = tableId'[t]
    BY <1>1, <1>2, <2>1, <2>3
  <2> QED BY <1>1, <2>2, <2>3, TableEffect
<1> QED BY <1>1, <1>3 DEF TableIds, Requests

LEMMA EdgesSend ==
  ASSUME TypeInv, Undisturbed, WellPlanned(plan), NEW q, NEW st, Sending(q, st)
  PROVE  EdgesLanded'
<1>1. /\ q \in Requests /\ at[q] \in DOMAIN plan[q].steps /\ st = plan[q].steps[at[q]]
      /\ ShapedStep(st) /\ Run(st) /\ plan' = plan /\ pc' = pc
  BY StepsOf DEF Sending, Requests
<1>2. ASSUME NEW p \in Requests, Latest(p), NEW i \in DOMAIN plan[p].steps, i < at'[p],
             NEW x \in EdgesAt(plan[p].steps[i]), Plain(x) \/ IdsAgree, Ends(x) \subseteq plan[p].nodes
      PROVE  MeantEdge(x) \in graph'.edges
  <2>1. CASE i < at[p]
    <3>1. MeantEdge(x) \in graph.edges
      BY <1>2, <2>1 DEF Undisturbed, EdgesLanded
    <3>2. ASSUME NEW n \in Ends(x) PROVE n \notin Gone(st)
      <4>1. PICK k \in DOMAIN plan[p].steps : k < i /\ n \in NodesAt(plan[p].steps[k])
        BY <1>2, EndsThere
      <4>2. k < at[p]
        BY <2>1, <4>1, StepsOf, Positions DEF Requests
      <4> QED BY <1>2, <4>1, <4>2, Steady
    <3>3. MeantEdge(x).from \notin Gone(st) /\ MeantEdge(x).to \notin Gone(st)
      BY <3>2 DEF MeantEdge, Ends, Edge
    <3> QED BY <1>1, <3>1, <3>3, Effect
  <2>2. CASE p = q /\ i = at[q]
    BY <1>1, <1>2, <2>2, RowSent, Effect
  <2> QED BY <1>2, <2>1, <2>2, Positions
<1>3. IdsAgree' <=> IdsAgree
  BY <1>1 DEF IdsAgree
<1> QED BY <1>1, <1>2, <1>3 DEF EdgesLanded, Latest, SameFile, Requests

LEMMA HungSend ==
  ASSUME TypeInv, Undisturbed, WellPlanned(plan), NEW q, NEW st, Sending(q, st)
  PROVE  HungStand'
<1>1. /\ q \in Requests /\ at[q] \in DOMAIN plan[q].steps /\ st = plan[q].steps[at[q]]
      /\ ShapedStep(st) /\ Run(st) /\ plan' = plan /\ Origin /\ Alone /\ EdgesLanded /\ HungStand
  BY StepsOf DEF Sending, Requests, Undisturbed
<1>2. ASSUME NEW r \in Requests, NEW pair \in plan[r].owns, NEW root \in plan[r].roots,
             NEW e \in graph'.edges, Hung(plan, root, pair, e)
      PROVE  Edge(root, pair[1], e.from) \in graph'.edges
  <2> DEFINE f == Edge(root, pair[1], e.from)
  <2>1. f.from = root /\ f.type = pair[1] /\ f.to = e.from
    BY DEF Edge
  <2>2. e.type = pair[2]
    BY <1>2 DEF Hung
  <2> HIDE DEF f
  <2>3. CASE e \in graph.edges /\ e.from \notin Gone(st)
    <3>1. f \in graph.edges
      BY <1>1, <1>2, <2>3 DEF HungStand, f
    <3>2. ASSUME root \in Gone(st) PROVE FALSE
      <4>1. Purging(q, st) /\ root \in Victims(graph, st)
        BY <3>2 DEF Gone, Purging, Sending
      <4>2. st \in Deletes(plan) /\ st.op = "delete"
        BY <4>1, PurgingIs DEF Purging
      <4>3. root \in Reach(plan, st)
        BY <1>1, <4>1, <4>2, Taken
      <4>4. Clears(st, root, pair)
        BY <4>2, <4>3 DEF WellPlanned, Replaces, Requests, Clears
      <4>5. f.to \in Victims(graph, st)
        BY <1>1, <2>1, <3>1, <4>1, <4>4, ChildTaken
      <4> QED BY <2>1, <2>3, <4>2, <4>5 DEF Gone
    <3> QED BY <1>1, <2>1, <2>3, <3>1, <3>2, Effect DEF f
  <2>4. CASE e \in Added(st)
    <3>1. e \in EdgesAt(st) /\ st.op = "edges"
      BY <2>2, <2>4, AddedRow
    <3>2. /\ root \in plan[q].roots
          /\ \E k \in 1..(at[q] - 1) : f \in EdgesAt(plan[q].steps[k])
      BY <1>1, <1>2, <3>1 DEF WellPlanned, Replaces, Requests, Owned, f
    <3>3. PICK k \in DOMAIN plan[q].steps : k < at[q] /\ f \in EdgesAt(plan[q].steps[k])
      BY <1>1, <3>2, StepsOf DEF Requests
    <3>4. Ends(f) \subseteq plan[q].nodes
      <4>1. Owned(plan, root, pair, f)
        BY <2>1 DEF Owned
      <4> QED BY <1>1, <3>3, <4>1 DEF WellPlanned, Replaces, Requests
    <3>5. f \in Rows(plan)
      BY <1>1, <3>3, RowsAre DEF Requests
    <3>6. Plain(f) /\ f = Edge(f.from, f.type, f.to)
      BY <2>1, <3>5, RowsAre DEF WellPlanned, PlainPaths, Requests
    <3>7. MeantEdge(f) = f
      BY <3>6 DEF MeantEdge, Meant, Plain, PlainEnd
    <3>8. f \in graph.edges
      BY <1>1, <3>3, <3>4, <3>6, <3>7, LatestSends DEF EdgesLanded
    <3> QED BY <1>1, <3>1, <3>8, Effect DEF Gone, f
  <2> QED BY <1>1, <2>3, <2>4, Effect DEF f
<1> QED BY <1>1, <1>2 DEF HungStand, Requests

LEMMA StaleSend ==
  ASSUME TypeInv, Undisturbed, WellPlanned(plan), NEW q, NEW st, Sending(q, st)
  PROVE  NoneStale'
<1>1. /\ q \in Requests /\ at[q] \in DOMAIN plan[q].steps /\ st = plan[q].steps[at[q]]
      /\ ShapedStep(st) /\ Run(st) /\ plan' = plan /\ pc' = pc
      /\ Origin /\ Alone /\ HungStand /\ NoneStale
  BY StepsOf DEF Sending, Requests, Undisturbed
<1>2. ASSUME NEW r \in Requests, Latest(r), NEW pair \in plan[r].owns, NEW root \in plan[r].roots,
             NEW i \in DOMAIN plan[r].steps, i < at'[r], Clears(plan[r].steps[i], root, pair),
             NEW e \in graph'.edges, Owned(plan, root, pair, e)
      PROVE  e \in RowsOf(plan[r])
  <2>1. e.type \in {pair[1], pair[2]}
    BY <1>2 DEF Owned, Hung
  <2>2. CASE e \in Added(st)
    <3>1. e \in EdgesAt(st)
      BY <2>1, <2>2, AddedRow
    <3>2. root \in plan[q].roots
      BY <1>1, <1>2, <3>1 DEF WellPlanned, Replaces, Requests
    <3>3. r \in SameFile(q)
      BY <3>2 DEF SameFile
    <3>4. r = q
      BY <1>1, <1>2, <3>3, LatestSends
    <3> QED BY <1>1, <3>1, <3>4, StepsOf DEF Requests
  <2>3. CASE e \in graph.edges /\ e.from \notin Gone(st) /\ e.to \notin Gone(st)
    <3>1. CASE i < at[r]
      BY <1>1, <1>2, <2>3, <3>1 DEF NoneStale, Cleared
    <3>2. CASE r = q /\ i = at[q]
      <4>1. Clears(st, root, pair) /\ Purging(q, st) /\ Gone(st) = Victims(graph, st)
        BY <1>1, <1>2, <3>2 DEF Clears, Purging, Sending, Gone
      <4>2. ASSUME e.from = root, e.type = pair[1] PROVE FALSE
        BY <1>1, <1>2, <2>3, <4>1, <4>2, ChildTaken
      <4>3. ASSUME Hung(plan, root, pair, e) PROVE FALSE
        <5> DEFINE f == Edge(root, pair[1], e.from)
        <5>1. f \in graph.edges
          BY <1>1, <1>2, <2>3, <4>3 DEF HungStand
        <5>2. f.from = root /\ f.type = pair[1] /\ f.to = e.from
          BY DEF Edge
        <5> HIDE DEF f
        <5>3. f.to \in Victims(graph, st)
          BY <1>1, <1>2, <4>1, <5>1, <5>2, ChildTaken
        <5> QED BY <2>3, <4>1, <5>2, <5>3
      <4> QED BY <1>2, <4>2, <4>3 DEF Owned
    <3> QED BY <1>2, <3>1, <3>2, Positions
  <2> QED BY <1>1, <2>2, <2>3, Effect
<1> QED BY <1>1, <1>2 DEF NoneStale, Cleared, Latest, SameFile, Requests

LEMMA Sends ==
  ASSUME TypeInv, Undisturbed, WellPlanned(plan), NEW q, NEW st, Sending(q, st)
  PROVE  TypeInv' /\ Undisturbed'
<1>1. /\ q \in Requests /\ pc[q] = "writing" /\ plan' = plan /\ pc' = pc
      /\ at' = [at EXCEPT ![q] = @ + 1] /\ ShapedStep(st) /\ Run(st)
  BY StepsOf DEF Sending, Requests
<1>2. at' = [r \in Requests |-> at'[r]]
  BY <1>1 DEF TypeInv
<1>3. TypeInv'
  BY <1>1, <1>2, Effect DEF TypeInv, Requests
<1>4. \A p \in Requests : at'[p] = IF p = q THEN at[q] + 1 ELSE at[p]
  BY <1>1 DEF TypeInv
<1>5. Progress'
  BY <1>1, <1>4 DEF Undisturbed, Progress, Requests
<1>6. Alone'
  BY <1>1 DEF Undisturbed, Alone, SameFile, Requests
<1> QED BY <1>3, <1>5, <1>6, OriginSend, GuardedSend, NodesSend, TablesSend, EdgesSend, HungSend,
           StaleSend DEF Undisturbed

-----------------------------------------------------------------------------
\* A request that starts or is answered moves nothing else.
LEMMA PcMoves ==
  ASSUME TypeInv, Undisturbed, UNCHANGED <<graph, tableId, plan, at>>,
         Progress', Alone', \A p \in Requests : Latest(p)' => Latest(p) \/ at[p] = 1,
         WellPlanned(plan)
  PROVE  Undisturbed'
<1>1. plan' = plan /\ graph' = graph /\ tableId' = tableId /\ at' = at
  OBVIOUS
<1>2. \A p \in Requests : \A i \in DOMAIN plan[p].steps : i < at[p] => at[p] # 1
  BY StepsOf DEF Requests
<1>3. Origin' /\ Guarded'
  BY <1>1 DEF Undisturbed, Origin, Guarded, Requests
<1>4. TableIds' /\ HungStand'
  BY <1>1 DEF Undisturbed, TableIds, HungStand, Requests, Tables
<1>5. NodesLanded'
  BY <1>1, <1>2 DEF Undisturbed, NodesLanded, Requests
<1>6. IdsAgree' <=> IdsAgree
  BY <1>1 DEF IdsAgree
<1>7. EdgesLanded'
  BY <1>1, <1>2, <1>6 DEF Undisturbed, EdgesLanded, Requests
<1>8. NoneStale'
  BY <1>1, <1>2 DEF Undisturbed, NoneStale, Requests, Cleared
<1> QED BY <1>3, <1>4, <1>5, <1>7, <1>8 DEF Undisturbed

LEMMA Starts ==
  ASSUME TypeInv, Undisturbed, WellPlanned(plan), NEW r \in Requests, Start(r), ~ disturbed'
  PROVE  Undisturbed'
<1>1. /\ pc[r] = "idle" /\ \A q \in SameFile(r) : q < r => pc[q] = "answered"
      /\ UNCHANGED <<graph, tableId, plan, at>> /\ Requests' = Requests
  BY DEF Start, TypeInv, SameFile, Requests
<1>2. \A p \in Requests : pc'[p] = IF p = r THEN "writing" ELSE pc[p]
  BY DEF Start, TypeInv
<1>3. Progress'
  BY <1>1, <1>2 DEF Undisturbed, Progress, Requests
<1>4. \A p \in Requests : SameFile(p)' = SameFile(p) /\ SameFile(p) \subseteq Requests
  BY <1>1 DEF SameFile
<1>5. Alone'
  BY <1>1, <1>2, <1>4 DEF Undisturbed, Alone
<1>6. \A p \in Requests : Latest(p)' => Latest(p) \/ at[p] = 1
  BY <1>1, <1>2, <1>4 DEF Latest, Undisturbed, Progress
<1> QED BY <1>1, <1>3, <1>5, <1>6, PcMoves

LEMMA Answers ==
  ASSUME TypeInv, Undisturbed, WellPlanned(plan), NEW r \in Requests, Answer(r)
  PROVE  Undisturbed'
<1>1. /\ pc[r] = "writing" /\ at[r] > Len(plan[r].steps)
      /\ UNCHANGED <<graph, tableId, plan, at>> /\ Requests' = Requests
  BY DEF Answer, Requests
<1>2. \A p \in Requests : pc'[p] = IF p = r THEN "answered" ELSE pc[p]
  BY DEF Answer, TypeInv
<1>3. Progress'
  BY <1>1, <1>2 DEF Undisturbed, Progress, Requests
<1>4. \A p \in Requests : SameFile(p)' = SameFile(p) /\ SameFile(p) \subseteq Requests
  BY <1>1 DEF SameFile
<1>5. Alone'
  BY <1>1, <1>2, <1>4 DEF Undisturbed, Alone
<1>6. \A p \in Requests : Latest(p)' => Latest(p)
  BY <1>1, <1>2, <1>4 DEF Latest
<1> QED BY <1>1, <1>3, <1>5, <1>6, PcMoves

LEMMA PlansAre ==
  ASSUME TypeInv
  PROVE  WellPlanned(plan)
BY DEF TypeInv

-----------------------------------------------------------------------------
\* The invariant holds: see its parts above.
THEOREM Inductive == Spec => []IInv
<1>1. Init => IInv
  <2> SUFFICES ASSUME Init PROVE IInv
    OBVIOUS
  <2>0. WellPlanned(plan)
    BY FilesAssumption, FilesPlanned DEF Init
  <2>1. /\ graph = [nodes |-> {}, edges |-> {}]
        /\ at = [r \in Requests |-> 1] /\ pc = [r \in Requests |-> "idle"]
    BY DEF Init, EmptyGraph
  <2>2. TypeInv
    BY <2>0, <2>1 DEF TypeInv
  <2>3. WellPlanned(plan)
    BY <2>2, PlansAre
  <2>4. \A p \in Requests : ~ Latest(p)
    BY <2>1 DEF Latest
  <2>5. Progress /\ Alone
    BY <2>1 DEF Progress, Alone, SameFile
  <2>6. Origin /\ HungStand
    BY <2>1 DEF Origin, HungStand
  <2>7. TableIds
    BY <2>1 DEF TableIds, Tables
  <2>8. NodesLanded /\ EdgesLanded /\ NoneStale
    BY <2>4 DEF NodesLanded, EdgesLanded, NoneStale
  <2>9. Guarded
    BY <2>1, <2>3, StepsOf DEF Guarded, Requests
  <2> QED BY <2>2, <2>5, <2>6, <2>7, <2>8, <2>9 DEF IInv, Undisturbed
<1>2. IInv /\ [Next]_vars => IInv'
  <2> SUFFICES ASSUME IInv, [Next]_vars PROVE IInv'
    OBVIOUS
  <2>1. TypeInv /\ WellPlanned(plan)
    BY PlansAre DEF IInv
  <2>2. ASSUME NEW r \in Requests, Start(r) PROVE IInv'
    <3>1. TypeInv'
      BY <2>1, <2>2 DEF Start, TypeInv, Requests
    <3>2. ~ disturbed' => ~ disturbed
      BY <2>2 DEF Start
    <3> QED BY <2>1, <2>2, <3>1, <3>2, Starts DEF IInv
  <2>3. ASSUME NEW r \in Requests, Send(r) PROVE IInv'
    <3>1. CASE ~ disturbed
      BY <2>1, <2>3, <3>1, SendIs, Sends DEF IInv, Undisturbed
    <3>2. CASE disturbed
      <4>1. disturbed' /\ plan' = plan /\ pc' = pc /\ at' = [at EXCEPT ![r] = @ + 1]
        BY <2>3, <3>2 DEF Send
      <4>2. graph' = [nodes |-> graph'.nodes, edges |-> graph'.edges]
        BY <2>1, <2>3 DEF Send, Run, MergeTables, MergeNodes, MatchMergeEdges, Applied, DetachDelete
      <4> QED BY <2>1, <4>1, <4>2 DEF IInv, TypeInv, Requests
    <3> QED BY <3>1, <3>2
  <2>4. ASSUME NEW r \in Requests, Fail(r) PROVE IInv'
    <3>1. disturbed' /\ UNCHANGED <<graph, plan>>
      BY <2>4 DEF Fail
    <3>2. TypeInv'
      BY <2>1, <2>4 DEF Fail, TypeInv, Requests
    <3> QED BY <3>1, <3>2 DEF IInv
  <2>5. ASSUME NEW r \in Requests, Answer(r) PROVE IInv'
    <3>1. TypeInv' /\ disturbed' = disturbed
      BY <2>1, <2>5 DEF Answer, TypeInv, Requests
    <3> QED BY <2>1, <2>5, <3>1, Answers DEF IInv
  <2>6. CASE UNCHANGED vars
    <3>1. plan' = plan /\ graph' = graph /\ tableId' = tableId /\ at' = at /\ pc' = pc
          /\ disturbed' = disturbed
      BY <2>6 DEF vars
    <3>2. TypeInv'
      BY <2>1, <3>1 DEF TypeInv, Requests
    <3>3. ASSUME ~ disturbed PROVE Undisturbed'
      <4>1. Undisturbed
        BY <3>3 DEF IInv
      <4>2. Progress' /\ Alone'
        BY <3>1, <4>1 DEF Undisturbed, Progress, Alone, SameFile, Requests
      <4>3. \A p \in Requests : Latest(p)' => Latest(p)
        BY <3>1 DEF Latest, SameFile, Requests
      <4> QED BY <2>1, <3>1, <4>1, <4>2, <4>3, PcMoves
    <3> QED BY <3>1, <3>2, <3>3 DEF IInv
  <2> QED BY <2>2, <2>3, <2>4, <2>5, <2>6 DEF Next
<1> QED BY <1>1, <1>2, PTL DEF Spec

-----------------------------------------------------------------------------
\* Until a statement fails or two requests of a file overlap, a delete of one file's
\* request takes no node that a request for another file has (DELETE_WORKBOOK_SUBGRAPH
\* spares the columns of tables; a script's DataFrames are its own), for any files and
\* any order of the statements of different files.
THEOREM SharedKept == Spec => OthersKept
<1>1. ASSUME IInv, [Next]_vars, ~ disturbed, NEW r \in Requests, at[r] # at'[r],
             NEW q \in Requests \ SameFile(r)
      PROVE  plan[q].nodes \cap (graph.nodes \ graph'.nodes) = {}
  <2>1. TypeInv /\ WellPlanned(plan) /\ Undisturbed
    BY <1>1, PlansAre DEF IInv
  <2>2. ASSUME NEW o \in Requests, Send(o) PROVE o = r /\ Sending(r, plan[r].steps[at[r]])
    <3>1. at' = [at EXCEPT ![o] = @ + 1]
      BY <2>2 DEF Send
    <3>2. o = r
      BY <1>1, <2>1, <3>1 DEF TypeInv
    <3> QED BY <2>1, <2>2, <3>2, SendIs DEF Undisturbed
  <2>3. CASE \E o \in Requests : Send(o)
    <3>1. Sending(r, plan[r].steps[at[r]])
      BY <2>2, <2>3
    <3>2. plan[q].nodes \cap Gone(plan[r].steps[at[r]]) = {}
      BY <1>1, <2>1, <3>1, Steady
    <3>3. ShapedStep(plan[r].steps[at[r]]) /\ Run(plan[r].steps[at[r]])
      BY <2>1, <3>1, StepsOf DEF Sending, Requests
    <3> QED BY <2>1, <3>2, <3>3, Effect
  <2>4. CASE ~ \E o \in Requests : Send(o)
    <3>1. graph' = graph
      BY <1>1, <2>4 DEF Next, Start, Fail, Answer, vars
    <3> QED BY <3>1
  <2> QED BY <2>3, <2>4
<1>2. IInv /\ [Next]_vars =>
        [~ disturbed =>
           \A r \in Requests : at[r] # at'[r] =>
             \A q \in Requests \ SameFile(r) :
               pc[q] # "idle" => plan[q].nodes \cap (graph.nodes \ graph'.nodes) = {}]_vars
  BY <1>1
<1> QED BY <1>2, Inductive, PTL DEF Spec, OthersKept

\* A settled request is the latest of its file, and has sent all its statements.
LEMMA SettledIs ==
  ASSUME IInv, ~ disturbed, NEW r \in Requests, Settled(r)
  PROVE  Latest(r) /\ \A i \in DOMAIN plan[r].steps : i < at[r]
<1>1. Undisturbed /\ WellPlanned(plan)
  BY PlansAre DEF IInv
<1>2. at[r] \in Nat /\ at[r] > Len(plan[r].steps)
  BY <1>1 DEF Undisturbed, Progress, Settled
<1> QED BY <1>1, <1>2, StepsOf DEF Settled, Latest, Requests

\* What a parse that is answered means to write is in the graph (the edges of _merge_edge,
\* and Spark's, matched by the table's id), whoever writes meanwhile, when the parsers
\* compute the same ids: no row has been skipped for an end that is missing.
THEOREM MeantIsThere == Spec => []LineageLands
<1>1. IInv => LineageLands
  <2> SUFFICES ASSUME IInv, IdsAgree, ~ disturbed, NEW r \in Requests, Settled(r)
               PROVE  plan[r].nodes \subseteq graph.nodes /\ plan[r].edges \subseteq graph.edges
    BY DEF LineageLands
  <2>1. Undisturbed /\ WellPlanned(plan) /\ Latest(r) /\ \A i \in DOMAIN plan[r].steps : i < at[r]
    BY PlansAre, SettledIs DEF IInv
  <2>2. plan[r].nodes \subseteq graph.nodes
    BY <2>1, StepsOf DEF Undisturbed, NodesLanded, Requests
  <2>3. plan[r].edges \subseteq graph.edges
    BY <2>1, StepsOf DEF Undisturbed, EdgesLanded, Requests
  <2> QED BY <2>2, <2>3
<1> QED BY <1>1, Inductive, PTL

\* After an answered parse that replaces (_purge_prior_script_dataframes, and a workbook's
\* overwrite) its file contains what it wrote and nothing of an earlier parse.
THEOREM ContentReplaced == Spec => []NothingStale
<1>1. IInv => NothingStale
  <2> SUFFICES ASSUME IInv, ~ disturbed, NEW r \in Requests, Settled(r),
                      NEW pair \in plan[r].owns, NEW root \in plan[r].roots
               PROVE  Content(graph.edges, root, pair) = Content(plan[r].edges, root, pair)
    BY DEF NothingStale
  <2>1. Undisturbed /\ WellPlanned(plan) /\ Latest(r) /\ \A i \in DOMAIN plan[r].steps : i < at[r]
    BY PlansAre, SettledIs DEF IInv
  <2>2. Cleared(r, root, pair)
    BY <2>1 DEF WellPlanned, Replaces, Requests, Cleared, Clears
  <2>3. ASSUME NEW x \in Rows(plan), x.type \in {pair[1], pair[2]} PROVE Plain(x) /\ MeantEdge(x) = x
    <3>1. Plain(x)
      BY <2>1, <2>3 DEF WellPlanned, PlainPaths, Requests
    <3>2. x = Edge(x.from, x.type, x.to)
      BY <2>1, RowsAre
    <3> QED BY <3>1, <3>2 DEF MeantEdge, Meant, Plain, PlainEnd
  <2>4. ASSUME NEW e \in graph.edges, Owned(plan, root, pair, e) PROVE e \in plan[r].edges
    <3>1. e \in RowsOf(plan[r])
      BY <2>1, <2>2, <2>4 DEF Undisturbed, NoneStale
    <3>2. PICK i \in DOMAIN plan[r].steps : e \in EdgesAt(plan[r].steps[i])
      BY <2>1, <3>1, StepsOf DEF Requests
    <3>3. Ends(e) \subseteq plan[r].nodes
      BY <2>1, <2>4, <3>2 DEF WellPlanned, Replaces, Requests
    <3>4. e \in Rows(plan) /\ e.type \in {pair[1], pair[2]}
      BY <2>1, <2>4, <3>2, RowsAre DEF Owned, Hung, Requests
    <3> QED BY <2>1, <2>3, <3>2, <3>3, <3>4, StepsOf DEF Requests
  <2>5. ASSUME NEW e \in plan[r].edges, e.type \in {pair[1], pair[2]}
        PROVE  e \in graph.edges /\ e \in Rows(plan)
    <3>1. PICK i \in DOMAIN plan[r].steps : \E x \in EdgesAt(plan[r].steps[i]) :
            e = MeantEdge(x) /\ Ends(x) \subseteq plan[r].nodes
      BY <2>1, StepsOf DEF Requests
    <3>2. PICK x \in EdgesAt(plan[r].steps[i]) : e = MeantEdge(x) /\ Ends(x) \subseteq plan[r].nodes
      BY <3>1
    <3>3. x \in Rows(plan) /\ x.type = e.type
      BY <2>1, <3>2, RowsAre DEF Requests, MeantEdge, Edge
    <3>4. Plain(x) /\ e = x
      BY <2>3, <2>5, <3>2, <3>3
    <3> QED BY <2>1, <3>2, <3>3, <3>4 DEF Undisturbed, EdgesLanded
  <2>6. ASSUME NEW e \in graph.edges, e.type \in {pair[1], pair[2]} PROVE e \in Rows(plan)
    BY <2>1, <2>6, OwnedIsRow DEF Undisturbed
  <2> DEFINE First(E) == Hop([nodes |-> {}, edges |-> E], {pair[1]}, {root})
             Second(E) == Hop([nodes |-> {}, edges |-> E], {pair[2]}, First(E))
  <2>7. \A E : /\ \A n : n \in First(E) <=> \E e \in E : e.from = root /\ e.type = pair[1] /\ e.to = n
              /\ \A n : n \in Second(E)
                     <=> \E e \in E : e.from \in First(E) /\ e.type = pair[2] /\ e.to = n
    BY DEF Hop
  <2>8. \A E : Content(E, root, pair) = First(E) \cup Second(E)
    BY DEF Content, Hop
  <2> HIDE DEF First, Second
  <2>9. \A n : n \in First(graph.edges) <=> n \in First(plan[r].edges)
    BY <2>4, <2>5, <2>7 DEF Owned
  <2>10. \A n \in First(graph.edges) : n \in Children(plan, root, pair)
    BY <2>6, <2>7 DEF Children
  <2>11. \A n : n \in Second(graph.edges) <=> n \in Second(plan[r].edges)
    BY <2>4, <2>5, <2>7, <2>9, <2>10 DEF Owned, Hung
  <2> QED BY <2>8, <2>9, <2>11
<1> QED BY <1>1, Inductive, PTL
=============================================================================
