------------------------------ MODULE QlikGraph ------------------------------
(***************************************************************************)
(* The plan of the QlikView parser's writer, write_app.  Every s.run       *)
(* commits on its own; overwrite is accepted and never read.               *)
(*                                                                         *)
(* An app is [dir, base, binary, connections, loads, joins, platforms,     *)
(* sources, datasets, others, lineage]: its file's directory and base      *)
(* name; the base name of the app it loads as BINARY, or ""; the names of  *)
(* its connections; its loads [name, sql], sql a sequence of at most one   *)
(* table; pairs of table names it joins; the kinds of its platforms, each  *)
(* with the data connections on it; pairs of data connection and locator;  *)
(* its datasets [name, fields, keys]; names of charts, tasks, triggers and *)
(* variables by label; and lineage edges between any of these nodes.       *)
(***************************************************************************)
EXTENDS WriterPlans

AppNode(app) == Node("QlikScript", <<"qlik_script", app.dir, app.base>>)
LoadNode(app, k) == Node("QlikTable", <<"qlik_table", app.dir, app.base, app.loads[k].name, k>>)
QlikConnection(c) == Node("Connection", <<"qlik_connection", c>>)

\* The table of a load is merged on its name in upper case; the id hashes the name as
\* it is, however many parts it has.
LoadedTable(t) == TableNode(FALSE, t.parts, TRUE)
LoadedId(t) == TableId(FALSE, t.parts)

\* _write_script and _write_binary_inheritance: the upstream app is any other script
\* of that base name.
AppNodeSteps(app) ==
  <<OneNode(AppNode(app))>>
    \o IF app.binary = "" THEN <<>>
       ELSE <<OneEdge(AppNode(app), "INHERITS_FROM",
                      Match("base", app.binary, Node("QlikScript", <<"unknown">>)))>>

ConnectionSteps(app) ==
  Each(app.connections, LAMBDA c :
    <<OneNode(QlikConnection(c)), OneEdge(AppNode(app), "USES_CONNECTION", QlikConnection(c))>>)

\* _write_loads.
LoadSteps(app, k) ==
  <<OneNode(LoadNode(app, k)), OneEdge(AppNode(app), "CONTAINS_TABLE", LoadNode(app, k))>>
    \o Each(app.loads[k].sql, LAMBDA t :
         <<OneTable(LoadedTable(t), LoadedId(t)), OneEdge(LoadNode(app, k), "LOADS_FROM_TABLE", LoadedTable(t))>>)

\* _write_joins: by name, whatever script a QlikTable of that name is in.
ByName(app, name) ==
  LET k == SelectInSeq(app.loads, LAMBDA l : l.name = name)
  IN Match("name", name, IF k = 0 THEN Node("QlikTable", <<"none">>) ELSE LoadNode(app, k))
JoinSteps(app) ==
  Each(app.joins, LAMBDA j : <<OneEdge(ByName(app, j[1]), "JOINS_WITH", ByName(app, j[2]))>>)

-----------------------------------------------------------------------------
\* The additive layer: ids hash qualified names, edges match their ends by id alone.
Platform(kind) == Node("DataPlatform", <<"platform", kind>>)
DataConnection(c) == Node("DataConnection", <<"conn", c>>)
PhysicalSource(c, locator) == Node("PhysicalSource", <<"source", c, locator>>)
Dataset(app, d) == Node("Dataset", <<"dataset", app.base, d>>)
Field(app, d, f) == Node("Attribute", <<"field", app.base, d, f>>)
KeyOf(app, d, k) == Node("KeyConstraint", <<"constraint", app.base, d, k>>)
Other(app, label, name) == Node(label, <<"other", label, app.base, name>>)

\* _write_v2_platforms, _data_connections, _physical_sources.
SourceSteps(app) ==
  Each(app.platforms, LAMBDA p : <<OneNode(Platform(p.kind))>>)
    \o Each(app.platforms, LAMBDA p : Each(p.conns, LAMBDA c :
         <<OneNode(DataConnection(c)), OneEdge(DataConnection(c), "CONNECTS_VIA", Platform(p.kind))>>))
    \o Each(app.sources, LAMBDA s :
         <<OneNode(PhysicalSource(s[1], s[2]))>>
           \o IF s[1] = "" THEN <<>>
              ELSE <<OneEdge(DataConnection(s[1]), "SOURCED_FROM", PhysicalSource(s[1], s[2]))>>)

\* _write_v2_datasets, _attributes, _key_constraints.
DatasetSteps(app) ==
  Each(app.datasets, LAMBDA d :
    <<OneNode(Dataset(app, d.name)),
      OneEdge(AppNode(app), "CONTAINS_TABLE", Dataset(app, d.name))>>)
  \o Each(app.datasets, LAMBDA d : Each(d.fields, LAMBDA f :
       <<OneNode(Field(app, d.name, f)),
         OneEdge(Dataset(app, d.name), "HAS_ATTRIBUTE", Field(app, d.name, f))>>))
  \o Each(app.datasets, LAMBDA d : Each(d.keys, LAMBDA k :
       <<OneNode(KeyOf(app, d.name, k)),
         OneEdge(Dataset(app, d.name), "HAS_CONSTRAINT", KeyOf(app, d.name, k))>>))

\* _write_v3_ui_objects, _server_meta, _variables: nodes alone; their edges, and every
\* other lineage edge of the app, come last.
OtherSteps(app) == Each(app.others, LAMBDA o : <<OneNode(Other(app, o[1], o[2]))>>)
LineageSteps(app) == Each(app.lineage, LAMBDA e : <<EdgeRows({e})>>)

\* write_app.
AppSteps(app) ==
  AppNodeSteps(app) \o ConnectionSteps(app)
    \o FlattenSeq([k \in DOMAIN app.loads |-> LoadSteps(app, k)]) \o JoinSteps(app)
    \o SourceSteps(app) \o DatasetSteps(app) \o OtherSteps(app) \o LineageSteps(app)

\* The handler swallows what write_app raises; an app is only ever merged.
AppPlan(app) ==
  LET steps == AppSteps(app)
  IN Plan({AppNode(app)}, steps, GiveUp(steps), {})

-----------------------------------------------------------------------------
\* What the parser makes of a file.  A lineage edge is of an allowed type, or the writer
\* raises (_check_rel).
REL_ALLOWLIST ==
  {"USES_CONNECTION", "CONTAINS_TABLE", "LOADS_FROM_TABLE", "JOINS_WITH", "CONNECTS_VIA",
   "SOURCED_FROM", "HAS_ATTRIBUTE", "STORED_AS", "MAPS_TO", "JOINS", "DERIVES_FROM",
   "REFERENCES_FK", "HAS_CONSTRAINT", "FEEDS_OBJECT", "TRIGGERS", "RESOLVES_TO"}
IsLineage(e) == e = Edge(e.from, e.type, e.to) /\ Plain(e) /\ e.type \in REL_ALLOWLIST
IsApp(app) ==
  /\ IsSeq(app.connections) /\ IsSeq(app.loads) /\ IsSeq(app.joins)
  /\ IsSeq(app.platforms) /\ IsSeq(app.sources) /\ IsSeq(app.datasets)
  /\ IsSeq(app.others) /\ IsSeq(app.lineage)
  /\ \A l \in ToSet(app.loads) : IsSeq(l.sql)
  /\ \A p \in ToSet(app.platforms) : IsSeq(p.conns)
  /\ \A d \in ToSet(app.datasets) : IsSeq(d.fields) /\ IsSeq(d.keys)
  /\ \A o \in ToSet(app.others) : o[1] \in {"UiObject", "ServerTask", "Trigger", "Variable"}
  /\ \A e \in ToSet(app.lineage) : IsLineage(e)
=============================================================================
