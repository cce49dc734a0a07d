---------------------------- MODULE TableauGraph ----------------------------
(***************************************************************************)
(* The plan of the Tableau parser's writer, write_workbook: one statement, *)
(* in one transaction, per label and per edge type.                        *)
(*                                                                         *)
(* A workbook is [path, datasources, worksheets, dashboards, parameters,   *)
(* scoped, crosses], a datasource [name, db, schema, conns, tables,        *)
(* fields, derives, filters, derived, levels]: the defaults of its first   *)
(* connection, its tables' parts, its fields [name, calc], pairs of a      *)
(* calculated field and one it names, the filtered fields, its groups,     *)
(* sets and bins [kind, name, from], and pairs of a hierarchy and a field. *)
(* A worksheet is [name, uses, filters, sorts, blends], pairs of datasource*)
(* and field and pairs of datasources; a dashboard [name, shows, zones,    *)
(* actions] with zones [n, param] and actions [kind, from, to, param].     *)
(* All of these are sets: a batch has no order.                            *)
(***************************************************************************)
EXTENDS WriterPlans, FiniteSets

WorkbookNode(w) == Node("TableauWorkbook", <<"workbook", w.path>>)
DatasourceNode(w, d) == Node("TableauDatasource", <<"datasource", w.path, d>>)
Worksheet(w, s) == Node("TableauWorksheet", <<"worksheet", w.path, s>>)
Dashboard(w, d) == Node("TableauDashboard", <<"dashboard", w.path, d>>)
Parameter(w, p) == Node("Parameter", <<"parameter", w.path, p>>)
Scope(w) == Node("TableauParameterScope", <<"scope", w.path>>)
Zone(w, d, z) == Node("DashboardZone", <<"zone", w.path, d, z>>)
Derived(w, d, x) == Node(x.kind, <<x.kind, w.path, d, x.name>>)
Hierarchy(w, d, h) == Node("TableauHierarchy", <<"hierarchy", w.path, d, h>>)
Blend(w, s, b) == Node("WorksheetBlend", <<"blend", w.path, s, b>>)

\* _parse_table_ref: what is missing of a name is the default of the connection; the
\* merge key is that name in upper case.
Qualified(d, parts) ==
  IF Len(parts) = 3 THEN parts
  ELSE IF Len(parts) = 2 THEN <<d.db>> \o parts ELSE <<d.db, d.schema>> \o parts
BookTable(d, parts) == TableNode(FALSE, Qualified(d, parts), TRUE)
BookTableId(d, parts) == TableId(FALSE, Qualified(d, parts))

\* A physical field is the column of the datasource's table when it has exactly one:
\* a node all workbooks share.  Any other field is the datasource's own.
IsColumn(d, f) == ~ f.calc /\ Cardinality(d.tables) = 1
FieldNode(w, d, f) ==
  IF IsColumn(d, f)
  THEN Node("Attribute", <<"column", {BookTable(d, t).id : t \in d.tables}, f.name>>)
  ELSE Node("Attribute", <<"calculated", w.path, d.name, f.name>>)

\* The nodes of the fields a name stands for: none when the datasource has no such one.
FieldOf(w, d, name) == {FieldNode(w, d, f) : f \in {g \in d.fields : g.name = name}}
FieldIn(w, ref) == UNION {FieldOf(w, d, ref[2]) : d \in {e \in w.datasources : e.name = ref[1]}}

-----------------------------------------------------------------------------
\* Sets over the parts of a workbook.
OfDatasources(w, F(_)) == UNION {F(d) : d \in w.datasources}
OfWorksheets(w, F(_)) == UNION {F(s) : s \in w.worksheets}
OfDashboards(w, F(_)) == UNION {F(d) : d \in w.dashboards}

Links(from, type, ends) == {Edge(from, type, n) : n \in ends}
LinkAll(froms, type, ends) == UNION {Links(f, type, ends) : f \in froms}

\* DELETE_WORKBOOK_SUBGRAPH.
BookPaths ==
  {<<>>, <<"CONTAINS_DATASOURCE">>, <<"CONTAINS_WORKSHEET">>, <<"CONTAINS_DASHBOARD">>,
   <<"HAS_PARAMETER">>, <<"HAS_PARAMETER_SCOPE">>, <<"CONTAINS_WORKSHEET", "HAS_BLEND">>,
   <<"CONTAINS_DATASOURCE", "HAS_FIELD">>}
DeleteSteps(w) == <<Subgraph(WorkbookNode(w), BookPaths, {"HAS_COLUMN"})>>

\* _write_nodes.
NodeSteps(w) ==
  <<NodeRows({WorkbookNode(w)}),
    NodeRows(OfDatasources(w, LAMBDA d : {ConnectionNode(c) : c \in d.conns})),
    NodeRows({DatasourceNode(w, d.name) : d \in w.datasources}),
    TableRows(OfDatasources(w, LAMBDA d :
      {[table |-> BookTable(d, t), id |-> BookTableId(d, t)] : t \in d.tables}), "create"),
    NodeRows(OfDatasources(w, LAMBDA d : {FieldNode(w, d, f) : f \in d.fields})),
    NodeRows({Worksheet(w, s.name) : s \in w.worksheets}),
    NodeRows({Dashboard(w, d.name) : d \in w.dashboards}),
    NodeRows({Parameter(w, p) : p \in w.parameters}),
    NodeRows(IF w.scoped THEN {Scope(w)} ELSE {}),
    EdgeRows(IF w.scoped THEN {Edge(WorkbookNode(w), "HAS_PARAMETER_SCOPE", Scope(w))} ELSE {}),
    EdgeRows(IF w.scoped THEN Links(Scope(w), "HAS_PARAMETER", {Parameter(w, p) : p \in w.parameters})
                         ELSE {}),
    NodeRows(OfDashboards(w, LAMBDA d : {Zone(w, d.name, z.n) : z \in d.zones})),
    NodeRows(OfDatasources(w, LAMBDA d : {Derived(w, d.name, x) : x \in d.derived})),
    NodeRows(OfDatasources(w, LAMBDA d : {Hierarchy(w, d.name, l[1]) : l \in d.levels}))>>

\* _write_relationships, in three parts: the datasources, the sheets, and what is
\* derived, crosses datasources or blends them.
DatasourceEdges(w) ==
  LET ds(d) == DatasourceNode(w, d.name) IN
  <<EdgeRows(Links(WorkbookNode(w), "CONTAINS_DATASOURCE", {ds(d) : d \in w.datasources})),
    EdgeRows(OfDatasources(w, LAMBDA d :
      Links(ds(d), "CONNECTS_VIA", {ConnectionNode(c) : c \in d.conns}))),
    EdgeRows(OfDatasources(w, LAMBDA d :
      Links(ds(d), "READS_TABLE", {BookTable(d, t) : t \in d.tables}))),
    EdgeRows(OfDatasources(w, LAMBDA d :
      Links(ds(d), "HAS_FIELD", {FieldNode(w, d, f) : f \in d.fields}))),
    EdgeRows(OfDatasources(w, LAMBDA d :
      LinkAll({BookTable(d, t) : t \in d.tables}, "HAS_COLUMN",
              {FieldNode(w, d, f) : f \in {g \in d.fields : IsColumn(d, g)}}))),
    EdgeRows(OfDatasources(w, LAMBDA d : UNION {
      LinkAll(FieldOf(w, d, p[1]), "DERIVES_FROM", FieldOf(w, d, p[2])) : p \in d.derives})),
    EdgeRows(OfDatasources(w, LAMBDA d : UNION {
      LinkAll(FieldOf(w, d, p[1]), "DERIVES_FROM_REF", FieldOf(w, d, p[2])) : p \in d.derives}))>>

SheetEdges(w) ==
  LET sheets(names) == {Worksheet(w, s.name) : s \in {x \in w.worksheets : x.name \in names}}
      param(p) == {Parameter(w, q) : q \in w.parameters \cap {p}}
      onSheet(type, refs(_)) ==
        EdgeRows(OfWorksheets(w, LAMBDA s : UNION {
          Links(Worksheet(w, s.name), type, FieldIn(w, r)) : r \in refs(s)}))
  IN
  <<EdgeRows(Links(WorkbookNode(w), "CONTAINS_WORKSHEET", {Worksheet(w, s.name) : s \in w.worksheets})),
    EdgeRows(Links(WorkbookNode(w), "CONTAINS_DASHBOARD", {Dashboard(w, d.name) : d \in w.dashboards})),
    onSheet("USES_FIELD", LAMBDA s : s.uses),
    onSheet("FILTERS_BY", LAMBDA s : s.filters),
    EdgeRows(OfDatasources(w, LAMBDA d : UNION {
      Links(DatasourceNode(w, d.name), "FILTERS_BY", FieldOf(w, d, f)) : f \in d.filters})),
    onSheet("SORTS_BY", LAMBDA s : s.sorts),
    EdgeRows(OfDashboards(w, LAMBDA d :
      Links(Dashboard(w, d.name), "DISPLAYS_WORKSHEET", sheets(d.shows)))),
    EdgeRows(Links(WorkbookNode(w), "HAS_PARAMETER", {Parameter(w, p) : p \in w.parameters})),
    EdgeRows(OfDashboards(w, LAMBDA d :
      Links(Dashboard(w, d.name), "HAS_ZONE", {Zone(w, d.name, z.n) : z \in d.zones}))),
    EdgeRows(OfDashboards(w, LAMBDA d : UNION {
      Links(Zone(w, d.name, z.n), "CONTROLS_PARAMETER", param(z.param)) : z \in d.zones})),
    EdgeRows(OfDashboards(w, LAMBDA d : UNION {
      LinkAll(sheets(a.from), "FILTERS_VIA_ACTION", sheets(a.to)) :
        a \in {x \in d.actions : x.kind \in {"filter", "highlight"}}})),
    EdgeRows(OfDashboards(w, LAMBDA d : UNION {
      LinkAll(sheets(a.from), "SETS_PARAMETER", param(a.param)) :
        a \in {x \in d.actions : x.kind = "parameter"}}))>>

HasDerived == [GROUP |-> "HAS_GROUP", SET |-> "HAS_SET", BIN |-> "HAS_BIN"]
DerivedEdges(w) ==
  LET ds(d) == DatasourceNode(w, d.name)
      named(x) == {DatasourceNode(w, d.name) : d \in {e \in w.datasources : e.name = x}}
  IN
  <<EdgeRows(OfDatasources(w, LAMBDA d :
      {Edge(ds(d), HasDerived[x.kind], Derived(w, d.name, x)) : x \in d.derived})),
    EdgeRows(OfDatasources(w, LAMBDA d :
      Links(ds(d), "HAS_HIERARCHY", {Hierarchy(w, d.name, l[1]) : l \in d.levels}))),
    EdgeRows(OfDatasources(w, LAMBDA d : UNION {UNION {
      Links(Derived(w, d.name, x), "DERIVES_FROM", FieldOf(w, d, f)) : f \in x.from}
        : x \in d.derived})),
    EdgeRows(OfDatasources(w, LAMBDA d : UNION {
      Links(Hierarchy(w, d.name, l[1]), "HAS_LEVEL", FieldOf(w, d, l[2])) : l \in d.levels})),
    EdgeRows(UNION {LinkAll(FieldIn(w, c[1]), "DERIVES_FROM_CROSS_DS", FieldIn(w, c[2]))
                      : c \in w.crosses}),
    EdgeRows(UNION {LinkAll(FieldIn(w, c[1]), "DERIVES_FROM_CROSS_DS",
                            {Parameter(w, p) : p \in w.parameters \cap {c[2][2]}})
                      : c \in {x \in w.crosses : x[2][1] = "Parameters"}}),
    NodeRows(OfWorksheets(w, LAMBDA s : {Blend(w, s.name, b) : b \in s.blends})),
    EdgeRows(OfWorksheets(w, LAMBDA s :
      Links(Worksheet(w, s.name), "HAS_BLEND", {Blend(w, s.name, b) : b \in s.blends}))),
    EdgeRows(OfWorksheets(w, LAMBDA s : UNION {
      Links(Blend(w, s.name, b), "BLENDS_WITH", named(b[1]) \cup named(b[2])) : b \in s.blends}))>>

\* write_workbook; a batch without rows is not sent.
WorkbookSteps(w, overwrite) ==
  Sent((IF overwrite THEN DeleteSteps(w) ELSE <<>>)
         \o NodeSteps(w) \o DatasourceEdges(w) \o SheetEdges(w) \o DerivedEdges(w))

\* What the workbook contains is replaced when it is overwritten.
BookOwns == {<<"CONTAINS_DATASOURCE", "HAS_FIELD">>, <<"CONTAINS_WORKSHEET", "USES_FIELD">>,
         <<"CONTAINS_DASHBOARD", "DISPLAYS_WORKSHEET">>}

\* The first statement that fails ends the request.
WorkbookPlan(w, overwrite) ==
  LET steps == WorkbookSteps(w, overwrite)
  IN Plan({WorkbookNode(w)}, steps, GiveUp(steps), IF overwrite THEN BookOwns ELSE {})

\* What the parser makes of a file.
IsWorkbook(w) == \A d \in w.datasources : \A x \in d.derived : x.kind \in DOMAIN HasDerived
=============================================================================
