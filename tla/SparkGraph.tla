------------------------------ MODULE SparkGraph ------------------------------
(***************************************************************************)
(* The plan of the Spark parser's writer.  Every s.run commits on its own. *)
(*                                                                         *)
(* A script is [path, udfs, frames]: frames the sequence of its DataFrames *)
(*   [name, anchor, inputs, reads, fields, writes, derives]                *)
(* where inputs are positions of frames, reads and writes tables, fields   *)
(* column names and derives pairs <<target, source>> of them.  A project   *)
(* is [root, modules, imports], imports pairs of positions of modules.     *)
(***************************************************************************)
EXTENDS WriterPlans

ScriptNode(script) == Node("SparkScript", <<"spark", script.path>>)
FrameNode(script, i) == Node("DataFrame", <<"dataframe", script.path, script.frames[i].name, i>>)
AttributeNode(script, i, column) ==
  Node("Attribute", <<"attribute", script.path, script.frames[i].name, i, column>>)
UdfNode(script, name) == Node("UDF", <<"udf", script.path, name>>)

\* The key a table is merged on is its name as the script spells it.
SpeltTable(t) == TableNode(t.path, t.parts, t.upper)
SpeltId(t) == TableId(t.path, IF t.path THEN t.parts ELSE Padded(t.parts))
ById(t) == TableWithId(SpeltTable(t), SpeltId(t))

\* _merge_table and _merge_connection.
MergeTable(t) ==
  <<OneTable(SpeltTable(t), SpeltId(t))>>
    \o IF t.conn = "" THEN <<>>
       ELSE <<OneNode(ConnectionNode(t.conn)),
              OneEdge(ById(t), "CONNECTS_VIA", ConnectionNode(t.conn))>>

\* _purge_prior_script_dataframes.  That no other DataFrame has the field is not stated:
\* an Attribute of a DataFrame names it in its id.
Purge(script) ==
  <<Subgraph(ScriptNode(script), {<<"CONTAINS_DATAFRAME", "HAS_FIELD">>}, {"HAS_COLUMN"}),
    Subgraph(ScriptNode(script), {<<"CONTAINS_DATAFRAME">>}, {})>>

ReadSteps(frame, t) ==
  MergeTable(t) \o <<OneEdge(frame, "READS_TABLE", ById(t))>>
    \o IF t.conn = "" THEN <<>>
       ELSE <<OneEdge(ConnectionNode(t.conn), "PROVIDES_DATAFRAME", frame)>>

WriteSteps(script, i, t) ==
  MergeTable(t) \o <<OneEdge(FrameNode(script, i), "WRITES_TABLE", ById(t))>>
    \o (IF t.conn = "" THEN <<>>
        ELSE <<OneEdge(FrameNode(script, i), "WRITES_TO_CONNECTION", ConnectionNode(t.conn))>>)
    \o Each(script.frames[i].fields,
            LAMBDA c : <<OneEdge(ById(t), "HAS_COLUMN", AttributeNode(script, i, c))>>)

\* _write_dataframe: nothing for an intermediate.
FrameSteps(script, i) ==
  LET f == script.frames[i]
      node == FrameNode(script, i)
      column(c) == AttributeNode(script, i, c)
  IN IF ~ f.anchor THEN <<>> ELSE
     <<OneNode(node), OneEdge(ScriptNode(script), "CONTAINS_DATAFRAME", node)>>
       \o Each(f.inputs, LAMBDA k :
            <<OneEdge(FrameNode(script, k), "DERIVES_FROM_DATAFRAME", node)>>)
       \o Each(f.reads, LAMBDA t : ReadSteps(node, t))
       \o Each(f.fields, LAMBDA c : <<OneNode(column(c)), OneEdge(node, "HAS_FIELD", column(c))>>)
       \o Each(f.writes, LAMBDA t : WriteSteps(script, i, t))
       \o Each(f.derives, LAMBDA d : <<OneEdge(column(d[1]), "DERIVES_FROM", column(d[2]))>>)

\* write_script.
ScriptSteps(script) ==
  Purge(script) \o <<OneNode(ScriptNode(script))>>
    \o Each(script.udfs, LAMBDA u : <<OneNode(UdfNode(script, u))>>)
    \o FlattenSeq([i \in DOMAIN script.frames |-> FrameSteps(script, i)])

\* What is contained in a script is replaced, and the fields of its DataFrames.
ScriptOwns == {<<"CONTAINS_DATAFRAME", "HAS_FIELD">>}

ScriptPlan(script) ==
  LET steps == ScriptSteps(script)
  IN Plan({ScriptNode(script)}, steps, GiveUp(steps), ScriptOwns)

-----------------------------------------------------------------------------
\* write_project: a failure inside write_script is swallowed there, and the project
\* goes on with the edge to that script and the next module.
ProjectNode(project) == Node("Project", <<"project", project.root>>)
ModuleSteps(project, k) ==
  ScriptSteps(project.modules[k])
    \o <<OneEdge(ProjectNode(project), "CONTAINS_SCRIPT", ScriptNode(project.modules[k]))>>
ImportSteps(project) ==
  Each(project.imports, LAMBDA e :
    <<OneEdge(ScriptNode(project.modules[e[1]]), "IMPORTS", ScriptNode(project.modules[e[2]]))>>)

ProjectPlan(project) ==
  LET N == Len(project.modules)
      ends == [k \in 0..N |->
                 1 + Len(FlattenSeq([i \in 1..k |-> ModuleSteps(project, i)]))]
      steps == <<OneNode(ProjectNode(project))>>
                 \o FlattenSeq([k \in 1..N |-> ModuleSteps(project, k)]) \o ImportSteps(project)
      moduleOf(i) == {k \in 1..N : ends[k - 1] < i /\ i < ends[k]}
  IN Plan({ScriptNode(m) : m \in ToSet(project.modules)}, steps,
          [i \in DOMAIN steps |->
             IF moduleOf(i) = {} THEN Len(steps) + 1 ELSE ends[CHOOSE k \in moduleOf(i) : TRUE]],
          ScriptOwns)

-----------------------------------------------------------------------------
\* What the visitor makes of a script and of a project: a DataFrame comes after those it
\* derives from, and no two modules are one file.
IsFrame(f, i) ==
  /\ IsSeq(f.inputs) /\ ToSet(f.inputs) \subseteq 1..(i - 1)
  /\ IsSeq(f.reads) /\ IsSeq(f.fields) /\ IsSeq(f.writes) /\ IsSeq(f.derives)
IsScript(script) ==
  /\ IsSeq(script.udfs) /\ IsSeq(script.frames)
  /\ \A i \in DOMAIN script.frames : IsFrame(script.frames[i], i)
IsProject(project) ==
  /\ IsSeq(project.modules) /\ IsSeq(project.imports)
  /\ \A k \in DOMAIN project.modules : IsScript(project.modules[k])
  /\ \A k, l \in DOMAIN project.modules :
       project.modules[k].path = project.modules[l].path => k = l
=============================================================================
