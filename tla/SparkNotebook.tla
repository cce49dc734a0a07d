---------------------------- MODULE SparkNotebook ----------------------------
(***************************************************************************)
(* The files the Spark parser takes one by one (main.py, parse_input) and  *)
(* the cells of its notebooks (input/notebook.py).                         *)
(*                                                                         *)
(* A file is [ext, header, body, text, cells]: body of a Python script,    *)
(* text of a .sql file, cells of a notebook; header says that it starts    *)
(* like a Databricks notebook.  A cell is                                  *)
(*   [code, lang, magic, lines, text, count]                               *)
(* code false for markdown; magic the %% magic of its first line or, in a  *)
(* Databricks file, its # MAGIC directive, "" if none; text the SQL of a   *)
(* cell in SQL; count the execution count, 0 if none.  A line is           *)
(* [k, st, target]: k python for the statement st, run for %run target,    *)
(* magic for another % or ! line.                                          *)
(***************************************************************************)
EXTENDS SparkProject

Py(st) == [k |-> "python", st |-> st, target |-> ""]
RunLine(target) == [k |-> "run", st |-> Do(Opaque), target |-> target]
MagicLine == [k |-> "magic", st |-> Do(Opaque), target |-> ""]
Cell(lang, magic, lines, text, count) ==
  [code |-> TRUE, lang |-> lang, magic |-> magic, lines |-> lines, text |-> text, count |-> count]

\* detect_format.
DetectFormat(file) ==
  CASE file.ext = ".sql" -> "sparksql"
    [] file.ext = ".ipynb" -> "notebook_jupyter"
    [] file.ext = ".dbc" -> "notebook_databricks_archive"
    [] file.ext = ".scala" -> "scala"
    [] file.ext = ".py" -> (IF file.header THEN "notebook_databricks" ELSE "pyspark")
    [] OTHER -> "unknown"

-----------------------------------------------------------------------------
\* _strip_jupyter_magics: the lines that are Python.
Strip(lines) == SelectSeq(lines, LAMBDA l : l.k = "python")

\* _cells_from_ipynb_dict: [lang, lines, text, index, count] of every cell kept.
NonPython == {"bash", "sh", "javascript", "js", "html", "latex", "perl", "ruby",
              "writefile", "file", "markdown", "md", "svg"}
Kept(c, i, lang, lines) ==
  <<[lang |-> lang, lines |-> lines, text |-> c.text, index |-> i, count |-> c.count]>>
PythonCell(c, i, count) ==
  IF Strip(c.lines) = <<>> THEN <<>> ELSE Kept([c EXCEPT !.count = count], i, "python", Strip(c.lines))
JupyterCell(c, i) ==
  IF ~ c.code THEN <<>>
  ELSE IF c.lang # "python" THEN Kept(c, i, c.lang, c.lines)
  ELSE IF c.magic = "sql" THEN Kept(c, i, "sql", <<>>)
  ELSE IF c.magic \in NonPython THEN <<>>
  ELSE PythonCell(c, i, c.count)

\* _extract_from_databricks_py: a directive gives the cell's language and stays in its
\* text, as a line that is not Python or in front of its SQL.
DatabricksCell(c, i) ==
  IF c.magic \in {"md", "markdown"} THEN <<>>
  ELSE IF c.magic = "" THEN PythonCell(c, i, 0)
  ELSE Kept([c EXCEPT !.count = 0, !.text = IF @ = <<>> THEN @ ELSE <<"%sql ">> \o @], i, c.magic,
            IF c.magic = "run" THEN c.lines ELSE <<MagicLine>> \o c.lines)

ExtractCells(file) ==
  FlattenSeq([i \in DOMAIN file.cells |->
    IF DetectFormat(file) = "notebook_databricks" THEN DatabricksCell(file.cells[i], i)
    ELSE JupyterCell(file.cells[i], i)])

\* What parse_pyspark is given of a notebook: the Python of its cells as one script.
PythonLines(cells) ==
  FlattenSeq([j \in DOMAIN cells |-> IF cells[j].lang = "python" THEN cells[j].lines ELSE <<>>])
PythonOf(cells) ==
  LET lines == PythonLines(cells)
  IN IF Strip(lines) # lines THEN Broken ELSE Module([j \in DOMAIN lines |-> lines[j].st])

-----------------------------------------------------------------------------
\* _check_out_of_order_execution.
Counts(cells) ==
  SelectSeq([j \in DOMAIN cells |-> cells[j].count], LAMBDA n : n # 0)
OutOfOrder(cells) == \E j \in 2..Len(Counts(cells)) : Counts(cells)[j] < Counts(cells)[j - 1]
\* (bug: it warns and leaves the frames as they are)
CheckOrderWarns(v, cells) == IF OutOfOrder(cells) THEN Warn(v, "hidden_state") ELSE v
CheckOrder(v, cells) ==
  IF ~ OutOfOrder(cells) THEN v
  ELSE Warn(FoldLeft(LAMBDA u, i : [u EXCEPT !.heap[i].partial = TRUE], v, v.ir), "hidden_state")

\* _record_notebook_run_edges: in each cell the %run lines, then the calls of
\* dbutils.notebook.run with a literal.
IsRunCall(x) ==
  /\ x.k = "chain" /\ x.root = Nm("dbutils") /\ Len(x.steps) = 2
  /\ x.steps[1].m = "notebook" /\ x.steps[2].m = "run" /\ ConstArg(x.steps[2].args, 1) # ""
RunEdge(c, kind, target) == [cell |-> c.index, kind |-> kind, target |-> target]
RunsOf(c) ==
  LET magic == SelectSeq(c.lines, LAMBDA l : l.k = "run")
      calls == SelectSeq(Expressions([j \in DOMAIN c.lines |-> c.lines[j].st]), IsRunCall)
  IN [j \in DOMAIN magic |-> RunEdge(c, "magic_run", magic[j].target)]
     \o [j \in DOMAIN calls |->
           RunEdge(c, "dbutils_notebook_run", ConstArg(calls[j].steps[2].args, 1))]
NotebookRuns(cells) == FlattenSeq([j \in DOMAIN cells |-> RunsOf(cells[j])])

\* The synthetic frame of a SQL text, for a cell and for a .sql file: it is an anchor, and
\* its tables keep their names and get no connection.
SqlTable(name) == TableIR(<<name>>, <<>>, <<"hive">>)
AddSqlFrame(v, name, text) ==
  LET lineage == SqlLineage(text)
      w == NewFrame(v, name)
      df == [w.heap[Newest(w)] EXCEPT
               !.sql = TRUE, !.anchor = TRUE, !.derivations = lineage.derivations,
               !.reads = {SqlTable(t) : t \in lineage.sources},
               !.writes = SetToSeq({[to |-> SqlTable(t), mode |-> <<"overwrite">>,
                                     via |-> "sparksql", cols |-> <<>>] : t \in lineage.targets})]
  IN List([w EXCEPT !.heap[Newest(w)] = df], Newest(w))

\* The end of _parse_notebook, after the visitor.
CompleteNotebook(v, cells) ==
  FoldLeft(LAMBDA u, c : AddSqlFrame(u, "__sql_cell_" \o ToString(c.index), c.text),
           CheckOrder(v, cells), SelectSeq(cells, LAMBDA c : c.lang = "sql"))

\* parse_input, the files the visitor never sees.
ParseOther(file) ==
  LET v == NewVisitor(NoFun)
  IN CASE DetectFormat(file) = "sparksql" -> AddSqlFrame(v, "__sql__", file.text)
       [] DetectFormat(file) = "scala" -> Warn(v, "scala_out_of_scope")
       [] OTHER -> Warn(v, "unsupported_format")

\* _stats.
Stats(v) ==
  LET frames == {v.heap[i] : i \in ToSet(v.ir)}
      label(t) == First(t.fqn, t.loc)
      sum(f(_)) == FoldLeft(LAMBDA n, i : n + f(v.heap[i]), 0, v.ir)
  IN [dataframes |-> sum(LAMBDA df : IF df.anchor THEN 1 ELSE 0),
      granular |-> Len(v.ir),
      sources |-> Cardinality({label(t) : t \in UNION {df.reads : df \in frames}} \ {<<>>}),
      targets |-> Cardinality(UNION {{label(w.to) : w \in ToSet(df.writes)} : df \in frames}
                                \ {<<>>}),
      attributes |-> sum(LAMBDA df : IF df.anchor THEN Len(df.fields) ELSE 0),
      joins |-> sum(LAMBDA df : Len(df.joins)),
      udfs |-> Cardinality(v.udfs),
      sqlBlocks |-> sum(LAMBDA df : IF df.sql THEN 1 ELSE 0)]
=============================================================================
