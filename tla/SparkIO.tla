------------------------------- MODULE SparkIO -------------------------------
(***************************************************************************)
(* Where the Spark visitor sees data come in and go out: read chains,      *)
(* readers and writers kept in variables, tables, SQL and sinks.           *)
(*                                                                         *)
(* A chain of options says [format, options, location, table, source]; it  *)
(* is also what a reader kept in a variable remembers (_reader_state).     *)
(***************************************************************************)
EXTENDS SparkSql

ReadFormats == {"parquet", "delta", "json", "csv", "orc", "avro", "text", "jdbc"}
RddReads == {"textFile", "wholeTextFiles", "binaryFiles", "sequenceFile"}
TerminalReads == {"load", "table", "jdbc"} \cup ReadFormats \cup RddReads
TerminalWrites == {"saveAsTable", "insertInto", "save", "start", "parquet", "csv", "json",
                   "orc", "text", "jdbc"}
RddFormat(m) == IF m \in {"textFile", "wholeTextFiles"} THEN <<"text">> ELSE <<"binary">>

AddRead(v, i, table) == [v EXCEPT !.heap[i].reads = @ \cup {table}]
WarnPartial(v, i, type) == Warn([v EXCEPT !.heap[i].partial = TRUE], type)

-----------------------------------------------------------------------------
\* The loop of _build_df_from_read, one call of the chain at a time.  jdbc is one of
\* _SPARK_READ_FORMATS, so the branch for its three arguments is never reached: the URL
\* is the location, and the table and the properties are not looked at.
ReadConfig ==
  [on |-> TRUE, format |-> <<>>, options |-> NoFun, location |-> <<>>, table |-> <<>>,
   source |-> NoSource]
Located(v, c, st) ==
  [c EXCEPT !.location = First(StrArg(v, st.args, 1), @),
            !.source = FirstSource(@, Unresolved(v, st.args, 1))]
WithOptions(v, c, st, splats) ==
  [c EXCEPT !.options = OptionDict(v, st) @@ OptionKeywords(v, st, splats)
                          @@ OptionPair(v, st) @@ @]
ReadStep(v, c, st) ==
  CASE st.m = "format" -> [c EXCEPT !.format = First(StrArg(v, st.args, 1), @)]
    [] st.m \in ReadFormats -> Located(v, [c EXCEPT !.format = First(@, <<st.m>>)], st)
    [] st.m = "load" -> Located(v, c, st)
    [] st.m = "table" -> [c EXCEPT !.table = First(StrArg(v, st.args, 1), @)]
    [] st.m \in {"option", "options"} ->
         [WithOptions(v, c, st, TRUE) EXCEPT
            !.source = IF st.m = "option" /\ StrArg(v, st.args, 1) # <<>>
                       THEN FirstSource(@, Unresolved(v, st.args, 2)) ELSE @]
    [] OTHER -> c

\* The tables of a finished read.
ReadTable(c) ==
  LET m == MatchConnector(c.format, c.options, c.location, c.table)
      url == First(Get(c.options, "url"), c.location)
      table == CASE m.ok -> m.table
                 [] ~ m.ok /\ c.table # <<>> -> TableIR(Qualify(c.table), <<>>, <<"hive">>)
                 [] ~ m.ok /\ c.table = <<>> /\ c.format = <<"jdbc">> ->
                      TableIR(First(DbTable(c.options), url), url, <<"jdbc">>)
                 [] OTHER -> IF c.location = <<>> THEN TableIR(<<>>, <<>>, c.format)
                             ELSE TableIR(c.location, c.location, First(c.format, <<"parquet">>))
  IN [table EXCEPT !.conn = DeriveConnection(c.format, c.options, First(table.loc, c.location),
                                             c.table, c.source)]

\* _build_df_from_read: without a terminal method the chain is a reader, kept for later.
BuildRead(v, steps, name) ==
  LET w == NewFrame(v, name)
      c == FoldLeft(LAMBDA acc, st : ReadStep(v, acc, st), ReadConfig, Calls(steps))
  IN Ok(IF CallsOf(steps, TerminalReads) = <<>>
        THEN [w EXCEPT !.heap[Newest(w)].reader = c]
        ELSE AddRead(w, Newest(w), ReadTable(c)), Newest(w))

\* _absorb_reader_method.
AbsorbReader(v, i, st) ==
  IF ~ v.heap[i].reader.on THEN v
  ELSE IF st.m \in {"option", "options"}
  THEN [v EXCEPT !.heap[i].reader = WithOptions(v, @, st, st.m = "options")]
  ELSE IF st.m = "format" THEN [v EXCEPT !.heap[i].reader = ReadStep(v, @, st)] ELSE v

\* _finalize_reader_chain.
FinalStep(v, c, st) ==
  IF st.m \in RddReads
  THEN [c EXCEPT !.format = RddFormat(st.m), !.location = First(StrArg(v, st.args, 1), @)]
  ELSE ReadStep(v, c, st)
FinalizeReader(v, i, st, name) ==
  LET c == FinalStep(v, IF v.heap[i].reader.on THEN v.heap[i].reader ELSE ReadConfig, st)
      w == NewFrame(v, name)
  IN Ok(AddRead(w, Newest(w), ReadTable(c)), Newest(w))

-----------------------------------------------------------------------------
\* _build_df_from_rdd_read.
BuildRdd(v, st, name) ==
  LET w == NewFrame(v, name)
      path == StrArg(v, st.args, 1)
      table == TableIR(path, path, RddFormat(st.m))
  IN Ok(AddRead(w, Newest(w), [table EXCEPT !.conn =
          DeriveConnection(RddFormat(st.m), NoFun, path, <<>>, Unresolved(v, st.args, 1))]),
        Newest(w))

\* A table of the catalogue.
HiveTable(name) == [TableIR(Qualify(name), <<>>, <<"hive">>) EXCEPT !.conn = Metastore]

\* _build_df_from_table_call.
BuildTable(v, st, name) ==
  LET w == NewFrame(v, name)
      arg == StrArg(v, st.args, 1)
  IN Ok(IF arg = <<>> THEN WarnPartial(w, Newest(w), "dynamic_table_name")
        ELSE AddRead(w, Newest(w), HiveTable(arg)), Newest(w))

\* _build_df_from_create_dataframe.
BuildData(v, st, name) ==
  LET w == NewFrame(v, name)
      named == SelectSeq(st.kws, LAMBDA kw : kw.key = "schema")
      schema == IF named # <<>> THEN named[1].val
                ELSE IF Len(st.args) >= 2 THEN st.args[2] ELSE Opaque
      columns == StringsOf(ListValue(v, schema).items)
  IN Ok([w EXCEPT !.heap[Newest(w)].fields = [j \in DOMAIN columns |-> columns[j][1]]],
        Newest(w))

\* _build_df_from_spark_sql: a temporary view stands for what its frame reads.
SqlReads(v, sources) ==
  UNION {IF s \in DOMAIN v.views THEN v.heap[v.views[s]].reads ELSE {HiveTable(<<s>>)}
           : s \in sources}
BuildSql(v, st, name) ==
  LET w == NewFrame(v, name)
      i == Newest(w)
      text == StrArg(v, st.args, 1)
      lineage == SqlLineage(text)
      u == [w EXCEPT !.heap[i].sql = TRUE]
  IN Ok(IF text = <<>> THEN WarnPartial(u, i, "dynamic_sql")
        ELSE [u EXCEPT
          !.heap[i].reads = SqlReads(v, lineage.sources),
          !.heap[i].derivations = lineage.derivations,
          !.heap[i].writes = SetToSeq({[to |-> HiveTable(<<t>>), mode |-> <<"overwrite">>,
                                        via |-> "sparksql", cols |-> <<>>]
                                         : t \in lineage.targets})], i)

-----------------------------------------------------------------------------
\* _absorb_writer_method, for a writer kept in a variable.
AbsorbWriter(v, i, st) ==
  LET arg == StrArg(v, st.args, 1)
      s == v.heap[i].writer
      put(t) == [v EXCEPT !.heap[i].writer = t]
  IN IF ~ s.on THEN v
     ELSE CASE st.m = "format" -> put([s EXCEPT !.format = First(arg, @)])
            [] st.m = "mode" -> put([s EXCEPT !.mode = First(arg, @)])
            [] st.m = "outputMode" -> put([s EXCEPT !.mode = First(arg, @),
                                                    !.streaming = @ \/ arg # <<>>])
            [] st.m = "queryName" /\ arg # <<>> ->
                 put([s EXCEPT !.options = ("queryName" :> arg) @@ @])
            [] st.m = "trigger" -> put([s EXCEPT !.streaming = TRUE])
            [] st.m \in {"option", "options"} -> put(WithOptions(v, s, st, st.m = "options"))
            [] st.m = "partitionBy" -> put([s EXCEPT !.cols = @ \o PartitionColumns(v, st)])
            [] st.m = "foreachBatch" ->
                 put([s EXCEPT !.streaming = TRUE,
                               !.callback = IF st.args # <<>> /\ st.args[1].k = "name"
                                            THEN st.args[1].n ELSE @])
            [] OTHER -> v

\* _apply_write, the part before the target: what the stash and the calls of this chain
\* up to its first terminal method say.
WriteStep(v, c, st) ==
  CASE st.m = "format" -> [c EXCEPT !.format = First(StrArg(v, st.args, 1), @)]
    [] st.m = "mode" -> [c EXCEPT !.mode = First(StrArg(v, st.args, 1), @)]
    [] st.m = "option" -> WithOptions(v, c, st, TRUE)
    [] st.m = "options" -> [c EXCEPT !.options = OptionDict(v, st) @@ @]
    [] st.m = "partitionBy" -> [c EXCEPT !.cols = @ \o PartitionColumns(v, st)]
    [] OTHER -> c
BeforeSink(steps) ==
  LET ends == {j \in DOMAIN steps : steps[j].m \in TerminalWrites}
  IN IF ends = {} THEN steps ELSE SubSeq(steps, 1, (CHOOSE j \in ends : \A e \in ends : j <= e) - 1)
JdbcKeywords(v, c, st) ==
  FoldLeft(LAMBDA acc, kw :
    IF kw.key = "properties" THEN [acc EXCEPT !.options = Expand(v, kw.val) @@ @]
    ELSE IF kw.key = "mode" THEN [acc EXCEPT !.mode = First(Str(v, kw.val), @)] ELSE acc,
    c, st.kws)
WriteConfig(v, i, steps, st) ==
  LET s == IF v.heap[i].writer.on THEN v.heap[i].writer ELSE WriterStash(FALSE)
      c == FoldLeft(LAMBDA acc, x : WriteStep(v, acc, x),
                    [s EXCEPT !.mode = First(@, <<"overwrite">>)], BeforeSink(Calls(steps)))
      d == [c EXCEPT !.streaming = @ \/ st.m = "start",
                     !.format = IF st.m \in {"parquet", "csv", "json", "orc", "text", "jdbc"}
                                THEN First(@, <<st.m>>) ELSE @]
  IN IF st.m = "jdbc" /\ st.args # <<>>
     THEN JdbcKeywords(v, [d EXCEPT !.options = JdbcArguments(v, st) @@ @], st) ELSE d

\* The target an option names when no connector matched and no argument does.
OptionTarget(fmt, o) ==
  CASE Is(fmt, {"jdbc"} \cup Redshift) ->
         TableIR(First(DbTable(o), Get(o, "url")), Get(o, "url"), fmt)
    [] Is(fmt, Cassandra) -> TableIR(Dots(<<Get(o, "keyspace"), Get(o, "table")>>), <<>>, fmt)
    [] Is(fmt, Mongo) ->
         TableIR(Get(o, "collection"), FirstOf(o, <<"uri", "spark.mongodb.output.uri">>), fmt)
    [] Is(fmt, Elastic) -> TableIR(FirstOf(o, <<"es.resource", "resource">>), <<>>, fmt)
    [] OTHER -> TableIR(<<>>, <<>>, fmt)

\* The sink of a write, [ok, table].
Sink(v, c, st) ==
  LET target == StrArg(v, st.args, 1)
      m == MatchConnector(c.format, c.options, target, target)
      o == OptionTarget(c.format, c.options)
  IN IF m.ok THEN m
     ELSE IF target = <<>>
     THEN [ok |-> o.fqn # <<>> \/ o.loc # <<>>, table |-> o]
     ELSE [ok |-> TRUE,
           table |-> IF st.m \in {"saveAsTable", "insertInto"}
                     THEN TableIR(Qualify(target), <<>>, First(c.format, <<"hive">>))
                     ELSE TableIR(<<>>, target, c.format)]

AddWrite(v, i, table, c, via) ==
  [v EXCEPT !.heap[i].writes =
     Append(@, [to |-> table, mode |-> c.mode, via |-> via, cols |-> c.cols])]

\* The end of _apply_write.  A target that is not known but comes from a known place
\* gets an unresolved connection; any other one gets a warning only.
\* (bug: nothing is said of a target that is not known)
ApplyWriteSilent(v, i, c, st) ==
  IF Sink(v, c, st).ok THEN AddWrite(v, i, Sink(v, c, st).table, c, st.m) ELSE v
ApplyWrite(v, i, c, st) ==
  LET target == StrArg(v, st.args, 1)
      source == Unresolved(v, st.args, 1)
      sink == Sink(v, c, st)
      inCatalogue == st.m \in {"saveAsTable", "insertInto"}
      to(table) == [table EXCEPT !.conn =
        DeriveConnection(c.format, c.options, First(table.loc, target),
                         IF inCatalogue THEN target ELSE <<>>, source)]
  IN IF sink.ok
     THEN AddWrite(v, i, to(sink.table), c, IF c.streaming THEN "writeStream:" \o st.m ELSE st.m)
     ELSE IF source.src # ""
     THEN WarnPartial(AddWrite(v, i, to(TableIR(<<>>, <<>>, c.format)), c, st.m), i,
                      "dynamic_table_name")
     ELSE IF st.m = "start" /\ c.callback # "" THEN v
     ELSE WarnPartial(v, i, "dynamic_table_name")
=============================================================================
