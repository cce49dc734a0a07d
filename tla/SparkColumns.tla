----------------------------- MODULE SparkColumns -----------------------------
(***************************************************************************)
(* The methods of a DataFrame that the Spark visitor follows column by     *)
(* column.  Each gives the visitor after it, with the new frame Newest.    *)
(* A column is its name, and no name is a path into a struct.              *)
(***************************************************************************)
EXTENDS SparkIO

Passthrough == {"cache", "persist", "checkpoint", "repartition", "coalesce",
                "dropDuplicates", "distinct", "sort", "orderBy", "limit"}
Unions == {"union", "unionAll", "unionByName"}
Joins == {"join", "crossJoin"}
Callbacks == {"foreach", "foreachPartition", "mapPartitions"}

ConstArgs(args) == {ConstArg(args, j) : j \in DOMAIN args} \ {""}
ColumnRefs(args) ==
  SelectSeq([j \in DOMAIN args |-> ColumnRef(args[j])], LAMBDA c : c # "")

\* The frame that i's method st makes, recorded as one step of its chain.
Follow(v, i, via, copyFields, edit(_), step) ==
  LET w == ChainStep(v, i, via, copyFields)
  IN Record([w EXCEPT !.heap[Newest(w)] = edit(@)], Newest(w), step)
Same(df) == df

\* _apply_runtime_hint.
Hint(h, st) ==
  LET rest == IF st.args # <<>> /\ st.args[1].k = "num" THEN Tail(st.args) ELSE st.args
  IN CASE st.m = "cache" -> [h EXCEPT !.cached = TRUE]
       [] st.m = "persist" ->
            [h EXCEPT !.cached = TRUE, !.level = IF st.args = <<>> THEN "MEMORY_AND_DISK"
                                                 ELSE IF ConstArg(st.args, 1) = "" THEN @
                                                 ELSE ConstArg(st.args, 1)]
       [] st.m = "checkpoint" -> [h EXCEPT !.checkpointed = TRUE]
       [] st.m \in {"repartition", "coalesce"} ->
            [h EXCEPT !.count = @ \/ rest # st.args,
                      !.columns = IF st.m = "repartition" THEN First(ColumnRefs(rest), @) ELSE @]
       [] st.m = "hint" -> [h EXCEPT !.broadcast = @ \/ ConstArg(st.args, 1) = "broadcast"]
       [] OTHER -> h
HintFrame(v, i, st) == [v EXCEPT !.heap[i].hints = Hint(@, st)]

\* The passthrough branch of _derive_from_chain.
Pass(v, i, st) ==
  Follow(v, i, st.m, TRUE, LAMBDA df : [df EXCEPT !.hints = Hint(@, st)],
         Step(st.m, "meta", {}, {}))

\* The filter branch.
Filter(v, i, st) ==
  Follow(v, i, "filter", TRUE, Same,
         Step(st.m, "filter", IF st.args = <<>> THEN {} ELSE ColumnsIn(st.args[1]), {}))

-----------------------------------------------------------------------------
\* _apply_select: one projected expression x of a select of the columns known.
\* acc is [df, seen, shadows].
SelectStar(acc, via, known) ==
  LET add(fields, f) == IF Contains(fields, f) THEN fields ELSE Append(fields, f)
      new == FoldLeft(add, <<>>, SelectSeq(known, LAMBDA f : f \notin acc.seen))
  IN [acc EXCEPT !.df.derivations = @ \cup {Derivation("*", {"*"}, via \o "_star")},
                 !.df.fields = @ \o new,
                 !.seen = @ \cup ToSet(new)]
SelectSql(acc, x) ==
  IF SqlTarget(x) \in acc.seen THEN acc
  ELSE [acc EXCEPT !.df.fields = Append(@, SqlTarget(x)),
                   !.df.derivations = @ \cup {Derivation(SqlTarget(x), SqlSources(x), "selectExpr")},
                   !.seen = @ \cup {SqlTarget(x)}]
SelectColumn(acc, x, known) ==
  LET c == ColumnRef(x)
      between == ToSet(AliasLabels(x)) \ {c}
  IN IF c = "" THEN acc
     ELSE [acc EXCEPT
       !.shadows = @ + (IF c \in acc.seen THEN 1 ELSE 0),
       !.seen = @ \cup {c},
       !.df.fields = Append(@, c),
       !.df.derivations = @ \cup (IF Contains(known, c) THEN {} ELSE {Derivation(c, {c}, "select")})
                            \cup {Derivation(a, {c}, "alias_chain") : a \in between \ acc.seen}]
SelectArg(acc, x, via, known) ==
  IF IsStar(x) THEN SelectStar(acc, via, known)
  ELSE IF via = "selectExpr" /\ x.k = "op" THEN SelectSql(acc, x)
  ELSE SelectColumn(acc, x, known)
Select(v, i, st) ==
  LET known == v.heap[i].fields
      w == ChainStep(v, i, st.m, FALSE)
      n == Newest(w)
      all == FoldLeft(LAMBDA acc, x : SelectArg(acc, x, st.m, known),
                      [df |-> w.heap[n], seen |-> {}, shadows |-> 0], st.args)
      u == [w EXCEPT !.heap[n] = all.df,
                     !.warnings = @ \o [k \in 1..all.shadows |-> "column_shadowing"]]
  IN Record(u, n, Step(st.m, "select", ToSet(known), all.seen))

\* _apply_with_column: a column that is replaced still derives from itself.
WithColumn(v, i, st) ==
  LET c == ConstArg(st.args, 1)
      x == st.args[2]
      from == ColumnsIn(x)
      replaces == Contains(v.heap[i].fields, c)
      w == Follow(v, i, "withColumn", TRUE,
             LAMBDA df : [df EXCEPT
               !.fields = Append(RemoveFirst(@, c), c),
               !.derivations = {Derivation(c, from, ExpressionVia(x))} \cup
                 (IF replaces /\ c \notin from THEN {Derivation(c, {c}, "withColumn_shadow")}
                  ELSE {})],
             Step("withColumn", IF IsCast(x) THEN "cast" ELSE "derive", from, {c}))
  IN IF Len(st.args) < 2 \/ c = ""
     THEN Follow(v, i, "withColumn", TRUE, Same, Step("withColumn", "derive", {}, {}))
     ELSE IF replaces THEN Warn(w, "column_shadowing") ELSE w

\* _apply_with_column_renamed.
Renamed(v, i, st) ==
  LET old == ConstArg(st.args, 1)
      new == ConstArg(st.args, 2)
  IN Follow(v, i, "withColumnRenamed", TRUE,
       LAMBDA df : IF "" \in {old, new} THEN df
                   ELSE [df EXCEPT !.fields = Append(SelectSeq(@, LAMBDA f : f # old), new),
                                   !.derivations = {Derivation(new, {old}, "rename")},
                                   !.renames = Append(@, <<new, old>>)],
       Step("withColumnRenamed", "rename", {old} \ {""}, {new} \ {""}))

\* _apply_drop.
DropColumns(v, i, st) ==
  LET gone == ConstArgs(st.args)
  IN Follow(v, i, "drop", TRUE,
            LAMBDA df : [df EXCEPT !.fields = SelectSeq(@, LAMBDA f : f \notin gone)],
            Step("drop", "drop", gone, {}))

\* _apply_groupby and _apply_agg.
GroupBy(v, i, st) ==
  Follow(v, i, "groupby", TRUE, LAMBDA df : [df EXCEPT !.group = ColumnRefs(st.args)],
         Step("groupBy", "agg", ToSet(ColumnRefs(st.args)), {}))
Agg(v, i, st) ==
  LET found == [j \in DOMAIN st.args |-> AggAlias(st.args[j])]
      aliases == SelectSeq(found, LAMBDA a : a.to # "")
      to == [j \in DOMAIN aliases |-> aliases[j].to]
      group == v.heap[i].group
  IN Follow(v, i, "agg", FALSE,
       LAMBDA df : [df EXCEPT !.fields = group \o to,
                              !.derivations = {Derivation(a.to, a.from, "agg") : a \in ToSet(aliases)}],
       Step("agg", "agg", ToSet(group) \cup UNION {a.from : a \in ToSet(aliases)}, ToSet(to)))

-----------------------------------------------------------------------------
\* _apply_join, the right side: the frame a name stands for, inside a call too.
JoinedName(st) ==
  IF st.args = <<>> THEN ""
  ELSE LET x == st.args[1]
           inner == IF IsCall(x) /\ ArgsOf(x) # <<>> THEN RootName(ArgsOf(x)[1]) ELSE ""
       IN IF inner # "" THEN inner ELSE RootName(x)
IsBroadcast(st) == st.args # <<>> /\ st.args[1].k = "fn" /\ st.args[1].f = "broadcast"
JoinKeys(st) ==
  LET named == SelectSeq(st.kws, LAMBDA kw : kw.key = "on" /\ kw.val.k = "lit")
  IN IF named # <<>> THEN {named[1].val.s}
     ELSE IF Len(st.args) < 2 THEN {}
     ELSE IF st.args[2].k \in {"list", "tuple"} THEN ConstArgs(st.args[2].xs)
     ELSE {ConstOf(st.args[2])} \ {""}
JoinKind(st) ==
  LET how == SelectSeq(st.kws, LAMBDA kw : kw.key = "how" /\ kw.val.k = "lit")
  IN IF how # <<>> THEN how[1].val.s
     ELSE IF ConstArg(st.args, 3) # "" THEN ConstArg(st.args, 3) ELSE "inner"

\* _apply_join: the left edge is added by the chain step and again here.
JoinedReads(df, right) == df.reads \cup right.reads
JoinInto(df, src, rights, st) ==
  LET right == IF rights = {} THEN BlankFrame ELSE CHOOSE r \in rights : TRUE
      hinted == IsBroadcast(st) \/ src.hints.broadcast \/ right.hints.broadcast
  IN [df EXCEPT
       !.fields = src.fields \o right.fields,
       !.reads = JoinedReads(df, right),
       !.joins = Append(@, [left |-> src.var, right |-> JoinedName(st), how |-> JoinKind(st),
                            broadcast |-> hinted]),
       !.hints.broadcast = @ \/ hinted,
       !.edges = Append(@, Edge(src, "join"))
                   \o (IF rights = {} THEN <<>> ELSE <<Edge(right, "join")>>)]
Join(v, i, st) ==
  LET right == Lookup(v, JoinedName(st))
      rights == IF right = 0 THEN {} ELSE {v.heap[right]}
  IN Follow(v, i, "join", FALSE, LAMBDA df : JoinInto(df, v.heap[i], rights, st),
            [Step("join", "join", JoinKeys(st), {}) EXCEPT !.other = JoinedName(st)])

\* _register_temp_view.
RegisterView(v, i, st) ==
  IF ConstArg(st.args, 1) = "" THEN v
  ELSE [v EXCEPT !.views = (ConstArg(st.args, 1) :> i) @@ @]

\* _handle_terminal_methods, the hints and views: what else follows a read is not
\* followed.
ReadHint(v, i, st) ==
  IF st.m = "createOrReplaceTempView" THEN RegisterView(v, i, st)
  ELSE IF st.m \in Passthrough \cup {"hint"} THEN HintFrame(v, i, st)
  ELSE v
=============================================================================
