---------------------------- MODULE SparkMeaning ----------------------------
(***************************************************************************)
(* What a script does when it runs: the reference the parser's lineage is  *)
(* compared with.  Nothing here is the parser's: a script is executed, its *)
(* values are what Python and Spark make of them.                          *)
(*                                                                         *)
(* A value is [k, src, ops, from, cols, c, s, m]: k frame, reader, writer, *)
(* object, text, dict or none; src the tables a frame is computed from, as *)
(* [label, site]; ops and from the methods applied since it last had a     *)
(* name and the versions, <<name, number>>, they were applied to; cols the *)
(* columns known, each with the columns of these versions it is made of; c *)
(* what a reader, a writer or a grouping was told; s a text, m a dictionary. *)
(*                                                                         *)
(* An execution is [vars, defs, classes, views, counts, made, writes,      *)
(* coins, wild, ret]: made the value behind every version, writes          *)
(* [to, mode, src], coins how the next branches and loops go, and wild     *)
(* whether it ran something that is put together only as it runs.          *)
(***************************************************************************)
EXTENDS SparkNotebook

NoValue == [k |-> "none", src |-> {}, ops |-> <<>>, from |-> {},
            cols |-> NoFun, c |-> NoFun, s |-> <<>>, m |-> NoFun]
Frame(src) == [NoValue EXCEPT !.k = "frame", !.src = src]
Text(s) == [NoValue EXCEPT !.k = "text", !.s = s]
Session == [NoValue EXCEPT !.k = "session"]

\* A text that only the environment knows.
Unknown(x) == <<"?", x.src, x.key>>
IsUnknown(s) == s # <<>> /\ s[1] = "?"
Joined(parts) ==
  LET unknown == SelectSeq(parts, IsUnknown)
  IN IF unknown # <<>> THEN unknown[1] ELSE FlattenSeq(parts)

Start(defs, coins) ==
  [vars |-> NoFun, defs |-> defs, classes |-> NoFun, views |-> NoFun, counts |-> NoFun,
   made |-> NoFun, writes |-> {}, coins |-> coins, wild |-> FALSE,
   ret |-> [done |-> FALSE, val |-> NoValue]]
Out(m, r) == [m |-> m, r |-> r]
Plain(names) == [c \in names |-> {c}]
Var(m, n) == IF n \in DOMAIN m.vars THEN m.vars[n] ELSE NoValue

RECURSIVE EvalV(_, _)
RECURSIVE ExecAll(_, _)

-----------------------------------------------------------------------------
\* Calls of functions and methods: the caller's variables are as before afterwards.
Given(call, j, p) ==
  LET named == SelectSeq(call.kws, LAMBDA kw : kw.key = p.n)
  IN IF j <= Len(call.args) THEN <<call.args[j]>>
     ELSE IF named # <<>> THEN <<named[1].val>> ELSE p.dflt
BindAll(m, params, call) ==
  FoldLeft(LAMBDA acc, j :
             LET e == EvalV(acc.m, Given(call, j, params[j])[1])
             IN IF Given(call, j, params[j]) = <<>> THEN acc
                ELSE [m |-> e.m, vars |-> (params[j].n :> e.r) @@ acc.vars],
           [m |-> m, vars |-> m.vars], [j \in DOMAIN params |-> j])
CallFunction(m, fn, params, call) ==
  LET b == BindAll(m, params, call)
      after == ExecAll([b.m EXCEPT !.vars = b.vars], fn.body)
  IN Out([after EXCEPT !.vars = b.m.vars, !.ret = m.ret], after.ret.val)

RECURSIVE MethodOf(_, _, _)
MethodOf(m, c, name) ==
  LET own == SelectSeq(m.classes[c].body, LAMBDA st : st.s = "def" /\ st.n = name)
      bases == SelectSeq(m.classes[c].bases, LAMBDA b : MethodOf(m, b, name) # <<>>)
  IN IF own # <<>> THEN own ELSE IF bases = <<>> THEN <<>> ELSE MethodOf(m, bases[1], name)
ClassText(m, c, a) ==
  LET own == SelectSeq(m.classes[c].body, LAMBDA st : st.s = "assign" /\ st.n = a)
  IN IF own = <<>> THEN NoValue ELSE EvalV(m, own[1].x).r

-----------------------------------------------------------------------------
\* What a reader or a writer is told, and what it then reads or writes.
Tell(m, c, st) ==
  LET text(j) == EvalV(m, st.args[j]).r.s
      splat(kw) == EvalV(m, kw.val).r.m
      pairs == FoldLeft(LAMBDA o, kw : IF kw.key = "**" THEN splat(kw) @@ o
                                       ELSE (kw.key :> EvalV(m, kw.val).r.s) @@ o, NoFun, st.kws)
  IN CASE st.m = "option" /\ st.args # <<>> -> (text(1)[1] :> text(2)) @@ c
       [] st.m \in {"option", "options"} /\ st.args = <<>> -> pairs @@ c
       [] st.m \in {"format", "mode"} -> (st.m :> text(1)) @@ c
       [] OTHER -> c
TableName(s) == IF IsUnknown(s) \/ \E j \in DOMAIN s : s[j] \in Dotted THEN s ELSE <<"default.">> \o s
SourceOf(m, c, st) ==
  LET format == IF st.m \in {"load", "table"} THEN Get(c, "format") ELSE <<st.m>>
      arg == IF st.args = <<>> THEN <<>> ELSE EvalV(m, st.args[1]).r.s
      label == CASE st.m = "table" -> TableName(arg)
                 [] st.m # "table" /\ arg # <<>> -> arg
                 [] st.m # "table" /\ arg = <<>> /\ format = <<"kafka">> -> Get(c, "subscribe")
                 [] OTHER -> Get(c, "dbtable")
      site == CASE format = <<"jdbc">> -> Get(c, "url")
                [] format = <<"kafka">> -> Get(c, "kafka.bootstrap.servers")
                [] format = <<"org.apache.spark.sql.cassandra">> ->
                     Get(c, "spark.cassandra.connection.host")
                [] OTHER -> arg
  IN [label |-> label, site |-> site]
WriteTo(m, val, st) ==
  LET target == EvalV(m, st.args[1]).r.s
      to == IF st.m \in {"saveAsTable", "insertInto"} THEN TableName(target) ELSE target
  IN [m EXCEPT !.writes = @ \cup {[to |-> to, mode |-> Get(val.c, "mode"), src |-> val.src]}]

\* A temporary view is the frame it was made of, a name it does not have is a table.
SqlFrom(m, names) ==
  UNION {IF n \in DOMAIN m.views THEN m.views[n].src
         ELSE {[label |-> TableName(<<n>>), site |-> <<n>>]} : n \in names}
RunText(m, s) ==
  LET t == Sql[s][1]
      tables == UNION {ToSet(q.from) : q \in {t.query} \cup {c.query : c \in ToSet(t.ctes)}}
      from == SqlFrom(m, tables \ {c.n : c \in ToSet(t.ctes)})
  IN IF t.kind = "select" THEN Out(m, Frame(from))
     ELSE Out([m EXCEPT !.writes = @ \cup {[to |-> TableName(<<t.target>>),
                                            mode |-> <<"overwrite">>, src |-> from]}], Frame({}))

RunSql(m, s) ==
  IF ~ IsUnknown(s) THEN RunText(m, s)
  ELSE Out([m EXCEPT !.wild = TRUE], Frame({[label |-> s, site |-> s]}))

\* One step of a chain.
OfSession(m, st) ==
  CASE st.m = "read" -> Out(m, [NoValue EXCEPT !.k = "reader"])
    [] st.m = "table" -> Out(m, Frame({SourceOf(m, NoFun, st)}))
    [] st.m = "sql" -> RunSql(m, EvalV(m, st.args[1]).r.s)
    [] OTHER -> Out(m, [Frame({}) EXCEPT !.cols = Plain({x.s : x \in ToSet(st.args[2].xs)})])
\* The columns after a method.
MadeFrom(val, x) ==
  UNION {val.cols[y.args[1].s] : y \in {z \in ToSet(Walk(x)) : z.k = "fn" /\ z.f = "col"}}
ColumnsOf(val, st) ==
  LET name(j) == st.args[j].s
      names == {st.args[j].s : j \in {i \in DOMAIN st.args : st.args[i].k = "lit"}}
      sums == {<<LastStep(x).args[1].s, x.root.args[1].s>> : x \in ToSet(st.args)}
  IN CASE st.m = "select" -> [c \in names |-> val.cols[c]]
       [] st.m = "withColumn" -> (name(1) :> MadeFrom(val, st.args[2])) @@ val.cols
       [] st.m = "withColumnRenamed" ->
            [c \in (DOMAIN val.cols \ {name(1)}) \cup {name(2)} |->
               val.cols[IF c = name(2) THEN name(1) ELSE c]]
       [] st.m = "drop" -> [c \in DOMAIN val.cols \ names |-> val.cols[c]]
       [] st.m = "agg" ->
            FoldSet(LAMBDA p, cols : (p[1] :> val.cols[p[2]]) @@ cols,
                    [c \in val.c["group"] |-> val.cols[c]], sums)
       [] OTHER -> val.cols
Grouped(val, st) ==
  IF st.m = "groupBy" THEN "group" :> {x.s : x \in ToSet(st.args)} ELSE val.c
OfFrame(m, val, st) ==
  LET other == EvalV(m, st.args[1])
      both == [val EXCEPT !.src = @ \cup other.r.src, !.ops = @ \o Append(other.r.ops, st.m),
                          !.from = @ \cup other.r.from]
      fn == m.defs[st.args[1].n]
      applied == ExecAll([m EXCEPT !.vars = (fn.params[1].n :> val) @@ @], fn.body)
  IN CASE st.m = "write" -> Out(m, [val EXCEPT !.k = "writer"])
       [] st.m = "createOrReplaceTempView" ->
            Out([m EXCEPT !.views = (st.args[1].s :> val) @@ @], NoValue)
       [] st.m \in {"join", "union", "unionByName"} -> Out(other.m, both)
       [] st.m = "transform" -> Out([applied EXCEPT !.vars = m.vars, !.ret = m.ret], applied.ret.val)
       [] st.m \in {"show", "count"} -> Out(m, NoValue)
       [] OTHER -> Out(m, [val EXCEPT !.ops = Append(@, st.m), !.c = Grouped(val, st),
                                      !.cols = IF val.cols = NoFun THEN @ ELSE ColumnsOf(val, st)])
OneStep(m, val, st) ==
  CASE val.k = "session" -> OfSession(m, st)
    [] val.k = "frame" -> OfFrame(m, val, st)
    [] val.k = "reader" ->
         Out(m, IF st.m \in {"format", "option", "options"} THEN [val EXCEPT !.c = Tell(m, @, st)]
                ELSE Frame({SourceOf(m, val.c, st)}))
    [] val.k = "writer" ->
         IF st.m \in {"format", "mode", "option", "options", "partitionBy"}
         THEN Out(m, [val EXCEPT !.c = Tell(m, @, st)])
         ELSE Out(WriteTo(m, val, st), NoValue)
    [] val.k = "dict" ->
         Out(m, [val EXCEPT !.m = FoldLeft(LAMBDA d, kw : (kw.key :> EvalV(m, kw.val).r.s) @@ d,
                                           @, st.kws)])
    [] val.k = "object" ->
         LET fn == MethodOf(m, val.s[1], st.m)[1]
         IN CallFunction(m, fn, Tail(fn.params), [args |-> st.args, kws |-> st.kws])
    [] OTHER -> Out(m, NoValue)

\* A chain on a variable that holds a reader, a writer or a dictionary changes that object.
EvalChain(m, x) ==
  LET root == EvalV(m, x.root)
      keep(acc) == IF x.root.k = "name" /\ root.r.k \in {"reader", "writer", "dict"} /\ acc.r.k = root.r.k
                   THEN [acc EXCEPT !.m.vars[x.root.n] = acc.r] ELSE acc
  IN FoldLeft(LAMBDA acc, st : keep(OneStep(acc.m, acc.r, st)), root, x.steps)

EvalV(m, x) ==
  CASE x.k = "lit" -> Out(m, Text(<<x.s>>))
    [] x.k = "env" -> Out(m, Text(Unknown(x)))
    [] x.k = "name" -> Out(m, IF x.n = "spark" THEN Session ELSE Var(m, x.n))
    [] x.k = "cat" -> Out(m, Text(Joined([j \in DOMAIN x.xs |-> EvalV(m, x.xs[j]).r.s])))
    [] x.k = "sub" -> Out(m, Text(Get(Var(m, x.n).m, EvalV(m, x.key).r.s[1])))
    [] x.k = "attr" -> Out(m, ClassText(m, IF x.n \in DOMAIN m.classes THEN x.n
                                           ELSE Var(m, x.n).s[1], x.a))
    [] x.k = "dict" ->
         Out(m, [NoValue EXCEPT !.k = "dict", !.m =
           FoldLeft(LAMBDA d, e : IF e.key = "**" THEN EvalV(m, e.val).r.m @@ d
                                  ELSE (e.key :> EvalV(m, e.val).r.s) @@ d, NoFun, x.kvs)])
    [] x.k = "fn" /\ x.f \in DOMAIN m.classes ->
         Out(m, [NoValue EXCEPT !.k = "object", !.s = <<x.f>>])
    [] x.k = "fn" /\ x.f \in DOMAIN m.defs ->
         CallFunction(m, m.defs[x.f], m.defs[x.f].params, [args |-> x.args, kws |-> x.kws])
    [] x.k = "fn" /\ x.f \in {"eval", "exec", "getattr", "setattr"} ->
         Out([m EXCEPT !.wild = @ \/ x.f \in {"eval", "exec"} \/ IsUnknown(EvalV(m, x.args[2]).r.s)],
             NoValue)
    [] x.k = "chain" -> EvalChain(m, x)
    [] x.k = "if" -> EvalV([m EXCEPT !.coins = Tail(@)], IF m.coins[1] THEN x.a ELSE x.b)
    [] OTHER -> Out(m, NoValue)

-----------------------------------------------------------------------------
\* n = x: a frame, a reader or a writer is a new version of n.
Version(m, n) == <<n, IF n \in DOMAIN m.counts THEN m.counts[n] ELSE 0>>
Assigned(m, n, val) ==
  IF val.k \notin {"frame", "reader", "writer"} THEN [m EXCEPT !.vars = (n :> val) @@ @]
  ELSE [m EXCEPT !.vars = (n :> [val EXCEPT !.ops = <<>>, !.from = {Version(m, n)},
                                       !.cols = Plain(DOMAIN @)]) @@ @,
                 !.counts = (n :> Version(m, n)[2] + 1) @@ @,
                 !.made = (Version(m, n) :> val) @@ @]
Exec(m, st) ==
  LET e == EvalV(m, st.x)
      once == ExecAll([m EXCEPT !.coins = Tail(@)], st.a)
  IN CASE st.s = "assign" -> Assigned(e.m, st.n, e.r)
       [] st.s = "tuple" ->
            LET vals == [i \in DOMAIN st.ns |-> EvalV(m, st.x.xs[i]).r]
            IN FoldLeft(LAMBDA n, i : Assigned(n, st.ns[i], vals[i]), m, [i \in DOMAIN vals |-> i])
       [] st.s = "expr" -> e.m
       [] st.s = "setitem" -> [m EXCEPT !.vars[st.n].m = (EvalV(m, st.key).r.s[1] :> e.r.s) @@ @]
       [] st.s = "return" -> [e.m EXCEPT !.ret = [done |-> TRUE, val |-> e.r]]
       [] st.s = "def" -> [m EXCEPT !.defs = (st.n :> st) @@ @]
       [] st.s = "class" -> [m EXCEPT !.classes = (st.n :> st) @@ @]
       [] st.s = "if" -> ExecAll([m EXCEPT !.coins = Tail(@)], IF m.coins[1] THEN st.a ELSE st.b)
       [] st.s = "for" -> IF m.coins[1] THEN ExecAll(once, st.a) ELSE once
       [] st.s = "with" -> ExecAll(m, st.a)
       [] OTHER -> m
ExecAll(m, body) ==
  IF body = <<>> \/ m.ret.done THEN m ELSE ExecAll(Exec(m, Head(body)), Tail(body))

\* Every execution of a script: the branches and loops go either way.
MaxCoins == 3
Executions(body, defs) ==
  {ExecAll(Start(defs, coins), body) : coins \in [1..MaxCoins -> BOOLEAN]}

-----------------------------------------------------------------------------
\* The file an import names: the module it imports from another, or else that other.  And
\* the files Python loads for it: these two, and every package on the way to them.
FilesNamed(tree, dirs, dotted) ==
  UNION {{d \o dotted, d \o dotted \o <<"__init__">>} : d \in dirs} \cap DOMAIN tree.files
Anchors(tree, from, raw) ==
  IF raw.level = 0 THEN ToSet(tree.roots)
  ELSE {SubSeq(from, 1, n) : n \in {Len(from) - raw.level} \cap Nat}
Inside(tree, from, raw) ==
  IF raw.kind # "from" THEN {}
  ELSE FilesNamed(tree, Anchors(tree, from, raw), raw.module \o raw.original)
Imported(tree, from, raw) ==
  IF Inside(tree, from, raw) # {} THEN Inside(tree, from, raw)
  ELSE FilesNamed(tree, Anchors(tree, from, raw), raw.module)
Loaded(tree, from, raw) ==
  LET dirs == Anchors(tree, from, raw)
      onTheWay == {SubSeq(raw.module, 1, n) : n \in (IF raw.level = 0 THEN 1 ELSE 0)..Len(raw.module)}
  IN Inside(tree, from, raw) \cup FilesNamed(tree, dirs, raw.module)
       \cup ({d \o p \o <<"__init__">> : d \in dirs, p \in onTheWay} \cap DOMAIN tree.files)
=============================================================================
