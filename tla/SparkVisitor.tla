----------------------------- MODULE SparkVisitor -----------------------------
(***************************************************************************)
(* The second pass of the Spark visitor: every statement in source order,  *)
(* calls of functions of the project followed into their bodies.           *)
(*                                                                         *)
(* EvalRhs and EvalCall give [v, r], r the frame or 0; the other operators *)
(* give the visitor after them.  A call is [args, kws]; a binding is       *)
(* [v, frames, strs, lists, missing, overflow, extras].                    *)
(***************************************************************************)
EXTENDS SparkFirstPass

CONSTANT InlineMaxDepth
ASSUME InlineMaxDepthAssumption == InlineMaxDepth \in Nat

RECURSIVE EvalRhs(_, _, _)
RECURSIVE EvalCall(_, _, _)
RECURSIVE Visit(_, _)
RECURSIVE VisitAll(_, _)
RECURSIVE Inline(_, _, _, _, _, _)

Named(name) == IF name = "" THEN "__ret" ELSE name
CallOf(x) == IF x.k = "fn" THEN [args |-> x.args, kws |-> x.kws]
             ELSE [args |-> LastStep(x).args, kws |-> LastStep(x).kws]

-----------------------------------------------------------------------------
\* _bind_value: one argument may be a frame, a string and a list at once.
BindFrame(b, n, x, prebound) ==
  LET e == IF prebound THEN Ok(b.v, 0) ELSE EvalRhs(b.v, x, n)
  IN [b EXCEPT !.v = e.v, !.frames = IF e.r = 0 THEN @ ELSE (n :> e.r) @@ @]
BindValue(b, n, x, prebound) ==
  LET c == BindFrame(b, n, x, prebound)
      s == Str(c.v, x)
      l == ListValue(c.v, x)
  IN [c EXCEPT !.strs = IF s = <<>> THEN @ ELSE (n :> s) @@ @,
               !.lists = IF l.ok /\ <<>> \notin ToSet(l.items) THEN (n :> l.items) @@ @ ELSE @]

\* _bind_call_args: arguments by position, by keyword, then defaults.
Params(fn, dropSelf) ==
  IF dropSelf /\ fn.params # <<>> /\ fn.params[1].n \in {"self", "cls"}
  THEN Tail(fn.params) ELSE fn.params
NamesOf(params) == {p.n : p \in ToSet(params)}
Shorter(s, t) == IF Len(s) < Len(t) THEN Len(s) ELSE Len(t)
UpTo(n) == [j \in 1..n |-> j]
BindPositional(b, params, varargs, args) ==
  LET bound == FoldLeft(LAMBDA acc, j : BindValue(acc, params[j].n, args[j], FALSE), b,
                        UpTo(Shorter(args, params)))
  IN [bound EXCEPT !.overflow = varargs /\ Len(args) > Len(params)]
BindKeyword(b, kw, valid, positional, kwargs) ==
  LET splat == DictValue(b.v, kw.val).map
      fresh == {key \in DOMAIN splat : key[1] \in valid \ b.byName}
  IN IF kw.key = "**"
     THEN [FoldSet(LAMBDA key, acc : BindValue(acc, key[1], splat[key], TRUE), b, fresh)
             EXCEPT !.byName = @ \cup {key[1] : key \in fresh},
                    !.extras = @ \/ (kwargs /\ fresh # DOMAIN splat)]
     ELSE IF kw.key \in valid \ positional
     THEN [BindValue(b, kw.key, kw.val, FALSE) EXCEPT !.byName = @ \cup {kw.key}]
     ELSE [b EXCEPT !.extras = @ \/ kwargs]
BindDefault(b, p, given) ==
  IF p.n \in given THEN b
  ELSE IF p.dflt # <<>> THEN BindValue(b, p.n, p.dflt[1], FALSE)
  ELSE [b EXCEPT !.missing = Append(@, p.n)]
BindCall(v, fn, call, dropSelf) ==
  LET params == Params(fn, dropSelf)
      valid == NamesOf(params) \cup NamesOf(fn.kwonly)
      positional == NamesOf(SubSeq(params, 1, Shorter(call.args, params)))
      b0 == [v |-> v, frames |-> NoFun, strs |-> NoFun, lists |-> NoFun, missing |-> <<>>,
             overflow |-> FALSE, extras |-> FALSE, byName |-> {}]
      b1 == BindPositional(b0, params, fn.varargs, call.args)
      b2 == FoldLeft(LAMBDA b, kw : BindKeyword(b, kw, valid, positional, fn.kwargs), b1, call.kws)
      b3 == FoldLeft(LAMBDA b, p : BindDefault(b, p, positional \cup b2.byName), b2, params)
  IN FoldLeft(LAMBDA b, p : BindDefault(b, p, b2.byName), b3, fn.kwonly)

\* _emit_inline_warnings.
BindingWarnings(v, b) ==
  [v EXCEPT !.warnings = @ \o (IF b.overflow THEN <<"interproc_vararg">> ELSE <<>>)
                           \o (IF b.extras THEN <<"interproc_kwarg">> ELSE <<>>)
                           \o (IF b.missing # <<>> THEN <<"interproc_args_mismatch">> ELSE <<>>)]

\* _enter_inline: [ok, v].
Enter(v, name) ==
  IF name \in v.recursive THEN [ok |-> FALSE, v |-> Warn(v, "recursive_function")]
  ELSE IF v.depth >= InlineMaxDepth THEN [ok |-> FALSE, v |-> Warn(v, "recursion_capped")]
  ELSE [ok |-> TRUE, v |-> [v EXCEPT !.depth = @ + 1]]

-----------------------------------------------------------------------------
\* _rewrite_param_edges: edges the body made to a parameter, by name, lead to the
\* caller's argument.
CallerOf(v, params, kwonly, call) ==
  LET positional == {j \in DOMAIN call.args : j <= Len(params)}
      arg(x) == IF x.k = "name" THEN Lookup(v, x.n) ELSE 0
      by == [n \in {params[j].n : j \in positional} |->
               arg(call.args[CHOOSE j \in positional : params[j].n = n])]
      keyed == {j \in DOMAIN call.kws :
                  call.kws[j].key \in NamesOf(params) \cup NamesOf(kwonly)}
      byKey == [n \in {call.kws[j].key : j \in keyed} |->
                  arg(call.kws[CHOOSE j \in keyed : call.kws[j].key = n].val)]
      all == byKey @@ by
  IN [n \in {m \in DOMAIN all : all[m] # 0} |-> all[n]]
\* (bug: the edges keep the name of the parameter)
RewriteNone(v, pivot, callers, r) == v
RewriteParamEdges(v, pivot, callers, r) ==
  LET targets == ToSet(SubSeq(v.ir, pivot + 1, Len(v.ir))) \cup ({r} \ {0})
      lead(e) == IF e.var \in DOMAIN callers THEN Edge(v.heap[callers[e.var]], e.via) ELSE e
      edges(i) == [j \in DOMAIN v.heap[i].edges |-> lead(v.heap[i].edges[j])]
  IN FoldSet(LAMBDA i, u : [u EXCEPT !.heap[i].edges = edges(i)], v, targets)

\* The propagation at the end of _inline_external_function: what was written to a
\* parameter was written to the argument.  caller and v are before and after the body.
Propagate(v, caller, fn, call, b) ==
  FoldLeft(LAMBDA u, j :
    LET clone == Lookup(v, fn.params[j].n)
        original == Lookup(caller, call.args[j].n)
    IN IF call.args[j].k # "name" THEN u
       ELSE IF fn.params[j].n \notin DOMAIN b.frames \/ clone \in {0, original} \/ original = 0
       THEN u ELSE [u EXCEPT !.heap[original].writes = @ \o u.heap[clone].writes],
    v, UpTo(Shorter(call.args, fn.params)))

\* The loop over a function's body: up to its first return, [v, r].
\* _resolve_tuple_return: of a tuple only the first element is returned.
ReturnValue(v, x, name) ==
  IF x.k \notin {"tuple", "list"} THEN EvalRhs(v, x, Named(name))
  ELSE IF x.xs = <<>> THEN Ok(v, 0)
  ELSE EvalRhs(Warn(v, "tuple_return_partial"), x.xs[1], Named(name))
RunBody(v, body, name) ==
  LET ends == {j \in DOMAIN body : body[j].s = "return"}
      first == CHOOSE j \in ends : \A e \in ends : j <= e
  IN IF ends = {} THEN Ok(VisitAll(v, body), 0)
     ELSE ReturnValue(VisitAll(v, SubSeq(body, 1, first - 1)), body[first].x, name)

\* _inline_overlays and _exit_inline: the constants and the frames in scope are as before.
\* (bug: the strings stay as the function left them)
RestoreFrames(u, before, depth) ==
  [u EXCEPT !.symbols = before.symbols, !.lists = before.lists, !.depth = depth]
Restore(u, before, depth) ==
  [u EXCEPT !.symbols = before.symbols, !.strings = before.strings, !.lists = before.lists,
            !.depth = depth]

\* _inline_local_function (label "local"), _inline_class_method ("class_method") and
\* _inline_external_function ("cross_module_function").  Without a parameter to bind
\* nothing is followed.
HasParams(fn, label) ==
  fn.params # <<>> \/ (label # "class_method" /\ (fn.varargs \/ fn.kwonly # <<>>))
WithLabel(v, r, fn, label) ==
  IF label = "local" \/ r = 0 THEN v
  ELSE [v EXCEPT !.heap[r].edges = Append(@, NameEdge(fn, label))]
Inline(v, fn, fullName, call, name, label) ==
  LET isMethod == label = "class_method"
      entered == Enter(v, IF isMethod THEN fn.n ELSE fullName)
      b == BindCall(entered.v, fn, call, isMethod)
      w == BindingWarnings(b.v, b)
      run == RunBody([w EXCEPT !.symbols = b.frames @@ @, !.strings = b.strs @@ @,
                               !.lists = b.lists @@ @], fn.body, name)
      callers == CallerOf(w, Params(fn, isMethod), fn.kwonly, call)
      u == RewriteParamEdges(WithLabel(run.v, run.r, fullName, label), Len(w.ir), callers, run.r)
      x == IF label = "cross_module_function" THEN Propagate(u, w, fn, call, b) ELSE u
  IN IF ~ HasParams(fn, label) THEN Ok(v, 0)
     ELSE IF ~ entered.ok THEN Ok(entered.v, 0)
     ELSE Ok(Restore(x, w, v.depth), run.r)
InlineKnown(v, f, call, name) ==
  IF f \in DOMAIN v.functions THEN Inline(v, v.functions[f], f, call, name, "local")
  ELSE Inline(v, v.externals[f], f, call, name, "cross_module_function")
IsKnown(v, f) == f \in DOMAIN v.functions \cup DOMAIN v.externals

-----------------------------------------------------------------------------
\* _walk_foreach_batch: the callback's first parameter is the frame itself.
WalkForeachBatch(v, i, f) ==
  LET fn == v.functions[f]
      w == VisitAll(Bind([v EXCEPT !.depth = @ + 1], fn.params[1].n, i), fn.body)
  IN IF fn.params = <<>> THEN v
     ELSE IF v.depth >= InlineMaxDepth THEN Warn(v, "recursion_capped")
     ELSE [w EXCEPT !.symbols = v.symbols, !.depth = v.depth]
\* _apply_write.
Write(v, i, steps, st) ==
  LET c == WriteConfig(v, i, steps, st)
  IN ApplyWrite(IF c.callback \in DOMAIN v.functions THEN WalkForeachBatch(v, i, c.callback) ELSE v,
                i, c, st)

\* _apply_union.
UnionReads(df, other) == df.reads \cup other.reads
Union(v, i, st) ==
  LET w == ChainStep(v, i, "union", TRUE)
      n == Newest(w)
      e == IF st.args = <<>> THEN Ok(w, 0) ELSE EvalRhs(w, st.args[1], "__union_rhs")
      other == e.v.heap[e.r]
      u == IF e.r = 0 THEN e.v
           ELSE [e.v EXCEPT !.heap[n].edges = Append(@, Edge(other, "union")),
                            !.heap[n].reads = UnionReads(e.v.heap[n], other)]
  IN Ok(Record(u, n, [Step("union", "join", {}, {}) EXCEPT
                        !.other = IF e.r = 0 THEN "" ELSE other.var]), n)

\* _apply_transform: df.transform(f) is f(df).
Transform(v, i, st) ==
  LET f == IF st.args # <<>> /\ st.args[1].k = "name" THEN st.args[1].n ELSE ""
      src == v.heap[i].var
      e == InlineKnown(Bind(v, src, i), f, [args |-> <<Nm(src)>>, kws |-> <<>>], "")
      u == [e.v EXCEPT !.symbols = v.symbols]
      plain(p) == LET w == ChainStep(p, i, "transform", TRUE)
                  IN Ok(WarnPartial(w, Newest(w), "external_callback"), Newest(w))
  IN IF ~ IsKnown(v, f) THEN plain(v)
     ELSE IF e.r = 0 THEN plain(u)
     ELSE Ok([u EXCEPT !.heap[e.r].edges = Append(@, NameEdge(f, "transform"))], e.r)

\* The callback branch.
Callback(v, i, st) ==
  LET w == ChainStep(v, i, "callback", TRUE)
      n == Newest(w)
  IN Ok(IF st.args # <<>> /\ st.args[1].k = "name" /\ ~ IsKnown(v, st.args[1].n)
        THEN WarnPartial(w, n, "external_callback") ELSE w, n)

\* The frame a method gives, for the methods that give one.
Followed(v, i, st) ==
  LET made(w) == Ok(w, Newest(w))
  IN CASE st.m \in Passthrough \cup {"hint"} -> made(Pass(v, i, st))
       [] st.m \in {"filter", "where"} -> made(Filter(v, i, st))
       [] st.m \in {"select", "selectExpr"} -> made(Select(v, i, st))
       [] st.m = "withColumn" -> made(WithColumn(v, i, st))
       [] st.m = "withColumnRenamed" -> made(Renamed(v, i, st))
       [] st.m = "drop" -> made(DropColumns(v, i, st))
       [] st.m \in Joins -> made(Join(v, i, st))
       [] st.m \in Unions -> Union(v, i, st)
       [] st.m = "groupBy" -> made(GroupBy(v, i, st))
       [] st.m = "agg" -> made(Agg(v, i, st))
       [] st.m = "transform" -> Transform(v, i, st)
       [] st.m \in Callbacks -> Callback(v, i, st)
       [] OTHER -> Ok(v, i)

\* _derive_from_chain, one step.  acc is [v, cur, made, ended, writer, reader], made the
\* frames of this chain so far.
WriterMethods == {"format", "mode", "option", "options", "partitionBy", "outputMode",
                  "queryName", "trigger", "foreachBatch"}
Made(acc, e) == [acc EXCEPT !.v = e.v, !.cur = e.r,
                            !.made = IF e.r = acc.cur THEN @ ELSE Append(@, e.r)]
OpenWriter(acc, st) ==
  LET w == ChainStep(acc.v, acc.cur, st.m, TRUE)
      n == Newest(w)
      u == [w EXCEPT !.heap[n].writer = WriterStash(st.m = "writeStream")]
  IN [Made(acc, Ok(u, n)) EXCEPT !.writer = TRUE]
ReaderStep(acc, st, name) ==
  IF st.m \in {"format", "option", "options"}
  THEN [acc EXCEPT !.v = AbsorbReader(@, acc.cur, st)]
  ELSE IF st.m \in TerminalReads
  THEN [Made(acc, FinalizeReader(acc.v, acc.cur, st, name)) EXCEPT !.reader = FALSE]
  ELSE acc
DeriveStep(acc, st, steps, name) ==
  CASE acc.ended -> acc
    [] ~ acc.ended /\ ~ st.call -> (IF st.m \in {"write", "writeStream"} THEN OpenWriter(acc, st) ELSE acc)
    [] OTHER ->
         IF acc.writer /\ st.m \in WriterMethods
         THEN [acc EXCEPT !.v = AbsorbWriter(@, acc.cur, st)]
         ELSE IF acc.reader THEN ReaderStep(acc, st, name)
         ELSE IF st.m \in TerminalWrites
         THEN [acc EXCEPT !.v = Write(@, acc.cur, steps, st), !.ended = TRUE]
         ELSE IF st.m = "createOrReplaceTempView"
         THEN [acc EXCEPT !.v = RegisterView(@, acc.cur, st)]
         ELSE Made(acc, Followed(acc.v, acc.cur, st))
Derive(v, i, steps, name) ==
  LET d == FoldLeft(LAMBDA acc, st : DeriveStep(acc, st, steps, name),
             [v |-> v, cur |-> i, made |-> <<>>, ended |-> FALSE,
              writer |-> v.heap[i].writer.on, reader |-> v.heap[i].reader.on], steps)
      listed == IF (d.ended /\ name = "") \/ d.made = <<>> THEN d.made ELSE Front(d.made)
  IN Ok(FoldLeft(LAMBDA u, n : List(u, n), d.v, listed), d.cur)

-----------------------------------------------------------------------------
\* _looks_like_df_producing_call and _external_function_df.
NotFrames == {"StructType", "dict", "list", "datetime", "print", "len", "range", "getattr",
              "setattr"}
RootsOf(call) ==
  {RootName(x) : x \in ToSet(call.args) \cup {kw.val : kw \in ToSet(call.kws)}}
LooksLikeFrame(v, f, call) ==
  f \notin NotFrames /\ RootsOf(call) \cap ({"spark"} \cup DOMAIN v.symbols) # {}
ExternalFrame(v, call, name) ==
  LET w == NewFrame(v, name)
      parents == {RootName(x) : x \in ToSet(call.args)} \cap DOMAIN v.symbols
  IN Ok([w EXCEPT !.heap[Newest(w)].edges = <<NameEdge("", "external_function")>>,
                  !.heap[Newest(w)].reads = UNION {v.heap[v.symbols[p]].reads : p \in parents}],
        Newest(w))
EvalFunction(v, x, name) ==
  IF IsKnown(v, x.f) THEN InlineKnown(v, x.f, CallOf(x), name)
  ELSE IF LooksLikeFrame(v, x.f, CallOf(x)) THEN ExternalFrame(v, CallOf(x), name)
  ELSE Ok(v, 0)

\* _handle_terminal_methods, up to the first sink.  A convenience reader has the name of
\* a sink, so the read is also written where it came from.
AfterRead(e, steps) ==
  LET i == e.r
      sinks == {j \in DOMAIN steps : steps[j].call /\ steps[j].m \in TerminalWrites}
      sink == CHOOSE j \in sinks : \A k \in sinks : j <= k
      hinted == FoldLeft(LAMBDA u, st : ReadHint(u, i, st), e.v,
                         Calls(IF sinks = {} THEN steps ELSE SubSeq(steps, 1, sink - 1)))
  IN Ok(IF sinks = {} THEN hinted ELSE Write(hinted, i, steps, steps[sink]), i)

\* _eval_call, a chain that starts with the session or the context.
IsReadChain(x) ==
  x.root.n = "spark" /\ \E j \in DOMAIN x.steps :
    j <= 3 /\ ~ x.steps[j].call /\ x.steps[j].m \in {"read", "readStream"}
SessionCalls == {"table", "sql", "createDataFrame"}
EvalSession(v, x, name) ==
  LET st == x.steps[1]
      e == CASE IsReadChain(x) -> BuildRead(v, x.steps, name)
             [] ~ IsReadChain(x) /\ st.m \in RddReads -> BuildRdd(v, st, name)
             [] st.m = "table" -> BuildTable(v, st, name)
             [] st.m = "sql" -> BuildSql(v, st, name)
             [] OTHER -> BuildData(v, st, name)
  IN AfterRead(e, x.steps)
StartsWithSession(x) ==
  \/ IsReadChain(x)
  \/ x.steps[1].call /\ (x.steps[1].m \in RddReads
                           \/ (x.root.n = "spark" /\ x.steps[1].m \in SessionCalls))

\* _eval_call, a method of an object whose class is known.
EvalMethod(v, x, name) ==
  LET c == v.instances[x.root.n]
      st == x.steps[1]
      fn == ClassMethod(v, c, st.m)
      e == Inline(v, fn[1], c \o "." \o st.m, [args |-> st.args, kws |-> st.kws], name, "class_method")
  IN IF ~ st.call \/ fn = <<>> THEN Ok(v, 0)
     ELSE IF e.r # 0 /\ Len(x.steps) > 1 THEN Derive(e.v, e.r, Tail(x.steps), name)
     ELSE e

\* _eval_call.  What follows a call of a function in the same chain is not followed.
EvalCall(v, x, name) ==
  CASE x.k = "fn" -> EvalFunction(v, x, name)
    [] x.k = "chain" /\ x.root.k = "fn" -> EvalFunction(v, x.root, name)
    [] x.k = "chain" /\ x.root.k = "name" ->
         IF x.root.n = "SparkSession" THEN Ok(v, 0)
         ELSE IF StartsWithSession(x) THEN EvalSession(v, x, name)
         ELSE IF Lookup(v, x.root.n) # 0 THEN Derive(v, Lookup(v, x.root.n), x.steps, name)
         ELSE IF x.root.n \in DOMAIN v.instances THEN EvalMethod(v, x, name)
         ELSE Ok(v, 0)
    [] OTHER -> Ok(v, 0)

\* _eval_rhs_as_dataframe.
EvalBranches(v, x, name) ==
  LET w == NewFrame(v, name)
      n == Newest(w)
      take(u, y) ==
        LET e == EvalRhs(u, y, "__cond")
        IN IF e.r = 0 THEN e.v
           ELSE [e.v EXCEPT !.heap[n].reads = @ \cup e.v.heap[e.r].reads,
                            !.heap[n].edges = Append(@, NameEdge(e.v.heap[e.r].var, "conditional"))]
  IN Ok(take(take([w EXCEPT !.heap[n].conditional = TRUE], x.a), x.b), n)
EvalRhs(v, x, name) ==
  IF x.k = "name" /\ Lookup(v, x.n) # 0
  THEN LET w == CloneFrame(v, Lookup(v, x.n), name) IN Ok(w, Newest(w))
  ELSE IF x.k = "if" THEN EvalBranches(v, x, name)
  ELSE IF IsCall(x) THEN EvalCall(v, x, name)
  ELSE Ok(v, 0)

-----------------------------------------------------------------------------
\* _visit_assign.
IsUdf(x) == IF x.k = "fn" THEN x.f \in {"udf", "pandas_udf"}
            ELSE IsCall(x) /\ LastStep(x).m \in {"udf", "pandas_udf"}
VisitAssign(v, n, x) ==
  LET e == EvalRhs(v, x, n) IN
  CASE IsUdf(x) -> [v EXCEPT !.udfs = @ \cup {n}]
    [] ~ IsUdf(x) /\ x.k = "fn" /\ x.f \in DOMAIN v.methods ->
         [v EXCEPT !.instances = (n :> x.f) @@ @]
    [] ~ IsUdf(x) /\ x.k = "fn" /\ x.f \in DOMAIN v.factories \ DOMAIN v.methods ->
         [v EXCEPT !.functions = (n :> v.factories[x.f]) @@ @]
    [] OTHER -> IF e.r = 0 THEN CaptureConstant(e.v, n, x) ELSE NameFrame(e.v, n, e.r)

\* _visit_expression_stmt.
VisitExpr(v, x) ==
  IF ~ IsCall(x) THEN v
  ELSE IF x.k = "chain" /\ Len(x.steps) = 1 /\ x.steps[1].m = "update" /\ x.root.k = "name"
          /\ x.root.n \in DOMAIN v.dicts
  THEN UpdateDict(v, x.root.n, x.steps[1])
  ELSE EvalCall(v, x, "").v

\* _visit_tuple_assign.
BindResult(v, e, n) == IF e.r = 0 THEN e.v ELSE NameFrame(e.v, n, e.r)
VisitTuple(v, ns, x) ==
  LET e == EvalRhs(v, x, ns[1])
      fns == v.functions @@ v.externals
      w == BindResult(v, e, ns[1])
  IN IF x.k \in {"tuple", "list"}
     THEN FoldLeft(LAMBDA u, j : BindResult(u, EvalRhs(u, x.xs[j], ns[j]), ns[j]), v,
                   UpTo(Shorter(ns, x.xs)))
     ELSE IF x.k = "fn" /\ x.f \in DOMAIN fns
     THEN (IF ReturnsTuple(fns[x.f]) /\ Len(ns) > 1 THEN Warn(w, "tuple_return_partial") ELSE w)
     ELSE w

\* _visit_if: a name bound after both branches stands for the frame of the first, which
\* also reads what the other does.
MergeReads(own, other) ==
  own \cup {t \in other : \A p \in own : <<p.fqn, p.loc>> # <<t.fqn, t.loc>>}
MergeBranches(v, names, first, second) ==
  FoldSet(LAMBDA n, u : [u EXCEPT
            !.heap[first[n]].conditional = TRUE,
            !.heap[first[n]].reads = MergeReads(@, u.heap[second[n]].reads)],
          v, names)
VisitIf(v, a, b) ==
  LET w == VisitAll(v, a)
      u == VisitAll([w EXCEPT !.symbols = v.symbols], b)
      both == DOMAIN w.symbols \cap DOMAIN u.symbols
  IN IF b = <<>> THEN w
     ELSE [MergeBranches(u, both, w.symbols, u.symbols) EXCEPT !.symbols = w.symbols @@ u.symbols]

\* _visit_for: the body once; every frame in scope is then partial.
VisitFor(v, a) ==
  LET w == VisitAll(v, a)
      new == DOMAIN w.symbols \ DOMAIN v.symbols
      inScope == {w.symbols[n] : n \in DOMAIN w.symbols}
      marked == FoldSet(LAMBDA i, u : [u EXCEPT !.heap[i].partial = TRUE], w, inScope)
  IN [marked EXCEPT !.warnings = @ \o [k \in 1..Cardinality(new) |-> "lineage_partial"]]

\* _visit_stmt.
Visit(v, st) ==
  CASE st.s = "assign" -> VisitAssign(v, st.n, st.x)
    [] st.s = "tuple" -> VisitTuple(v, st.ns, st.x)
    [] st.s = "setitem" -> VisitExpr(SetDictItem(v, st.n, st.key, st.x), st.x)
    [] st.s = "expr" -> VisitExpr(v, st.x)
    [] st.s = "if" -> VisitIf(v, st.a, st.b)
    [] st.s = "for" -> VisitFor(v, st.a)
    [] st.s \in {"while", "with"} -> VisitAll(v, st.a)
    [] st.s = "try" -> VisitAll(v, st.a \o FlattenSeq(st.hs) \o st.els \o st.fin)
    [] OTHER -> v
VisitAll(v, body) == IF body = <<>> THEN v ELSE VisitAll(Visit(v, Head(body)), Tail(body))
=============================================================================
