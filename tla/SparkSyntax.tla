----------------------------- MODULE SparkSyntax -----------------------------
(***************************************************************************)
(* The Python the Spark parser reads, as data, and the helpers of the      *)
(* visitor that look at syntax only.                                       *)
(*                                                                         *)
(* An expression is a record whose field k is its kind:                    *)
(*   lit [s]            a string literal          num            a number  *)
(*   name [n]           a variable                star [x]       *x        *)
(*   cat [xs]           an f-string, +, % or format of the pieces xs       *)
(*   attr [n, a]        n.a                       sub [n, key]   n[key]    *)
(*   env [src, key, dflt]  a read of the environment, a secret or a        *)
(*                      setting; dflt is <<>> or the second argument       *)
(*   list [xs], tuple [xs], dict [kvs]                                     *)
(*   fn [f, args, kws]  f(args, kws)              op [xs]  an operator     *)
(*   chain [root, steps]  root.m1(...).m2 ...     if [a, b]  a if c else b *)
(*   opaque             anything else                                      *)
(* A step is [m, call, args, kws], call false for an attribute like .read. *)
(* A keyword argument is [key, val], with key "**" for a splat.            *)
(*                                                                         *)
(* A statement is a record whose field s is its kind:                      *)
(*   assign [n, x]  tuple [ns, x]  setitem [n, key, x]  expr [x]           *)
(*   return [x]  if [a, b]  for [it, a]  while [a]  with [a]               *)
(*   try [a, hs, els, fin]                                                 *)
(*   def [n, params, varargs, kwonly, kwargs, deco, body]                  *)
(*   class [n, bases, body]          import [raws]                         *)
(* where a, b, els, fin, body are sequences of statements, hs a sequence   *)
(* of those and a parameter is [n, dflt], dflt <<>> or <<expression>>.     *)
(* A raw import is [kind, level, module, original, symbol]: a dotted name  *)
(* is the sequence of its parts and symbol the name bound.                 *)
(***************************************************************************)
EXTENDS Integers, Sequences, FiniteSets, SequencesExt

Lit(s) == [k |-> "lit", s |-> s]
Num == [k |-> "num"]
Opaque == [k |-> "opaque"]
Nm(n) == [k |-> "name", n |-> n]
Star(x) == [k |-> "star", x |-> x]
Cat(xs) == [k |-> "cat", xs |-> xs]
Attr(n, a) == [k |-> "attr", n |-> n, a |-> a]
Sub(n, key) == [k |-> "sub", n |-> n, key |-> key]
Env(src, key) == [k |-> "env", src |-> src, key |-> key, dflt |-> <<>>]
EnvOr(src, key, x) == [k |-> "env", src |-> src, key |-> key, dflt |-> <<x>>]
Lst(xs) == [k |-> "list", xs |-> xs]
Tup(xs) == [k |-> "tuple", xs |-> xs]
Dct(kvs) == [k |-> "dict", kvs |-> kvs]
Op(xs) == [k |-> "op", xs |-> xs]
IfExp(a, b) == [k |-> "if", a |-> a, b |-> b]
Fn(f, args) == [k |-> "fn", f |-> f, args |-> args, kws |-> <<>>]
FnKw(f, args, kws) == [k |-> "fn", f |-> f, args |-> args, kws |-> kws]
Kw(key, val) == [key |-> key, val |-> val]
Col(c) == Fn("col", <<Lit(c)>>)

\* _flatten_call_chain: a chain is its root and its steps in source order.
Chain(root, steps) == [k |-> "chain", root |-> root, steps |-> steps]
Dot(m) == [m |-> m, call |-> FALSE, args |-> <<>>, kws |-> <<>>]
M(m, args) == [m |-> m, call |-> TRUE, args |-> args, kws |-> <<>>]
MKw(m, args, kws) == [m |-> m, call |-> TRUE, args |-> args, kws |-> kws]

Assign(n, x) == [s |-> "assign", n |-> n, x |-> x]
Do(x) == [s |-> "expr", x |-> x]
Return(x) == [s |-> "return", x |-> x]
If(a, b) == [s |-> "if", a |-> a, b |-> b]
For(it, a) == [s |-> "for", it |-> it, a |-> a]
While(a) == [s |-> "while", a |-> a]
With(a) == [s |-> "with", a |-> a]
Try(a, hs, els, fin) == [s |-> "try", a |-> a, hs |-> hs, els |-> els, fin |-> fin]
TupleAssign(ns, x) == [s |-> "tuple", ns |-> ns, x |-> x]
SetItem(n, key, x) == [s |-> "setitem", n |-> n, key |-> key, x |-> x]
Param(n) == [n |-> n, dflt |-> <<>>]
Default(n, x) == [n |-> n, dflt |-> <<x>>]
FullDef(n, params, varargs, kwonly, kwargs, deco, body) ==
  [s |-> "def", n |-> n, params |-> params, varargs |-> varargs, kwonly |-> kwonly,
   kwargs |-> kwargs, deco |-> deco, body |-> body]
Def(n, params, body) == FullDef(n, params, FALSE, <<>>, FALSE, "", body)
Class(n, bases, body) == [s |-> "class", n |-> n, bases |-> bases, body |-> body]
Import(module) ==
  [s |-> "import", raws |-> <<[kind |-> "import", level |-> 0, module |-> module,
                               original |-> module, symbol |-> module[1]]>>]
FromImport(level, module, original, symbol) ==
  [s |-> "import", raws |-> <<[kind |-> "from", level |-> level, module |-> module,
                               original |-> <<original>>, symbol |-> symbol]>>]

-----------------------------------------------------------------------------
IsCall(x) == x.k = "fn" \/ (x.k = "chain" /\ x.steps # <<>> /\ x.steps[Len(x.steps)].call)
ArgsOf(x) == IF x.k = "fn" THEN x.args ELSE x.steps[Len(x.steps)].args
Calls(steps) == SelectSeq(steps, LAMBDA st : st.call)
CallsOf(steps, ms) == SelectSeq(steps, LAMBDA st : st.call /\ st.m \in ms)

\* _const_arg: "" unless the argument is a string literal.
ConstOf(x) == IF x.k = "lit" THEN x.s ELSE ""
ConstArg(args, i) == IF Len(args) >= i THEN ConstOf(args[i]) ELSE ""

\* _root_name: the name an expression of names, attributes and calls starts with.
RECURSIVE RootName(_)
RootName(x) ==
  IF x.k \in {"name", "attr"} THEN x.n
  ELSE IF x.k = "fn" THEN x.f
  ELSE IF x.k = "chain" THEN RootName(x.root)
  ELSE ""

LastStep(x) == IF x.k = "chain" THEN x.steps[Len(x.steps)] ELSE Dot("")

\* _alias_chain: the labels of the trailing alias calls, the innermost first.
RECURSIVE AliasLabels(_)
AliasLabels(x) ==
  IF x.k # "chain" \/ x.steps = <<>> \/ LastStep(x).m # "alias" THEN <<>>
  ELSE AliasLabels([x EXCEPT !.steps = SubSeq(@, 1, Len(@) - 1)])
         \o SelectSeq(<<ConstArg(LastStep(x).args, 1)>>, LAMBDA l : l # "")

\* _column_ref_name: what "c", col("c"), F.col("c"), df.c or an alias is called.
ColumnRef(x) ==
  CASE x.k = "lit" -> x.s
    [] x.k = "attr" -> x.a
    [] x.k = "fn" /\ x.f = "col" -> ConstArg(x.args, 1)
    [] x.k = "chain" /\ LastStep(x).m \in {"alias", "col"} -> ConstArg(LastStep(x).args, 1)
    [] OTHER -> ""

\* _is_star_arg.
IsStar(x) == x.k = "star" \/ ConstOf(x) = "*"

\* ast.walk over an expression: it and everything in it.
Operands(x) ==
  CASE x.k = "fn" -> (x.args \o [j \in DOMAIN x.kws |-> x.kws[j].val])
    [] x.k = "chain" -> (<<x.root>> \o FlattenSeq([i \in DOMAIN x.steps |->
         x.steps[i].args \o [j \in DOMAIN x.steps[i].kws |-> x.steps[i].kws[j].val]]))
    [] x.k \in {"op", "list", "tuple", "cat"} -> x.xs
    [] x.k = "dict" -> [j \in DOMAIN x.kvs |-> x.kvs[j].val]
    [] x.k = "if" -> <<x.a, x.b>>
    [] x.k = "star" -> <<x.x>>
    [] x.k = "sub" -> <<x.key>>
    [] x.k = "env" -> x.dflt
    [] OTHER -> <<>>
RECURSIVE Walk(_)
Walk(x) == <<x>> \o FlattenSeq([i \in DOMAIN Operands(x) |-> Walk(Operands(x)[i])])
WalkAll(xs) == FlattenSeq([i \in DOMAIN xs |-> Walk(xs[i])])

\* _columns_in_expression: the columns named anywhere in x.  A method called on a bare
\* name looks like df.column to it, so its name counts as a column.
Packages == {"F", "fn", "pyspark"}
ColumnsAt(x) ==
  CASE x.k = "fn" -> (IF x.f = "col" THEN {ConstArg(x.args, 1)} \ {""} ELSE {})
    [] x.k = "attr" -> (IF x.n \in Packages THEN {} ELSE {x.a})
    [] x.k = "chain" ->
         (({ConstArg(st.args, 1) : st \in ToSet(CallsOf(x.steps, {"col"}))} \ {""})
            \cup (IF x.root.k = "name" /\ x.root.n \notin Packages THEN {x.steps[1].m} ELSE {}))
    [] OTHER -> {}
ColumnsInAll(xs) == UNION {ColumnsAt(x) : x \in ToSet(WalkAll(xs))}
ColumnsIn(x) == ColumnsInAll(<<x>>)

\* _BUILTIN_FUNCTIONS, those the scripts use: any other bare name called is a UDF.
Builtins == {"col", "lit", "when", "expr", "cast", "broadcast", "sum", "count", "upper"}
ExpressionVia(x) == IF x.k = "fn" /\ x.f \notin Builtins THEN "udf" ELSE "withColumn"

\* _cast_types_if_any: cast(c, t) or c.cast(t).
IsCast(x) == \/ x.k = "fn" /\ x.f = "cast" /\ Len(x.args) >= 2
             \/ LastStep(x).m = "cast" /\ LastStep(x).args # <<>>

\* _agg_to_alias: only f(...).alias("n") is seen; [to |-> ""] otherwise.
AggAlias(x) ==
  IF x.k # "chain" \/ LastStep(x).m # "alias" THEN [to |-> "", from |-> {}]
  ELSE LET inner == IF Len(x.steps) = 1 THEN x.root
                    ELSE [x EXCEPT !.steps = SubSeq(@, 1, Len(@) - 1)]
       IN [to |-> ConstArg(LastStep(x).args, 1),
           from |-> IF ~ IsCall(inner) THEN {}
                    ELSE {ColumnRef(ArgsOf(inner)[i]) : i \in DOMAIN ArgsOf(inner)} \ {""}]

\* _parse_selectexpr with what sqlglot makes of the text: an expression in SQL is an op
\* whose last operand is the alias, a bare column name is a literal.
SqlTarget(x) == ConstOf(x.xs[Len(x.xs)])
SqlSources(x) == ColumnsInAll(SubSeq(x.xs, 1, Len(x.xs) - 1)) \ {SqlTarget(x)}

-----------------------------------------------------------------------------
\* Every statement of a body, those inside its statements included.
RECURSIVE Statements(_)
Parts(st) ==
  CASE st.s = "if" -> <<st.a, st.b>>
    [] st.s \in {"for", "while", "with"} -> <<st.a>>
    [] st.s \in {"def", "class"} -> <<st.body>>
    [] st.s = "try" -> (<<st.a>> \o st.hs \o <<st.els, st.fin>>)
    [] OTHER -> <<>>
Statements(body) ==
  FlattenSeq([i \in DOMAIN body |->
    <<body[i]>> \o FlattenSeq([p \in DOMAIN Parts(body[i]) |-> Statements(Parts(body[i])[p])])])

\* The expressions of a body, those of every statement in it.
ExpressionsOf(st) ==
  (IF "x" \in DOMAIN st THEN <<st.x>> ELSE <<>>) \o (IF st.s = "for" THEN <<st.it>> ELSE <<>>)
Expressions(body) ==
  FlattenSeq([i \in DOMAIN Statements(body) |-> WalkAll(ExpressionsOf(Statements(body)[i]))])

\* The functions a body calls, by the name called: bare, or of an attribute.
CalledAt(x) ==
  CASE x.k = "fn" -> {[n |-> x.f, bare |-> TRUE]}
    [] x.k = "chain" -> {[n |-> st.m, bare |-> FALSE] : st \in ToSet(Calls(x.steps))}
    [] OTHER -> {}
CalledByBody(body) == UNION {CalledAt(x) : x \in ToSet(Expressions(body))}

\* _first_tuple_return: whether a function returns a tuple or a list anywhere.
ReturnsTuple(fn) ==
  \E st \in ToSet(Statements(fn.body)) :
    st.s = "return" /\ st.x.k \in {"tuple", "list"}
=============================================================================
