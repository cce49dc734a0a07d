----------------------------- MODULE SparkValues -----------------------------
(***************************************************************************)
(* What the Spark visitor can tell of a Python value without running the   *)
(* program: strings, lists and dictionaries, and where an unknown value    *)
(* comes from.                                                             *)
(***************************************************************************)
EXTENDS SparkIR

CONSTANT Dotted   \* the pieces of names that contain a dot
ASSUME DottedAssumption == \A piece \in Dotted : piece \in STRING

\* The class an attribute path n.a is looked up in.
ClassOf(v, n) ==
  IF n \in DOMAIN v.attributes THEN n
  ELSE IF n \in DOMAIN v.instances THEN v.instances[n] ELSE ""

\* _resolve_str: <<>> when the value is not known.  An attribute is one the class body
\* assigns: the lookup of @property comes after a return and is never reached.  The
\* default of os.getenv is taken for the value.
RECURSIVE Str(_, _)
Str(v, x) ==
  CASE x.k = "lit" -> <<x.s>>
    [] x.k = "name" -> Get(v.strings, x.n)
    [] x.k = "attr" -> (IF ClassOf(v, x.n) \in DOMAIN v.attributes
                        THEN Get(v.attributes[ClassOf(v, x.n)], x.a) ELSE <<>>)
    [] x.k = "cat" -> (LET pieces == [i \in DOMAIN x.xs |-> Str(v, x.xs[i])]
                       IN IF <<>> \in ToSet(pieces) THEN <<>> ELSE FlattenSeq(pieces))
    [] x.k = "sub" -> (LET key == Str(v, x.key)
                       IN IF x.n \in DOMAIN v.dicts /\ key \in DOMAIN v.dicts[x.n]
                          THEN Str(v, v.dicts[x.n][key]) ELSE <<>>)
    [] x.k = "env" /\ x.dflt # <<>> -> Str(v, x.dflt[1])
    [] OTHER -> <<>>

StrArg(v, args, i) == IF Len(args) >= i THEN Str(v, args[i]) ELSE <<>>

\* _resolve_list_value: a number among the items is <<>>.
NoList == [ok |-> FALSE, items |-> <<>>]
ListValue(v, x) ==
  IF x.k \in {"list", "tuple"}
  THEN IF \A i \in DOMAIN x.xs : x.xs[i].k = "num" \/ Str(v, x.xs[i]) # <<>>
       THEN [ok |-> TRUE, items |-> [i \in DOMAIN x.xs |-> Str(v, x.xs[i])]]
       ELSE NoList
  ELSE IF x.k = "name" /\ x.n \in DOMAIN v.lists
  THEN [ok |-> TRUE, items |-> v.lists[x.n]] ELSE NoList
StringsOf(items) == SelectSeq(items, LAMBDA s : s # <<>>)

\* _resolve_dict_value: the values stay expressions.  A ** merge of something unknown
\* makes the whole dictionary unknown.
NoDict == [ok |-> FALSE, map |-> NoFun]
RECURSIVE DictValue(_, _)
DictValue(v, x) ==
  IF x.k = "name" /\ x.n \in DOMAIN v.dicts THEN [ok |-> TRUE, map |-> v.dicts[x.n]]
  ELSE IF x.k # "dict" THEN NoDict
  ELSE FoldLeft(LAMBDA acc, e :
         IF ~ acc.ok THEN acc
         ELSE IF e.key # "**" THEN [acc EXCEPT !.map = (<<e.key>> :> e.val) @@ @]
         ELSE LET nested == DictValue(v, e.val)
              IN IF nested.ok THEN [acc EXCEPT !.map = nested.map @@ @] ELSE NoDict,
         [ok |-> TRUE, map |-> NoFun], x.kvs)

\* _collect_dict_pairs: as above, but a literal loses what is not a constant key.
DictPairs(v, x) ==
  IF x.k = "dict"
  THEN DictValue(v, [x EXCEPT !.kvs = SelectSeq(@, LAMBDA e : e.key # "**")]).map
  ELSE IF x.k = "name" /\ x.n \in DOMAIN v.dicts THEN v.dicts[x.n] ELSE NoFun
IsEmptyDict(m) == DOMAIN m = {}

\* The entries of a dictionary argument whose values are known.
Known(v, map) ==
  LET keys == {key \in DOMAIN map : Str(v, map[key]) # <<>>}
  IN [key \in {k[1] : k \in keys} |-> Str(v, map[<<key>>])]
Expand(v, x) == Known(v, DictValue(v, x).map)

-----------------------------------------------------------------------------
\* _classify_unresolved and _RUNTIME_PATTERNS: [src, det] with src "" when x is a constant.
Classify(v, x) ==
  IF x.k = "name" /\ x.n \in DOMAIN v.runtime THEN v.runtime[x.n]
  ELSE IF x.k = "env" THEN [src |-> x.src, det |-> x.key]
  ELSE [src |-> IF x.k \in {"lit", "num"} THEN "" ELSE "dynamic", det |-> ""]

\* The argument's classification when it is not known, else none.
NoSource == [src |-> "", det |-> ""]
Unresolved(v, args, i) ==
  IF Len(args) < i \/ StrArg(v, args, i) # <<>> THEN NoSource ELSE Classify(v, args[i])
FirstSource(a, b) == IF a.src # "" THEN a ELSE b

\* _maybe_capture_string_constant: what n = x says of n, the first of a string, a
\* source, a list and a dictionary.  What n was before is not forgotten.
CaptureConstant(v, n, x) ==
  LET pairs == IF x.k = "dict" THEN DictPairs(v, x) ELSE NoFun IN
  IF Str(v, x) # <<>> THEN [v EXCEPT !.strings = (n :> Str(v, x)) @@ @]
  ELSE IF Classify(v, x).src \notin {"", "dynamic"}
  THEN [v EXCEPT !.runtime = (n :> Classify(v, x)) @@ @]
  ELSE IF ListValue(v, x).ok THEN [v EXCEPT !.lists = (n :> ListValue(v, x).items) @@ @]
  ELSE IF ~ IsEmptyDict(pairs) THEN [v EXCEPT !.dicts = (n :> pairs) @@ @]
  ELSE v

\* _record_dict_subscript_assign: n[key] = x.
SetDictItem(v, n, key, x) ==
  LET w == [v EXCEPT !.dicts = @ @@ (n :> NoFun)]
  IN IF Str(w, key) = <<>> THEN w
     ELSE [w EXCEPT !.dicts[n] = (Str(w, key) :> x) @@ @]

\* n.update(d, **e, k = x) on a tracked dictionary, in _visit_expression_stmt.
UpdateDict(v, n, step) ==
  LET into(u, pairs) == [u EXCEPT !.dicts[n] = pairs @@ @]
      w == IF step.args = <<>> THEN v ELSE into(v, DictPairs(v, step.args[1]))
  IN FoldLeft(LAMBDA u, kw :
       into(u, IF kw.key = "**" THEN DictPairs(u, kw.val) ELSE (<<kw.key>> :> kw.val)),
       w, step.kws)

-----------------------------------------------------------------------------
\* What .option(k, v) adds, and the keyword arguments of .option and .options.
OptionPair(v, step) ==
  LET key == StrArg(v, step.args, 1)
      val == StrArg(v, step.args, 2)
  IN IF step.m = "option" /\ key # <<>> /\ val # <<>> THEN (key[1] :> val) ELSE NoFun
OptionKeywords(v, step, splats) ==
  FoldLeft(LAMBDA o, kw :
    (IF kw.key # "**" THEN (IF Str(v, kw.val) # <<>> THEN kw.key :> Str(v, kw.val) ELSE NoFun)
     ELSE IF splats THEN Expand(v, kw.val) ELSE NoFun) @@ o,
    NoFun, step.kws)
OptionDict(v, step) ==
  IF step.m = "options" /\ step.args # <<>> THEN Expand(v, step.args[1]) ELSE NoFun

\* The 3rd argument and the properties of a .jdbc(url, table, properties) call.
JdbcArguments(v, step) ==
  (IF Len(step.args) >= 3 THEN Expand(v, step.args[3]) ELSE NoFun)
    @@ (IF StrArg(v, step.args, 2) = <<>> THEN NoFun ELSE "dbtable" :> StrArg(v, step.args, 2))
    @@ (IF StrArg(v, step.args, 1) = <<>> THEN NoFun ELSE "url" :> StrArg(v, step.args, 1))

\* _extract_partition_cols: literals, *names of lists and lists.
PartitionColumns(v, step) ==
  FlattenSeq([i \in DOMAIN step.args |->
    LET x == step.args[i] IN
    IF x.k = "star" THEN StringsOf(ListValue(v, x.x).items)
    ELSE IF x.k \in {"list", "tuple"} THEN StringsOf(ListValue(v, x).items)
    ELSE StringsOf(<<Str(v, x)>>)])

\* _qualify_table_name, with default_db "default": names with a dot stay as they are.
Qualify(name) == IF \E i \in DOMAIN name : name[i] \in Dotted THEN name
                 ELSE <<"default.">> \o name
=============================================================================
