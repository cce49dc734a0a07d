---------------------------- MODULE SparkCollapse ----------------------------
(***************************************************************************)
(* What follows the visits of a Spark script.  The third pass: the frames  *)
(* a reader of the graph sees are the anchors; the frames in between give  *)
(* them their steps, their inputs and their writes.  Then the scan for     *)
(* what Python decides only as it runs (runtime_dynamic.py): it warns, and *)
(* marks every frame of the script partial.  An f-string is a cat;         *)
(* locals()[k] = x is a SetItem of the name "locals()".                    *)
(***************************************************************************)
EXTENDS SparkVisitor

\* by_id and by_var, and _resolve_edge: the frame an edge comes from, or 0.
FrameOf(v, id) ==
  LET hits == {i \in ToSet(v.ir) : FrameId(v.heap[i]) = id}
  IN IF hits = {} THEN 0 ELSE CHOOSE i \in hits : TRUE
FirstNamed(v, name) ==
  LET hits == SelectSeq(v.ir, LAMBDA i : v.heap[i].var = name)
  IN IF hits = <<>> THEN 0 ELSE hits[1]
\* (bug: an edge is resolved by its name only, to the first frame of it)
ResolveByName(v, e) == IF e.var = "" THEN 0 ELSE FirstNamed(v, e.var)
ResolveEdge(v, e) ==
  IF e.id # NoId /\ FrameOf(v, e.id) # 0 THEN FrameOf(v, e.id)
  ELSE IF e.var = "" THEN 0 ELSE FirstNamed(v, e.var)

\* Steps 1 and 2 of _collapse_to_anchors: a frame is an anchor when it has a name, when
\* it is the direct result of a read, when a view shows it and when two edges come from it.
Consumers(v, name) ==
  FoldSeq(LAMBDA i, n : n + Len(SelectSeq(v.heap[i].edges, LAMBDA e : e.var = name)), 0, v.ir)
IsAnchor(v, i) ==
  LET df == v.heap[i]
  IN \/ ~ df.anonymous
     \/ df.reads # {} /\ df.edges = <<>>
     \/ i \in {v.views[n] : n \in DOMAIN v.views}
     \/ Consumers(v, df.var) >= 2
MarkAnchors(v) ==
  FoldLeft(LAMBDA u, i : [u EXCEPT !.heap[i].anchor = IsAnchor(v, i)], v, v.ir)

\* _first_upstream_anchor: the last frame pushed is looked at first.
RECURSIVE Upstream(_, _, _)
Upstream(v, stack, seen) ==
  IF stack = <<>> THEN 0
  ELSE LET edges == v.heap[Last(stack)].edges
           found == [j \in DOMAIN edges |-> ResolveEdge(v, edges[j])]
           new == {j \in DOMAIN found : /\ found[j] \notin seen \cup {0}
                                        /\ \A k \in 1..(j - 1) : found[k] # found[j]}
           anchors == {j \in new : v.heap[found[j]].anchor}
           pushed == [k \in 1..Cardinality(new) |->
                        found[CHOOSE j \in new : Cardinality({h \in new : h <= j}) = k]]
       IN IF anchors # {} THEN found[CHOOSE j \in anchors : \A k \in anchors : j <= k]
          ELSE Upstream(v, Front(stack) \o pushed, seen \cup ToSet(pushed))
\* Step 3: what a frame in between writes, its upstream anchor writes.
\* (bug: the writes stay where they are, on a frame that is not shown)
MigrateNone(v, i) == v
Migrate(v, i) ==
  LET to == Upstream(v, <<i>>, {i})
  IN IF v.heap[i].anchor \/ v.heap[i].writes = <<>> \/ to = 0 THEN v
     ELSE [v EXCEPT !.heap[to].writes = @ \o v.heap[i].writes, !.heap[i].writes = <<>>]

\* _walk_back_to_anchor: acc is [seen, prefix, inputs].
WriterVias == {"write", "writeStream", "format", "mode", "option", "options", "partitionBy",
               "outputMode", "queryName", "trigger", "foreachBatch"}
RECURSIVE WalkBack(_, _, _)
WalkBack(v, acc, e) ==
  LET i == ResolveEdge(v, e)
      next == [acc EXCEPT !.seen = @ \cup {i}]
      steps == SelectSeq(v.heap[i].chain, LAMBDA s : s.op \notin WriterVias)
  IN IF i \in acc.seen \cup {0} THEN acc
     ELSE IF v.heap[i].anchor
     THEN [next EXCEPT !.inputs = Append(@, FrameId(v.heap[i]))]
     ELSE FoldLeft(LAMBDA a, f : WalkBack(v, a, f), [next EXCEPT !.prefix = steps \o @],
                   v.heap[i].edges)
Fold(v, i) ==
  LET w == FoldLeft(LAMBDA a, e : WalkBack(v, a, e),
                    [seen |-> {i}, prefix |-> <<>>, inputs |-> <<>>], v.heap[i].edges)
  IN [v EXCEPT !.heap[i].chain = w.prefix \o @, !.heap[i].inputs = w.inputs]

\* _collapse_to_anchors.
Collapse(v) ==
  LET marked == MarkAnchors(v)
      moved == FoldLeft(LAMBDA u, i : Migrate(u, i), marked, v.ir)
  IN FoldLeft(LAMBDA u, i : IF u.heap[i].anchor THEN Fold(u, i) ELSE u, moved, v.ir)

-----------------------------------------------------------------------------

SqlNames == {"sql", "query", "stmt", "statement", "q", "ddl"}
SparkMethods ==
  {"read", "write", "table", "sql", "select", "join", "filter", "withColumn",
   "withColumnRenamed", "groupBy", "agg", "union", "unionByName", "saveAsTable",
   "insertInto", "save", "createOrReplaceTempView"}

\* _maybe_warn_sql_template: a piece that is no constant the scan has met.
IsTemplate(x, constants) ==
  x.k = "cat" /\ \E y \in ToSet(x.xs) :
    y.k # "lit" /\ ~ (y.k = "name" /\ y.n \in constants)

\* visit_Call: eval, exec, setattr, getattr and the text given to .sql of a name.
DynamicCall(x, constants) ==
  \/ x.k = "fn" /\ x.f \in {"eval", "exec"}
  \/ x.k = "fn" /\ x.f \in {"setattr", "getattr"} /\ Len(x.args) >= 2 /\ x.args[2].k # "lit"
  \/ /\ x.k = "chain" /\ x.root.k = "name"
     /\ x.steps[1].m = "sql" /\ x.steps[1].args # <<>>
     /\ IsTemplate(x.steps[1].args[1], constants)

\* _is_literal_iterable, _body_touches_spark and visit_For.
IsLiteralIterable(x) ==
  \/ x.k \in {"list", "tuple", "lit"}
  \/ x.k = "fn" /\ x.f = "range" /\ \A y \in ToSet(x.args) : y.k \in {"lit", "num"}
AttributesIn(body) ==
  UNION {IF x.k = "attr" THEN {x.a}
         ELSE IF x.k = "chain" THEN {st.m : st \in ToSet(x.steps)} ELSE {}
           : x \in ToSet(Expressions(body))}
DynamicLoop(st) ==
  st.s = "for" /\ ~ IsLiteralIterable(st.it) /\ AttributesIn(st.a) \cap SparkMethods # {}

\* visit_Assign: a text put together under a name of SQL, and a name made at run time.
DynamicBinding(st, constants) ==
  \/ st.s = "setitem" /\ st.n \in {"locals()", "globals()"}
  \/ st.s = "assign" /\ st.n \in SqlNames /\ IsTemplate(st.x, constants)

\* scan: how often it warns, the statements taken in source order.
Findings(body) ==
  LET all == Statements(body)
      constants(j) == {all[i].n : i \in {h \in 1..j : all[h].s = "assign" /\ all[h].x.k = "lit"}}
      calls(j) == SelectSeq(WalkAll(ExpressionsOf(all[j])), LAMBDA x : DynamicCall(x, constants(j)))
      count(j) == Len(calls(j)) + (IF DynamicLoop(all[j]) THEN 1 ELSE 0)
                    + (IF DynamicBinding(all[j], constants(j)) THEN 1 ELSE 0)
  IN FoldLeft(LAMBDA n, j : n + count(j), 0, UpTo(Len(all)))
RuntimeDynamic(v, body) ==
  LET marked == FoldLeft(LAMBDA u, i : [u EXCEPT !.heap[i].partial = TRUE], v, v.ir)
  IN IF Findings(body) = 0 THEN v
     ELSE [marked EXCEPT !.warnings = @ \o [j \in 1..Findings(body) |-> "runtime_dynamic"]]
=============================================================================
