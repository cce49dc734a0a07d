---------------------------- MODULE SparkFirstPass ----------------------------
(***************************************************************************)
(* The first pass of the Spark visitor over a module: its functions,       *)
(* classes, constants and imports, and which functions call themselves.    *)
(***************************************************************************)
EXTENDS SparkColumns

\* _maybe_record_hof_return: a function that returns a function it defines.
InnerDefs(fn) == SelectSeq(fn.body, LAMBDA st : st.s = "def")
ReturnedInner(fn) ==
  LET returned == {st.x.n : st \in {s \in ToSet(fn.body) : s.s = "return" /\ s.x.k = "name"}}
  IN SelectSeq(InnerDefs(fn), LAMBDA d : d.n \in returned)
CaptureFactory(v, fn) ==
  IF ReturnedInner(fn) = <<>> THEN v
  ELSE [v EXCEPT !.factories = (fn.n :> ReturnedInner(fn)[1]) @@ @]

\* The FunctionDef branch of visit_module's first pass, with _emit_udf.
CaptureFunction(v, fn) ==
  CaptureFactory([v EXCEPT !.functions = (fn.n :> fn) @@ @,
                           !.udfs = @ \cup (IF fn.deco \in {"udf", "pandas_udf"} THEN {fn.n} ELSE {})],
                 fn)

\* _capture_class: the attributes of a class see those before them by name, and the
\* constants of the module are as before afterwards.
CaptureAttribute(acc, st) ==
  IF st.s # "assign" THEN acc
  ELSE LET s == Str(acc.v, st.x)
       IN IF s # <<>>
          THEN [v |-> [acc.v EXCEPT !.strings = (st.n :> s) @@ @],
                attrs |-> (st.n :> s) @@ acc.attrs]
          ELSE IF ListValue(acc.v, st.x).ok
          THEN [acc EXCEPT !.v.lists = (st.n :> ListValue(acc.v, st.x).items) @@ @]
          ELSE acc
CaptureClass(v, c) ==
  LET methods == SelectSeq(c.body, LAMBDA st : st.s = "def")
      after == FoldLeft(LAMBDA acc, st : CaptureAttribute(acc, st),
                        [v |-> v, attrs |-> NoFun], c.body)
  IN [v EXCEPT
       !.methods = (c.n :> FoldLeft(LAMBDA ms, m : (m.n :> m) @@ ms, NoFun, methods)) @@ @,
       !.bases = (c.n :> c.bases) @@ @,
       !.attributes = (c.n :> after.attrs) @@ @]

\* _resolve_class_method: up the bases, the last one named first.
RECURSIVE MethodIn(_, _, _, _)
MethodIn(v, stack, seen, m) ==
  IF stack = <<>> THEN <<>>
  ELSE LET c == Last(stack)
           bases == SelectSeq(Get(v.bases, c), LAMBDA b : b \notin seen \cup {c})
       IN IF c \in seen THEN MethodIn(v, Front(stack), seen, m)
          ELSE IF c \in DOMAIN v.methods /\ m \in DOMAIN v.methods[c] THEN <<v.methods[c][m]>>
          ELSE MethodIn(v, Front(stack) \o bases, seen \cup {c}, m)
ClassMethod(v, c, m) == MethodIn(v, <<c>>, {}, m)

-----------------------------------------------------------------------------
\* _build_call_graph: every known function, by its bare name.
AllFunctions(v) ==
  v.externals @@ v.functions
    @@ FoldSet(LAMBDA c, ms : v.methods[c] @@ ms, NoFun, DOMAIN v.methods)
CallGraph(fns) ==
  UNION {{<<n, c.n>> : c \in {d \in CalledByBody(fns[n].body) : d.n \in DOMAIN fns \ {n}}}
           : n \in DOMAIN fns}
SelfCallers(fns) == {n \in DOMAIN fns : [n |-> n, bare |-> TRUE] \in CalledByBody(fns[n].body)}

\* visit: depth first from n.  A call of a function that is on the path marks both ends.
\* callees is the order in which Python goes through a set of names: it changes from one
\* process to the next, so it is a parameter.
\* (bug: a function is finished before the functions it calls are visited)
RECURSIVE ColourBlack(_, _, _, _)
ColourBlack(acc, graph, callees, n) ==
  LET step(a, c) ==
        CASE <<n, c>> \in graph /\ a.colour[c] = "grey" -> [a EXCEPT !.marked = @ \cup {n, c}]
          [] <<n, c>> \in graph /\ a.colour[c] = "white" -> ColourBlack(a, graph, callees, c)
          [] OTHER -> a
  IN FoldLeft(step, [acc EXCEPT !.colour[n] = "black"], callees)
RECURSIVE Colour(_, _, _, _)
Colour(acc, graph, callees, n) ==
  LET below(a, c) ==
        IF c \in a.marked /\ <<c, n>> \in graph THEN [a EXCEPT !.marked = @ \cup {n}] ELSE a
      step(a, c) ==
        CASE <<n, c>> \in graph /\ a.colour[c] = "grey" -> [a EXCEPT !.marked = @ \cup {n, c}]
          [] <<n, c>> \in graph /\ a.colour[c] = "white" -> below(Colour(a, graph, callees, c), c)
          [] OTHER -> a
  IN [FoldLeft(step, [acc EXCEPT !.colour[n] = "grey"], callees) EXCEPT !.colour[n] = "black"]
MarkCycles(names, graph, roots, callees, start) ==
  FoldLeft(LAMBDA acc, n : IF acc.colour[n] = "white" THEN Colour(acc, graph, callees, n) ELSE acc,
           [colour |-> [n \in names |-> "white"], marked |-> start], roots).marked

\* The functions in the order of all_fns: those of the module, the imported, the methods.
DefinedIn(body) == SelectSeq(body, LAMBDA st : st.s = "def")
Roots(v, body) ==
  LET names(defs) == [j \in DOMAIN defs |-> defs[j].n]
      classes == SelectSeq(body, LAMBDA st : st.s = "class")
      methods == FlattenSeq([j \in DOMAIN classes |-> names(DefinedIn(classes[j].body))])
  IN names(DefinedIn(body)) \o SetToSeq(DOMAIN v.externals) \o methods
FindRecursive(v, body, callees) ==
  LET fns == AllFunctions(v)
  IN [v EXCEPT !.recursive = MarkCycles(DOMAIN fns, CallGraph(fns), Roots(v, body), callees,
                                         SelfCallers(fns))]

\* visit_module, its first pass.
Scan(v, st) ==
  CASE st.s = "def" -> CaptureFunction(v, st)
    [] st.s = "class" -> CaptureClass(v, st)
    [] st.s = "assign" -> CaptureConstant(v, st.n, st.x)
    [] st.s = "import" -> [v EXCEPT !.imports = @ \o st.raws]
    [] OTHER -> v
FirstPass(v, body, callees) ==
  FindRecursive(FoldLeft(LAMBDA acc, st : Scan(acc, st), v, body), body, callees)
=============================================================================
