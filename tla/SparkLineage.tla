----------------------------- MODULE SparkLineage -----------------------------
(***************************************************************************)
(* What a parse promises: its lineage is that of the executions of the     *)
(* script, and where it cannot be, the parse says so.                      *)
(***************************************************************************)
EXTENDS SparkScript, SparkMeaning

CONSTANTS
  EndpointOf,        \* the text a connection is made of -> the addresses it names
  ExecutionsOf(_, _) \* the executions of a script: Executions of SparkMeaning

Asked(check) == phase = "done" /\ check \in job.checks
MainPath == IF IsProject THEN job.entry ELSE SinglePath
Main == (CHOOSE r \in ToSet(parsed) : r.path = MainPath).v
Shown(w) == {i \in ToSet(w.ir) : w.heap[i].anchor}

\* The script as it runs: the Python of a notebook with its SQL cells in their places.
SqlBody(text) == <<Do(Chain(Nm("spark"), <<M("sql", <<Lit(text[1])>>)>>))>>
CellBody(c) ==
  IF ~ c.code THEN <<>>
  ELSE IF c.text # <<>> THEN SqlBody(c.text)
  ELSE FlattenSeq([j \in DOMAIN c.lines |-> IF c.lines[j].k = "python" THEN <<c.lines[j].st>> ELSE <<>>])
MainBody ==
  IF IsProject THEN ModuleAt(MainPath).body
  ELSE CASE DetectFormat(job.file) = "sparksql" -> SqlBody(job.file.text)
         [] DetectFormat(job.file) = "pyspark" -> job.file.body
         [] OTHER -> FlattenSeq([j \in DOMAIN job.file.cells |-> CellBody(job.file.cells[j])])
Runs == ExecutionsOf(MainBody, job.truth)
TheRun == CHOOSE e \in Runs : TRUE

\* What is reached from the members of a set by one or more of the pairs of a relation.
Onward(from, pairs) == {p[2] : p \in {q \in pairs : q[1] \in from}}
ReachedFrom(from, pairs) ==
  FoldLeft(LAMBDA acc, n : acc \cup Onward(acc, pairs), Onward(from, pairs),
           [n \in 1..Cardinality(pairs) |-> n])

Label(t) == First(t.fqn, t.loc)
Labels(tables) == {Label(t) : t \in tables}

-----------------------------------------------------------------------------
\* Every table an execution of the script writes is recorded as written, with the mode,
\* nothing else is, and the tables it is computed from are those its DataFrame reads:
\* through reassignment, functions, views, SQL, readers and writers kept in variables,
\* branches, loops, imports and cells.
LineageExact ==
  Asked("lineage") =>
    LET frames == {Main.heap[i] : i \in Shown(Main)}
    IN /\ UNION {{<<w.to, w.mode>> : w \in e.writes} : e \in Runs}
            = UNION {{<<Label(w.to), w.mode>> : w \in ToSet(df.writes)} : df \in frames}
       /\ UNION {UNION {{<<w.to, s.label>> : s \in w.src} : w \in e.writes} : e \in Runs}
            = UNION {{<<Label(w.to), l>> : w \in ToSet(df.writes), l \in Labels(df.reads)}
                       : df \in frames}

\* Every version of every variable has a DataFrame of its own that is shown; it reads what
\* that version is computed from, lists the methods applied since the versions it derives
\* from in the order of the script, names exactly these versions as its inputs, and has
\* the columns it then has, each derived from the columns it is made of.
MadeOf(df, c) ==
  LET how == {d \in df.derivations : d.to = c /\ d.via # "withColumn_shadow"}
  IN IF how = {} THEN {c} ELSE UNION {d.from : d \in how}
FramesExact ==
  Asked("frames") =>
    \A version \in DOMAIN TheRun.made :
      LET value == TheRun.made[version]
          hits == {i \in ToSet(Main.ir) : FrameId(Main.heap[i]) = version}
          df == Main.heap[CHOOSE i \in hits : TRUE]
      IN /\ Cardinality(hits) = 1 /\ df.anchor
         /\ Labels(df.reads) = {s.label : s \in value.src}
         /\ [j \in DOMAIN df.chain |-> df.chain[j].op] = value.ops
         /\ ToSet(df.inputs) = value.from
         /\ value.cols # NoFun => /\ ToSet(df.fields) = DOMAIN value.cols
                                 /\ \A c \in DOMAIN value.cols : MadeOf(df, c) = value.cols[c]

\* Whatever the script: no two DataFrames share an id, one that is not shown keeps no
\* write to itself, and the inputs of one that is shown are shown and come before it, as
\* the writer needs them to (IsFrame of SparkGraph).
ShownWhole ==
  \A r \in ToSet(parsed) :
    LET ir == r.v.ir
        heap == r.v.heap
        shownBefore(k) == {FrameId(heap[ir[j]]) : j \in {i \in 1..(k - 1) : heap[ir[i]].anchor}}
    IN /\ Cardinality({FrameId(heap[i]) : i \in ToSet(ir)}) = Len(ir)
       /\ \A i \in ToSet(ir) : heap[i].writes # <<>> => heap[i].anchor
       /\ \A k \in DOMAIN ir : heap[ir[k]].anchor => ToSet(heap[ir[k]].inputs) \subseteq shownBefore(k)

\* Two reads that name the same addresses are of one Connection node, in whatever order
\* and case they spell the hosts, with the default port or without, and two that have no
\* address in common are of two.  Nothing is asked of lists that overlap, and localhost
\* has its aliases only where it is the one host: in a list the code sorts them as spelled.
OneEndpointOneNode ==
  Asked("endpoints") =>
    LET version(i) == FrameId(Main.heap[i])
        reads == {i \in Shown(Main) : Cardinality(Main.heap[i].reads) = 1}
        node(i) == ConnectionId((CHOOSE t \in Main.heap[i].reads : TRUE).conn)
        addresses(i) == EndpointOf[(CHOOSE s \in TheRun.made[version(i)].src : TRUE).site]
    IN \A i, j \in reads :
         /\ addresses(i) = addresses(j) => node(i) = node(j)
         /\ addresses(i) \cap addresses(j) = {} => node(i) # node(j)

\* A table, path or URL only the environment knows is never passed over: its read or write
\* has an unresolved connection, or its DataFrame is partial and there is a warning.  And
\* only then.
Doubtful(df) ==
  \/ \E t \in df.reads \cup {w.to : w \in ToSet(df.writes)} : ~ t.conn.resolved
  \/ df.partial
Guessed(s) == IsUnknown(s.label) \/ IsUnknown(s.site)
UnknownIsSaid ==
  Asked("unknown") =>
    /\ \A version \in DOMAIN TheRun.made :
         LET value == TheRun.made[version]
             hits == {i \in Shown(Main) : FrameId(Main.heap[i]) = version}
             written == \E w \in TheRun.writes : IsUnknown(w.to) /\ w.src = value.src
         IN \A i \in hits : Doubtful(Main.heap[i]) <=> (\E s \in value.src : Guessed(s)) \/ written
    /\ (\E i \in Shown(Main) : Main.heap[i].partial) => Main.warnings # <<>>

\* When the executions disagree on what a variable is computed from, when one of them runs
\* what is only put together then, or when the cells of a notebook did not run in their
\* order, its DataFrame is conditional or partial.
Shuffled(cells) ==
  \E i, j \in {n \in DOMAIN cells : CellBody(cells[n]) # <<>> /\ cells[n].count # 0} :
    i < j /\ cells[i].count > cells[j].count
DoubtIsMarked ==
  Asked("doubt") =>
    \A n \in DOMAIN Main.symbols :
      LET df == Main.heap[Main.symbols[n]]
          values == {{s.label : s \in e.vars[n].src} : e \in {x \in Runs : n \in DOMAIN x.vars}}
      IN \/ Cardinality(values) > 1
         \/ \E e \in Runs : e.wild
         \/ IsNotebook /\ Shuffled(job.file.cells)
         => df.conditional \/ df.partial

\* Whatever the order in which Python goes through a set of names: only functions that
\* call themselves, directly or through others, are refused, and as all such cycles are
\* cut the depth limit of the inlining is never what stops it.
CyclesCut ==
  "cycles" \in job.checks =>
    LET names == DOMAIN job.truth
        calls == {p \in names \X names : p[2] \in job.truth[p[1]]}
        circular == {f \in names : f \in ReachedFrom({f}, calls)}
    IN /\ v.recursive \subseteq circular
       /\ ~ Contains(v.warnings, "recursion_capped")

\* A statement binds the names it assigns and no others: whatever the functions it calls
\* assign, and wherever their inlining is refused, the caller's frames and constants are as
\* before and the depth is back at 0.
Assigns(st) ==
  {s.n : s \in {t \in ToSet(Statements(<<st>>)) : t.s = "assign"}}
    \cup UNION {ToSet(s.ns) : s \in {t \in ToSet(Statements(<<st>>)) : t.s = "tuple"}}
NamesRestored ==
  [][VisitStatement =>
       /\ v'.depth = 0
       /\ \A n \in (DOMAIN v.symbols \cup DOMAIN v'.symbols) \ Assigns(Head(todo)) :
            /\ n \in DOMAIN v.symbols /\ n \in DOMAIN v'.symbols
            /\ v.symbols[n] = v'.symbols[n]
       /\ \A n \in (DOMAIN v.strings \cup DOMAIN v'.strings) \ Assigns(Head(todo)) :
            n \in DOMAIN v.strings /\ n \in DOMAIN v'.strings /\ v.strings[n] = v'.strings[n]]_vars

\* A project's modules are files Python loads when it runs the entry, each parsed once
\* however its imports go in circles.  Of the files a module loads none is left out without
\* a warning, but for the packages on the way to what it names, which it does not name
\* itself.  The import edges lead from each module to the files it names, also to those
\* that the depth limit left out.
DiscoveryExact ==
  IsProject /\ phase = "done" =>
    LET paths == {r.path : r \in ToSet(parsed)}
        imports(p) == ToSet(RawImports(job.tree.files[p].body))
        pairs(files(_, _, _)) ==
          UNION {{<<p, q>> : q \in UNION {files(job.tree, p, raw) : raw \in imports(p)}}
                   : p \in DOMAIN job.tree.files}
        loads == pairs(Loaded)
        names == pairs(Imported)
        edges == UNION {ToSet(r.edges) : r \in ToSet(parsed)}
    IN /\ Cardinality(paths) = Len(parsed)
       /\ paths \subseteq {job.entry} \cup ReachedFrom({job.entry}, loads)
       /\ \A l \in loads : l[1] \in paths /\ l[2] \notin paths =>
            \/ Contains(found.warnings, "import_depth_exceeded")
            \/ Last(l[2]) = "__init__" /\ l \notin names
       /\ {<<e.from, e.to>> : e \in {x \in edges : x.to # NoPath}} = {l \in names : l[1] \in paths}
=============================================================================
