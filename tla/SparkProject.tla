----------------------------- MODULE SparkProject -----------------------------
(***************************************************************************)
(* Projects of several files (project/project_parser.py and                *)
(* project/module_resolver.py): which files an entry script reaches by its *)
(* imports, and which functions each of them can call.                     *)
(*                                                                         *)
(* A path is the sequence of its names, the last one the name of the       *)
(* module; the file of a package is named __init__.  A tree is             *)
(* [files, roots]: the module at each path that has a file, and the        *)
(* directories searched, the project's root first.                         *)
(***************************************************************************)
EXTENDS SparkCollapse

\* A file Python can parse, and one it cannot.
Module(body) == [broken |-> FALSE, body |-> body]
Broken == [broken |-> TRUE, body |-> <<>>]

NoPath == <<>>
FileIn(tree, paths) ==
  LET hits == SelectSeq(paths, LAMBDA p : p \in DOMAIN tree.files)
  IN IF hits = <<>> THEN NoPath ELSE hits[1]

\* _lookup_under and _lookup_dotted: a module comes before a package of its name.
LookupUnder(tree, dir, parts) ==
  FileIn(tree, IF parts = <<>> THEN <<dir \o <<"__init__">>>>
               ELSE <<dir \o parts, dir \o parts \o <<"__init__">>>>)
ResolveAbsolute(tree, dotted) ==
  IF dotted = <<>> THEN NoPath
  ELSE LET hits == SelectSeq([i \in DOMAIN tree.roots |-> LookupUnder(tree, tree.roots[i], dotted)],
                             LAMBDA p : p # NoPath)
       IN IF hits = <<>> THEN NoPath ELSE hits[1]

\* resolve_relative and _is_within_project: up level - 1 directories from the file's own.
ResolveRelative(tree, from, level, module) ==
  LET up == Len(from) - level
      anchor == SubSeq(from, 1, up)
  IN IF up < 0 \/ ~ \E r \in ToSet(tree.roots) : IsPrefix(r, anchor) THEN NoPath
     ELSE LookupUnder(tree, anchor, module)

\* _resolve_raw_import: what is imported from a package may be one of its modules.
Resolve(tree, from, level, dotted) ==
  IF level > 0 THEN ResolveRelative(tree, from, level, dotted) ELSE ResolveAbsolute(tree, dotted)
ResolveRaw(tree, from, raw) ==
  LET submodule == Resolve(tree, from, raw.level, raw.module \o raw.original)
  IN IF raw.kind = "from" /\ submodule # NoPath THEN submodule
     ELSE Resolve(tree, from, raw.level, raw.module)

\* _extract_raw_imports and collect_top_level_functions.
RawImports(body) ==
  FlattenSeq([i \in DOMAIN body |-> IF body[i].s = "import" THEN body[i].raws ELSE <<>>])
TopLevelFunctions(body) == FoldLeft(LAMBDA fns, d : (d.n :> d) @@ fns, NoFun, DefinedIn(body))

-----------------------------------------------------------------------------
\* _discover: depth first through the imports; p is [order, warnings], order the files
\* found so far.
\* (bug: a file is marked only once its imports were followed)
RECURSIVE DiscoverLate(_, _, _, _, _)
DiscoverLate(tree, maxDepth, p, path, depth) ==
  LET raws == RawImports(tree.files[path].body)
      follow(q, raw) ==
        LET target == ResolveRaw(tree, path, raw)
        IN IF target = NoPath THEN q ELSE DiscoverLate(tree, maxDepth, q, target, depth + 1)
      below == FoldLeft(follow, p, raws)
  IN IF Contains(p.order, path) THEN p
     ELSE IF depth > maxDepth THEN [p EXCEPT !.warnings = Append(@, "import_depth_exceeded")]
     ELSE [below EXCEPT !.order = Append(@, path)]
RECURSIVE Discover(_, _, _, _, _)
Discover(tree, maxDepth, p, path, depth) ==
  LET raws == RawImports(tree.files[path].body)
      follow(q, raw) ==
        LET target == ResolveRaw(tree, path, raw)
        IN IF target = NoPath THEN q ELSE Discover(tree, maxDepth, q, target, depth + 1)
  IN IF Contains(p.order, path) THEN p
     ELSE IF depth > maxDepth THEN [p EXCEPT !.warnings = Append(@, "import_depth_exceeded")]
     ELSE IF path \notin DOMAIN tree.files
     THEN [p EXCEPT !.warnings = Append(@, "import_target_missing")]
     ELSE FoldLeft(follow, [p EXCEPT !.order = Append(@, path)], raws)

\* _build_external_fn_table: the functions a file imports by name from a file found.  A
\* module imported as a whole gives none, nor does a package that imports them itself.
Externals(tree, order, path) ==
  LET bind(fns, raw) ==
        LET target == ResolveRaw(tree, path, raw)
            defined == IF Contains(order, target) THEN TopLevelFunctions(tree.files[target].body)
                       ELSE NoFun
        IN IF raw.kind # "from" \/ raw.original[1] \notin DOMAIN defined THEN fns
           ELSE (raw.symbol :> defined[raw.original[1]]) @@ fns
  IN FoldLeft(bind, NoFun, RawImports(tree.files[path].body))

\* The import edges of a parsed file, and the file each leads to.
ImportEdges(tree, path, v) ==
  [j \in DOMAIN v.imports |-> [from |-> path, symbol |-> v.imports[j].symbol,
                               to |-> ResolveRaw(tree, path, v.imports[j])]]
=============================================================================
