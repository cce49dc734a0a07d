------------------------------- MODULE SparkSql -------------------------------
(***************************************************************************)
(* The lineage of Spark SQL texts: their tables and their columns.         *)
(*                                                                         *)
(* Sql gives the statements sqlglot parses a text into; a text it cannot   *)
(* parse is not in its domain.  A statement is                             *)
(*   [kind, target, columns, ctes, recursive, query, sets]                 *)
(* kind select, table (CREATE TABLE AS), view, insert or merge; columns    *)
(* the column list of an INSERT; a common table expression is [n, query];  *)
(* sets are the assignments [to, from] of a MERGE's updates.  A query is   *)
(* [items, from, laterals]; an item of its SELECT is [to, from, over, sub],*)
(* over whether it has a window, sub <<>> or the one subquery              *)
(* [from, refs] in it, refs the tables its columns are qualified with; a   *)
(* lateral view is [to, from, outer].  Table names differ in more than     *)
(* their case.                                                             *)
(***************************************************************************)
EXTENDS SparkConnectors

CONSTANT Sql

Item(to, from) == [to |-> to, from |-> from, over |-> FALSE, sub |-> <<>>]
Query(items, from) == [items |-> items, from |-> from, laterals |-> <<>>]
Statement(kind, target, ctes, query) ==
  [kind |-> kind, target |-> target, columns |-> <<>>, ctes |-> ctes, recursive |-> FALSE,
   query |-> query, sets |-> <<>>]
With1(n, query) == [n |-> n, query |-> query]

\* _collect_ctes, over all the statements of the text.
CteNames(trees) == UNION {{c.n : c \in ToSet(t.ctes)} : t \in ToSet(trees)}

\* _find_targets and every Table node of a statement.
Queries(t) == {t.query} \cup {c.query : c \in ToSet(t.ctes)}
Targets(t) == IF t.kind = "select" THEN {} ELSE {t.target}
TablesIn(t) ==
  Targets(t) \cup UNION {ToSet(q.from)
    \cup UNION {UNION {ToSet(s.from) : s \in ToSet(i.sub)} : i \in ToSet(q.items)}
      : q \in Queries(t)}

\* extract_lineage's loop: the tables of a statement that are no earlier target.
Gather(trees) ==
  FoldLeft(LAMBDA acc, t :
    LET targets == acc.targets \cup Targets(t)
    IN [targets |-> targets,
        sources |-> acc.sources \cup (TablesIn(t) \ (CteNames(trees) \cup targets))],
    [targets |-> {}, sources |-> {}], trees)

\* _classify_projection_via and _is_correlated.
ItemVia(i) ==
  IF i.over THEN "window"
  ELSE IF i.sub = <<>> THEN "select"
  ELSE IF i.sub[1].refs \subseteq ToSet(i.sub[1].from) THEN "scalar_subquery"
  ELSE "correlated_subquery"

\* _extract_derivations, _projection_to_derivation and _maybe_extract_insert_columns.
SqlDerivations(t) ==
  (IF t.recursive
   THEN {Derivation(i.to, {i.to}, "recursive_cte")
           : i \in UNION {ToSet(c.query.items) : c \in ToSet(t.ctes)}}
   ELSE {})
  \cup {Derivation(i.to, i.from, ItemVia(i)) : i \in UNION {ToSet(q.items) : q \in Queries(t)}}
  \cup {Derivation(l.to, l.from, IF l.outer THEN "lateral_view_outer" ELSE "lateral_view")
          : l \in UNION {ToSet(q.laterals) : q \in Queries(t)}}
  \cup {Derivation(s.to, s.from, "merge_update") : s \in ToSet(t.sets)}
  \cup {Derivation(t.columns[j], t.query.items[j].from, "insert")
          : j \in DOMAIN t.columns \cap DOMAIN t.query.items}

\* extract_lineage.
SqlLineage(text) ==
  LET trees == IF text \in DOMAIN Sql THEN Sql[text] ELSE <<>>
  IN [targets |-> Gather(trees).targets, sources |-> Gather(trees).sources,
      derivations |-> UNION {SqlDerivations(t) : t \in ToSet(trees)}]
=============================================================================
