# Ariadne lineage platform: specification, model checking, proofs

TLA+ modules for the parts of the Ariadne lineage platform that change state
or decide what ends up in the lineage graph, the TLC configurations that check
them on small instances, and theorems about them checked by TLAPS for every
value of the constants. Paths below are relative to the repository root; `gw/`
stands for `lineage-platform/apps/gateway/src/lineage_gateway/`, `tws/` for
`tws-parser/src/tws_parser/`, `spark/` for `spark-parser/src/spark_parser/`.

    tlc -config Projects.cfg Projects.tla                   # one run
    tlapm Projects_proofs.tla                               # one proof module

`PROJECT.json` lists the components, the runs, a mutant per checked property
(a plausible bug that makes the property fail), the map from definitions to
source lines, the hazards and the theorems.

## 1. The system

Four parsers (TWS, QlikView, Spark, Tableau) are HTTP services. Each turns
source files of its tool into nodes and edges of one shared Neo4j graph; the TWS
parser also mirrors its jobs into Postgres. A FastAPI gateway takes uploads,
saves them to a shared directory, calls the parsers with the *path*, groups what
came back into named projects kept in Postgres, lists and deletes parsed files,
and answers graph queries. A Next.js frontend draws the graph. A package of
contracts (labels, id rules, error envelope, DDL) is what the parsers agree on.

Nothing spans the stores: a request is a sequence of autocommitted statements
or one-statement transactions against Postgres and Neo4j, and no request locks
out another. The handlers are `async`, so two of them interleave wherever one
awaits; the parsers' handlers block their thread, so two of them interleave as
threads or as processes. Whatever is right has to be right between any two
statements.

### Inventory

| Component | State | Operations | What makes it correct | Module |
|---|---|---|---|---|
| Project store (`gw/projects.py`, `gw/postgres_client.py`) | tables `projects`, `project_files`; a pool of five connections | list, create, get-or-create + attach + count (of an upload), detail, delete | one project a name; no row without its project; an answer stays true; nobody deadlocks on the pool; behaves as one registry | `Projects`, `ProjectRegistry`, `Projects_proofs` |
| Upload and parse proxy (`gw/parse_proxy.py`) | the upload directory; calls in flight with a timeout each | `/parse`, `/parse/upload`, `/parse/upload/multi`, `/parse/upload/auto` | what is reported parsed is in the graph, what is refused leaves nothing, every upload is answered, a batch is grouped whole or not | `Uploads`, `BatchIntoProject`, `Uploads_proofs`, `BatchIntoProject_proofs` |
| TWS parser API and writers (`tws/api/routes.py`, `tws/graph`, `tws/rdbms`) | its part of the graph; tables `tws.*` | `/parse`, `/parse/multi`, `/parse/preview`, overwrite | a file that is done is whole whoever else writes; re-parsing changes nothing; an overwrite replaces; Postgres is not ahead | `PropertyGraph`, `GraphWriter`, `TwsIngest`, `PropertyGraph_proofs`, `TwsIngest_proofs` |
| TWS dependency resolution (`tws/parser/dependencies.py`) | none: a function of the parsed unit | `resolve_full`, the older `resolve` | internal names stay in their stream; what does not resolve is a warning, never an edge | `TwsTopology` |
| TWS multi-file merge (`tws/parser/merge.py`, `tws/parser/orchestrator.py`) | the merged unit and the provenance during a request | `merge_units`, per-file and cross-file report | the merged unit is the union, provenance is exact, one warning a divergence, each file reported as `/parse` reports it | `TwsMulti`, `TwsMulti_proofs` |
| File catalogue and delete (`gw/files_routes.py`) | none of its own; deletes from the graph | list, summary, source, delete, bulk delete | shared labels survive, a deleted file is gone, every item of a batch is settled, a listed file can be deleted | `FileDelete`, `FileDelete_proofs` |
| Graph queries and presets (`gw/graph_routes.py`, `gw/cypher_guard.py`, `gw/presets`) | none | read-only Cypher | each is one read | not modelled |
| TWS grammar, visitor, XML export reader | none | text to unit | the grammar's | not modelled: input of the others |
| TWS run cycles and time windows | none | string to record | pure functions | planned |
| Spark parser (`spark/pyspark/visitor.py`, `spark/connectors`, `spark/sparksql`, `spark/input`, `spark/main.py`) | the visitor of one script: the frames so far, names, constants, views, the call graph | first pass, one visit a statement, collapse to anchors, scan for what is dynamic; notebooks and SQL files | the lineage is that of the executions; every version of a name is its own frame; what is not known is said; an inlined call leaves no trace in the caller | `SparkSyntax` to `SparkScript`, `SparkMeaning`, `SparkLineage` |
| Spark projects (`spark/project`) | the files found, the functions of each | discovery, import resolution, table of imported functions | each file once, whichever way imports go round; an edge for every import | `SparkProject`, `SparkScript` |
| QlikView, Tableau parsers | none, or a cache per request | text to unit | resolution of variables, control flow, calculations | planned |
| QlikView, Spark, Tableau graph writers (`*/graph/writer.py`, `*/ids.py`) | their part of the graph | MERGE and MATCH-MERGE statements, overwrite, purge | what a parse means to write lands, what it replaces goes, what others wrote stays, one node a table | `WriterPlans`, `SparkGraph`, `QlikGraph`, `TableauGraph`, `Writers`, `Writers_proofs` |
| Spark runtime evidence (`spark/runtime/`) | none | Delta log and event log replay | the last commit wins | planned |
| Frontend | React state, fetches in flight | select, expand, filter, delete | an answer that arrives late is not shown for what is selected now | planned |
| Contracts, DDL, deployment, documentation | none | declarations | used by the statements that rely on them | not modelled |

### How the parts interact

    client --upload--> parse proxy --path--> parsers --statements--> Neo4j
                            |                   '--rows (TWS)------> Postgres tws.*
                            |--node ids of the "ok" files--> project store --> Postgres
                            '--INVOKES_FILE stitch-----------------> Neo4j
    client --delete--> file catalogue --walk--> Neo4j
    client --create, read, delete--> project store

    Spark parser: file -> cells, syntax tree -> first pass -> visit, statement by statement
                  -> collapse to anchors -> dynamic scan -> frames -> graph writer

* The proxy and the parsers share the *file system*: the call carries a path, so
  a parser reads whatever is at the path when it gets there.
* The proxy waits for a parser a limited time; the parser never learns that the
  proxy gave up and writes all the same. The fallback of `/parse/upload/auto`
  then sends the files again, one by one.
* The proxy and the project store share ids: the node ids that go into
  `project_files` are those the parsers reported. No foreign key ties them to
  the graph.
* The parsers and the delete share nodes: `MERGE` makes two files that name one
  stream, script or table meet in one node.
* Spark, QlikView and Tableau share `:Table` nodes, merged on a name and matched, by Spark,
  on an id that whoever wrote last may have set.

### What is hard here

`PROJECT.json` lists each hazard at its line. By kind:

* *interleaving*: look-up then insert of a project name; two parses of one stream;
  a parse beside an overwrite; two deletes of one file; a table merged on its name
  and matched on its id two statements later.
* *stale state*: a project id used one connection block after it was looked up; two
  snapshots in one project detail; a label looked up before the delete; a path
  whose bytes a namesake has replaced.
* *partial failure*: between creating a project and attaching to it; in the
  middle of a save loop; between two statements of a plan; between Neo4j and
  Postgres; at one item of a bulk delete.
* *timeout and retry*: the fallback races the parse it falls back from.
* *ordering*: an edge row whose end is missing is silently dropped, the columns of a
  written table among them; the first file of a multi parse wins.
* *order of one program's statements* (the Spark parser is sequential, and its state is
  what makes it hard): a name bound again, a reader or writer kept in a variable, a view
  registered twice, a parameter that shadows a name of its caller, edges named after
  a variable and resolved at the end, writes moved between frames, cells executed out of order.
* *bounds*: the pool, the caps on files and megabytes, the depth of inlining and of imports.
* *liveness*: every upload and every project request is answered.

## 2. The modules

### Projects, ProjectRegistry, Projects_proofs

`Projects` is `gw/projects.py`, one action per SQL statement, because every
statement commits by itself (asyncpg without a transaction). The tables are
`name` (id to name, the live ids) and `files` (id to the rows of
`project_files`); `issued` remembers the ids ever used. `pc` says at which
statement a handler is, and the other request variables are its locals. A handler that holds
a pooled connection between two statements (`Holding`) takes one of `PoolSize`;
a statement that begins an `async with pool.acquire()` block waits for one.
The UNIQUE and FOREIGN KEY constraints are the guards of the INSERTs, ON DELETE
CASCADE is part of `Delete`. `Abort` ends a handler at any statement
(command_timeout, a lost connection), `Restart` ends them all and decides anew
whether there is a pool at all (`init_pool` swallows its failure).

`ProjectRegistry` is what the store promises, in three actions: open a project
under a fresh id and a free name, attach files to a live project, drop a project
with its files. `RegistrySpec` says `Projects` implements it, under the refinement
mapping `RegistryView` (the live ids with their name and rows).

### Uploads, BatchIntoProject and their proofs

`Uploads` is one upload from the request body to the answer. A file is its position in the
batch, and `disk[name]` is the file whose bytes are at that path: the save loop
writes by base name, so a namesake overwrites (`parse_proxy.py:360`). `call` is the
gateway's side of each parser call and `job` the parser's, apart because a
timeout ends the one and not the other; call 0 is `/parse/multi`. `graph` holds
the files whose content is in Neo4j, under the number of the file *read*.
`Gather` turns outcomes into the reported statuses, keyed by saved name as the code's
dict is; a parser's refusal is relayed with its status where there is no fallback (`Relayed`).
Suffix detection is the constant `SourceOf`, a parser's verdict about a
file is part of the batch. QlikView and Spark swallow a failed write and report the file
as if it had been made (`Swallowing`), so the graph may lack what they report;
`Vouched` are the files of the two parsers that fail the call instead, and what is
promised of a report is promised of these.

`BatchIntoProject` composes it with `Projects`: when the upload enters the
project block, request `Batch` of `Projects` runs its statements, beside other
requests and restarts, and its answer decides how the upload goes on. The guard
`phase # "grouping"` on `Upload` keeps `Uploads`' own `Group` (any outcome) out.
It instantiates the components by their proof modules, so that the composition
inherits what is proved of each.

### PropertyGraph, GraphWriter, TwsTopology, TwsIngest and their proofs

`PropertyGraph` is the Cypher the writers use, over a graph `[nodes, edges]`: MERGE
of node rows, MATCH-MATCH-MERGE of edge rows (a row without its ends is skipped
without an error), DETACH DELETE of a subgraph. A statement is one transaction.
Node properties other than the id are left out: they are SET each time, by the
last writer, and no property here is about them.

`GraphWriter` runs any number of requests, each with a *plan*, a sequence of
statements; requests interleave between statements and fail between them.
`TwsTopology` derives the plan of a TWS file: the resolution of references as the
two resolvers do it (`Target`, `Triggered`, `ScheduleNamed`, and `JobNamed` for
the older one, each with the dict-keeps-the-last semantics of its index), and the
ten node and thirteen edge batches in the writer's order, the deletes of an
overwrite before them and the `:TwsFile` wrapper after. `TwsIngest` adds Postgres: rows are
upserted in one transaction after the last statement.

### TwsMulti, TwsMulti_proofs

The merge loop of `merge.py`, then the answer (`Respond`). A step is what the loop does with
the names of a file (`MergeNames`), with one of its streams (`MergeStream`) or with one of its
schedules (`MergeSchedule`); `at` says which block is next, first among the streams and then among
the schedules. These are two passes over the same jobs, which is why a warning
could come twice. `prov` is the provenance map, `warnings` the list that
`_maybe_warn_duplicate` appends to and searches. `CorporaAssumption` is what the visitor
makes of any file: a job has the workstation and stream of its block. It leaves out a block that lists a job
twice. Payload fields that two declarations of a job are compared on are one
value, `attrs`; references are not compared (merge.py:227), so they are fields of their own.

### FileDelete, FileDelete_proofs

Three transactions an item: find the label of the file's node (for TWS it may be a
`:TwsFile` or a `:Schedule`), look the node up, delete it with what the containment chain
of its source reaches in six hops, save `:Table` and `:Connection`. Bulk deletes
go through their items in turn, and concurrent requests interleave between the three.
`faults` lets Neo4j refuse statements, also the label look-up, whose failure the code
swallows in favour of the primary label.

### WriterPlans, SparkGraph, QlikGraph, TableauGraph, Writers, Writers_proofs

The other three writers, as plans again. A plan here (`WriterPlans!Plan`) also says
at which statement it goes on when one fails, and which content of its file it
replaces. `WriterPlans` adds what the TWS writer has no use for: MERGE of a `:Table`, which sets
the id beside the merge key (`TableRows`), and edge rows whose ends are *matched*
by something other than the node's key (`Match`): a table by its id (Spark), a load by its name or a
script by its base name (QlikView). A table's name is its parts and whether it is in
upper case; that is all that two spellings of one name can differ in here.

* `SparkGraph`: the purge of an earlier parse, then script, UDFs and per anchor frame what it
  reads, its fields and what it writes, in the order of the code. Every `s.run` commits by
  itself. `write_project` runs `write_script` for each module; a failure inside one is
  swallowed there (`resume`), and the project goes on.
* `QlikGraph`: the fifteen parts of `write_app` in their order. It never deletes.
* `TableauGraph`: the delete of an overwrite and the batches of `write_workbook`,
  one statement each. A physical field of a datasource with exactly one table is the
  table's column, a node all workbooks share (`IsColumn`).

`Writers` runs requests over one graph: `graph` and `tableId`, the id property of the
tables, are shared; `at` is each request's next statement. Its properties
compare the graph with what a request *means* (`MeantBy`): the node it has in
mind when it matches by id or name. `disturbed` records that a statement failed or that two
requests of one file overlapped; then nothing is promised.

A request of `Writers` is a file and its kind (`PlanOf`), and what is assumed of a file is only what the
parser that hands it to the writer makes of it (`FilesAssumption`, evaluated by TLC on every file of
`MCWriters`): a script's DataFrames derive from earlier ones (`IsScript`; that the Spark parser sees to
it is `ShownWhole`, below), no two modules of a project are one file (`IsProject`; `DiscoveryExact`),
an app's lineage edges are of the types `REL_ALLOWLIST` allows (`IsApp`), and a workbook's derived fields are
groups, sets and bins (`IsWorkbook`).

### SparkSyntax, SparkIR, SparkValues, SparkConnectors, SparkSql

A script is a sequence of statements, a statement or an expression a record (`SparkSyntax`
has a constructor for each, and the questions the visitor asks of a tree: the calls of a
chain from its root, the columns an expression names, what a function calls). Python's `ast` and
sqlglot are libraries: their trees are the input. A text is a sequence of
tokens, the value of a URL or SQL statement a constant (`Jdbc`, `Uri`, `Sql`, ...), since
all the parser does with one is compare it, split it and look it up.

`SparkIR` is the visitor's state, one record `v` threaded through operators that are named after the
methods: `heap` is the `DataFrameIR` objects by reference (two names may hold one
object, which matters), `ir` the list of the script, `symbols` the names, `strings`, `lists`,
`dicts` the constants, `views`, `versions` the counters from which ids are minted.
`SparkValues` resolves strings, lists and dictionaries (`_resolve_str` with its dozen
forms) and classifies what it cannot. `SparkConnectors` matches a format to a connector and derives the
connection of an endpoint, `SparkSql` takes tables and derivations from a parsed statement.

### SparkIO, SparkColumns, SparkFirstPass, SparkVisitor, SparkCollapse

The visitor in the order of its passes. `SparkFirstPass` captures functions, classes
and factories and colours the call graph; the order in which Python iterates over a *set* of
callees is a nondeterministic choice (`CalleeOrders`). `SparkIO` builds the frames of reads (chains,
stored readers, tables, SQL, RDDs, created data) and attaches writes; `SparkColumns` applies
each transformation to fields and derivations. `SparkVisitor` evaluates expressions and visits statements,
and inlines calls: parameters overlay the caller's names (`Enter`, `Restore`), edges that name a
parameter are rewritten to the caller's name (`RewriteParamEdges`). `SparkCollapse` is the third
pass: edges are resolved to versions, in-between frames fold into the anchors below them, writes move.
Its last part (`RuntimeDynamic`) is the scan for `eval`, templates and loops over what is not a literal.

### SparkNotebook, SparkProject, SparkScript

`SparkNotebook` takes the cells of a notebook, strips magics, and after the parse checks the execution order
and adds the frames of SQL cells. `SparkProject` resolves imports and discovers files.
`SparkScript` is the state machine: a *job* is a request; a step is the discovery,
the first pass over a file, the visit of one top-level statement, the end of a file, or the answer.
The visit itself (`VisitOf`), and in `SparkLineage` the interpreter (`ExecutionsOf`), are parameters, bound in
`MCSparkScript` to `SparkVisitor`'s `Visit` and `SparkMeaning`'s `Executions`.

### SparkMeaning, SparkLineage

`SparkMeaning` models no code of the parser: it is what the parser is compared with. It *executes* the
script with Python's rules (calls bind parameters in a new scope, a branch runs one way, a
loop over a literal list runs once or twice) on values that remember the tables they are computed from,
the methods applied and the versions they came from. `Executions` is the
set of all executions of at most `MaxCoins` undetermined choices. `SparkLineage` states what a
parse promises as relations between that set and the frames recorded.

A job names its *checks*: which of the properties are promised of it. The parser
is deliberately approximate in places (branches, names only the run knows), and in
others it differs from what it documents (section 5); a theme that has one of these
is held to `DoubtIsMarked` or `UnknownIsSaid`, and not to exactness. `ShownWhole` (frames have ids of their own, and the inputs of one that is shown
are shown and come before it) and `NamesRestored` are asked of every job,
`DiscoveryExact` of every project.

### Instances

`MCUploads`, `MCBatchIntoProject`, `MCTwsIngest`, `MCTwsMulti`, `MCFileDelete`, `MCWriters` and
`MCSparkScript` define the inputs of the runs; `TwsFiles` holds the small composer files that the TWS ones
and the delete share. `Projects` needs no instance module.

## 3. The runs

States are distinct states; the slowest runs, `projects` and `writers`, take about two minutes on two cores.

| Run | States | What it shows |
|---|---|---|
| `projects` | 305 443 | see below |
| `uploads` | 268 969 | see below |
| `uploads_dispatch` | refuted | two namesakes in one auto batch: the first is never parsed |
| `batch_project` | 1 017 778 | what is grouped is parsed, where the parser vouches for it; a batch is grouped whole or not |
| `tws_ingest` | 610 650 | see below |
| `tws_multi` | 85 260 | see below |
| `files_delete` | 168 488 | see below |
| `files_owned` | refuted | a delete takes nodes another file contains |
| `writers` | 536 391 | see below |
| `writers_tables` | refuted | one table becomes two nodes |
| `spark_script` | 26 050 | see below |
| `spark_shortcuts` | refuted | a shortcut read is recorded as a write; a write on an unnamed join loses an input |

**projects.** Three requests of any kind, two ids, one name, two files, a pool of two.
Three requests are the least in which a look-up, a competing create or upload and a delete
meet, or two holders of a connection and one that waits; two ids let a name come back under another id
after a delete; one name makes every pair collide. Checked: `UniqueNames`,
`AnswersStayTrue` (an upload told "attached" finds its files there while
the project lives; a detail shows at least what was there when its header was
read), `RowsLeaveWithProject`, the refinement `RegistrySpec` and the liveness
`EveryRequestAnswered`. Ids run out after two projects, so an insert may then wait
for ever; only `Abort` ends it, and the fairness below is on statements that are
enabled. Deadlock is off because the requests are finitely many.

**uploads.** Every batch of up to two files over two TWS names, a QlikView name, a Tableau
name and a name no parser claims, and three batches of three files (two parsers; one name
twice; an unclaimed name between), each file with every verdict, at the
three endpoints, with caps of 2 and 3 for the code's 20 and 30, so that batches lie
on and beyond the multi cap. Checked: `ReportedFilesInGraph`, `RefsParsed`,
`RefusedMultiLeavesNothing` (of what the gateway refuses; a 400 of the TWS parser that it relays leaves the
files on disk, section 5) and, under fairness,
`UploadAnswered`. More files add more of the same groups: a file meets others
only through its group, its name and the caps.

**batch_project.** Up to two TWS files, a QlikView file alone or beside one of them, and one competing request over one name and two
ids: the multi call, its fallback, the single calls, a late parse, a create, upload or
delete between any two statements of the block, and restarts.

**tws_ingest.** Three requests, from three mixes: two files of one stream (one with two streams, references inside
and across them; the other with one job more for one of those streams), the same
file with overwrite three times, and an old and a new version of a file. A file's name
and its statements are all that differ between requests, so the requests are symmetric
(`Symmetry`; no liveness is checked here). Three are the least for one that
finished, one that overwrites and one that failed half way. Checked:
`CompleteWhenDone`, `QuiescentWhole`, `MirrorNotAhead`, `GraphOnlyGrows`,
`ReparseIsNoOp`, `OverwriteReplacesJobs`. No mix overwrites a file beside *another* file of one of
its streams: that deletes the other's jobs (section 5), and `QuiescentWhole` with it.

**tws_multi.** 690 corpora (seven files of one or two streams that share, agree on and
differ in jobs, references, attributes and errors, in every combination; and four pairs that disagree on
references) under five lists of paths (both orders, one path twice, three
files) and both settings of `strict`. Three files are the least where one
agrees with the first and one does not.

**files_delete.** Two concurrent requests, single or bulk of two items, over the graph
that two TWS files, a legacy TWS parse without `:TwsFile`, a Spark script and a
QlikView script leave, the last two meeting in one `:Table`; with and without
refused statements.

**writers.** Seven mixes of two or three requests: a script, its next version (without one
DataFrame and one column) and a workbook that reads the table it writes; a workbook, its
overwrite with a field less and another workbook that shares the column; a script, an app and a workbook on one
table; two apps, one of which inherits from the other by BINARY, and a script, on a
table of two name parts; a project, one of its modules alone and another script; an app with
something of every kind of node beside another; and a workbook with something of
everything, twice. A request meets others only in a `:Table`, a `:Connection`, a column,
a name it matches or its own file, and each of these is shared by some mix. Checked:
`LineageLands` (a settled request has left all it means in the graph),
`NothingStale` (a re-parse or an overwrite leaves none of the earlier content),
`OthersKept` (neither takes away what another file wrote), each as long as nothing is disturbed.
The premises are needed: `IdsAgree`, since Spark and QlikView
compute different ids for a table of two name parts, and a QlikView parse between Spark's MERGE
and its MATCH by id then hides the table from it; no failed statement,
since the Spark and QlikView parsers answer as if they had written; no
overlap of two parses of one file, since each deletes what the other has written. For `OthersKept` the failed statement matters in one place: a
workbook that stopped between its `HAS_FIELD` and its `HAS_COLUMN` rows takes, when it is overwritten, the columns it shares
(section 5). `OthersKept` speaks of nodes and not of edges because
DETACH DELETE of a replaced node takes the edges at it.

**spark_script.** Jobs by theme, each enumerating every program of a shape: chains of two steps of
every kind of method, columns and their derivations, functions (nested, recursive, with defaults and keywords, passed to `transform`, methods of classes, a parameter that
shadows, two names assigned at once), views and SQL, branches and loops, what is put together as it runs, strings and dictionaries,
endpoints in two spellings or more (case, port, scheme, the alias of a single host) and lists of hosts in either order, sources the environment knows, the 512 call graphs of three functions,
216 projects (import cycles, diamonds, packages, relative imports, depth 0 to 5), notebooks of three formats, and the other kinds of file. Three functions are the least with
a cycle through two others in either order; two statements after a definition are the least in which a
name is bound again between an edge and its resolution. `InlineMaxDepth` is 3 for the code's 8 (`visitor.py:431`), so that the limit is reached;
`MaxCoins` is 3. Deadlock is off because a job ends.

**spark_shortcuts.** Two frames, of which one reads by a shortcut, and a join of both that is written without a name.

**The refuted runs** each check one sentence of the code's own documentation that the code
does not keep; they are findings, see section 5.

### Fairness

`FairSpec` of `Projects`: weak fairness of the statements of each handler.
An asyncio handler whose statement has returned is resumed, and Postgres
answers or `command_timeout` ends the statement. Nothing is assumed of
`Start`, `Abort` or `Restart`. That this is enough is not obvious: handlers
queue for the pool, and it is enough only since none acquires a second connection
while it holds one; the mutant that does is found.

`FairSpec` of `Uploads`: weak fairness of the handler's own steps, of each call's
*timeout* (httpx has one set) and of the end of the project block
(`EveryRequestAnswered`). No parser is assumed ever to answer.

The other specifications state safety only, and no fairness.

## 4. The proofs

`Projects_proofs` (constants: any sets of names, files, ids and requests, any pool
size but 0; assumption `ConstantsAssumption`: the sentinels are not values).
The inductive invariant `IInv` adds to `TypeOK`, `UniqueNames` and `NoOrphanRows`
that live ids were issued (`LiveIssued`), what a handler knows at each statement
(`Known`: e.g. between the INSERT and the COUNT its files are in its project, if the
project lives) and what it was told at the end (`Told`). None of the safety
properties is inductive alone: that an answer stays true needs to know that
the id in it is issued and hence never reused. The key lemma is `NextTables`: every
step lets the tables grow or drops a project whole (`StoreGrows`), which
keeps `Known` and `Told` of every *other* handler; each handler's own step is
then looked at once. From `IInv` follow `TypeCorrect`, `TablesCorrect`,
`AnswersCorrect`, `RowsStay`, and step by step
`ImplementsRegistry`.

`PropertyGraph_proofs` has no constants: lemmas about the statements of `PropertyGraph` and about the
sequences plans are made of, which both of the writers' proof modules rest on.

`TwsIngest_proofs`, first of `GraphWriter` (any set of requests, any plans made of node, edge and delete
statements). `TypeCorrect`: no edge is without its ends, deletes and failures
included. `FinishedFilesWhole`: `CompleteWhenDone`, on two hypotheses about the
plans, `NodesBeforeEdges` (the statements that write the ends of an edge precede
it) and `DeletesOnlyToOverwrite`. `CompleteWhenDone` speaks of requests that are
done; to make it inductive `IInv` says of each request that is not that what it has
sent so far is *established*: its nodes are there, and those of its edges whose
ends are in its plan. Statements of others keep that because they only merge; the own
next statement keeps it because the ends were established before.
`NothingTakenAway` is the action property `GraphOnlyGrows`.
`OverwritesEndWhole`: `QuiescentWhole`, of requests that delete and write one file at the same
time. Nothing a request has written is safe from the others' deletes here, so no request's
own progress can be invariant; what is (`LastSurvives`) is that once nobody has a deletion
left to send, *some* request has all it has sent in the graph, at the latest the one that sent
the last deletion, which had written nothing yet. It needs `NodesBeforeEdges` and `DeletesFirst`.

Then of `TwsIngest` (any files, any requests; `ParsedAssumption`: a request's plan is the one
`Steps` derives from its unit, whose streams are a sequence). `PlansInOrder`: what the theorems
above assume of plans is so of the plan of every file. It rests on lemmas about sequences: a plan is four of them, one behind the other (deletions, nodes, edges, the file's
node; `FourParts`, `InOrder`), and leaving out the batches without rows keeps every batch that has some, in its
order (`Sent`, written with a count rather than with `SelectSeq`, of which tlapm knows nothing;
`SentFacts`, `SentKeepsOrder`). That no edge of a file
but the last batch's is at its `:TwsFile` node is what lets that node come last. A parse request is a request of
`GraphWriter` (`ImplementsGraphWriter`), so `ParsedFilesWhole` (`CompleteWhenDone`) and
`OverwritingFilesWhole` (`QuiescentWhole`) follow. `MirrorBehindGraph` is `MirrorNotAhead`, by the
fact that rows are committed when the request is at the end of its plan, hence established, and
that nothing is taken away; `ReparsingAddsNothing` is `ReparseIsNoOp`, since what a done request
left is all that the next for the file would write. `OverwritingReplacesJobs` is
`OverwriteReplacesJobs`: of a request beside which nobody writes, every edge from a stream or
schedule it has already deleted is one of its own rows (`AloneInv`), in all states, also those in
which an older request had stopped half way; at the end of the plan it has deleted every stream and schedule it
declares, and nothing else has jobs (`PlanReplaces`).

`Uploads_proofs` (any files, verdicts, endpoints and caps; `ConstantsAssumption`: what parsers there are, and
that a batch is a sequence of at most `MaxLen` names). `ReportedInGraph`, `RefsAreParsed`,
`RefusedLeavesNothing`, `TypeCorrect`; the first two of the files of TWS and Tableau, whose parsers fail the call when the write fails. The invariant says what the handler knows at each phase:
nothing is sent before all is saved (`Before`), every file then has bytes at its path, its own
or a namesake's (`Ready`), each file of a group has a call (`Called`), and a call that was answered
without a rejection has left those files in the graph (`Replied`). `Replied` is the point: a report
is taken from whichever of the racing calls the gather looks at, and each of them guarantees
it alone. `GatherInv` is the one long case; it needs that the last namesake exists (`LastNamesakeSaved`, by
well-founded descent).

`FileDelete_proofs` (any number of deletes over any graph whose edges have their ends). `BatchesSettled`,
`DeletedFilesGone`, `MissingIsMissing`, `SharedNodesSurvive`, `TypeCorrect`. Assumptions:
`RequestsAssumption` (a request has an item, the validation of `BulkDeleteRequest`) and
`GraphsAssumption` (finitely many nodes, edges with their ends, and an id that hashes the kind
`Schedule` is no other kind's node). A delete decides in one transaction by what it read in an
earlier one; the invariant says what it then knows of the labels its file may have (`Knows`) and what each
result so far says of its item (`Says`), and both stay true since the graph only shrinks.

`BatchIntoProject_proofs` composes: every step of the composition is a step of `Uploads` or leaves it alone, and
the same of `Projects`, so each component's own invariant carries over (`UploadsKept`, `StoreKept`), but for the
restart, which `Uploads` has not and which is looked at itself (`RestartKeepsUpload`). `Glue` adds what relates the two:
where the handler is when its request in the store is at which statement, that the refs do not change once they
are handed over, and that no other request can hold a file of this batch. From it follow
`ProjectsHoldParsed` and `GroupedWhole`, for any batch and any number of competing requests.
`BatchAssumption` says that the batch's request is none of the others, and repeats the components'
assumptions for the constants they are given.

`TwsMulti_proofs` (any files, any requests for them; `CorporaAssumption`, `RequestsAssumption`: a
list of paths is a sequence). The merge is a loop, and what a loop computes is an invariant of its steps: `IInv` speaks
of the *places* (a file and one of its blocks) that have been merged as streams and as
schedules (`StreamPlaces`, `SchedulePlaces`). The merged list has one block for each stream among them, with each job as the first
place that has it (`Listed`, `IsFirst`); the provenance is that of exactly the pairs of an entity and a path
they declare (`ProvIs`); and the warnings are of exactly their jobs that are not as the list has
them (`Warns`). That the schedules add no warning is the interesting case (`WarnsAgain`):
the places merged as schedules are the first of those merged as streams (`Leading`), so both lists keep
the same declaration of a job (`KeptAlike`). When the answer is drawn all places of all files are merged
(`Finished`), and from that follow `MergedExact` (`MergedIsUnion`), `WarningsOnce`
(`OneWarningPerDivergence`) and `StatusesExact` (`StatusesAgree`): what the provenance counts for a file are the nodes of its own unit; `/parse` counts places in a
list, which are as many if no two blocks are one stream's (`ElementsCounted`, `JobsCounted`), and the whole is ok by `WarnedIfAtOdds`,
which finds a warning behind any two declarations that differ. `CrossingExact` (`CrossFileExact`) needs the resolution of `TwsTopology` besides: an edge has its ends in the unit
(`EdgeEnds`), and of two units that agree, one that has both ends of an edge of the other has the
edge (`EdgesIn`).

`Writers_proofs` (any number of requests for any scripts, projects, apps and workbooks; `FilesAssumption`), in
two halves. The first is `FilesPlanned`: the plans of the requests of a behaviour are `WellPlanned`, each conjunct of which is
an order or a key in the writers' code (ends before edges, a delete that starts from the file's own node and comes to
nothing another file has unless that is spared, old content gone before the new is written). `WellPlanned` speaks of all
plans together, so it is split: `FilePlan` says of one plan alone what makes it so, and `FilesFit` that plans with it
go together. What relates two files is two ideas. A node that a file has for itself names the file in its id (`Home`), so
two files meet only in tables, connections, columns and the additive layer of QlikView; and the edges a delete follows are of few types,
each of which leads from a node of a file to one of the same file or to a column (`Hops`). A column has a table in
the plan of every workbook that has the column, which is why the delete spares it (`ColumnsHomed`).

That each kind of file makes a `FilePlan` (`ScriptPlanned`, `ProjectPlanned`, `AppPlanned`, `WorkbookPlanned`) goes along its
writer, function by function. `Fit` says of a piece of a plan that its statements can be sent when certain things
(nodes, edges, leaves to delete) are there already; a piece behind another may use what that one has done (`FitBoth`), and the pieces of a
list, one an item, are fit if each is (`EachFits`). A plan is then put together as the code does. The lists are folded by
`FlattenSeq`, a recursive function of the community modules that is the CHOOSE of what satisfies its equation: `FlattenIs` shows that
something does, by the least number at which it would not (`UpTo`), and where in the whole each piece begins.
In a project each script is planned once more, with the statements of the modules before it
already sent and its own purge reaching only what is below its own node (`ProjectPlanned`); this is where two modules must not be one file.

The second half is the invariant. `SharedKept` (`OthersKept`), `MeantIsThere` (`LineageLands`), `ContentReplaced` (`NothingStale`). While nothing is disturbed,
the invariant says where every edge comes from (`Origin`: a row that was sent), what of each file's
latest request has landed at each of its statements (`NodesLanded`, `EdgesLanded`, and `TableIds` for the ends that are matched by
id), which edges no delete can take any more (`Guarded`), that a second hop never stands without the first (`HungStand`)
and what is left of an earlier parse (`NoneStale`). The argument of `SharedKept` is `OthersStay`: an edge on the way of a delete was
sent by a request for the same file; while the delete is sent all those are answered (`Turns`), so the edge that
spares the shared node has been sent too, and stands (`GuardStays`). A `HAS_FIELD` of *another* workbook, sent
before its `HAS_COLUMN`, does no harm because the delete does not come that way. `ContentReplaced` is the other half: a delete takes
all of the first hop, whoever wrote it (`ChildTaken`), the second hops hang on it, and afterwards only the
request itself writes under its root. Each invariant was checked by TLC on the mixes of `MCWriters` before it was proved.

Only model-checked: everything about the Spark parser (its operators are RECURSIVE, over syntax
trees), what `IsScript` and `IsProject` assume of it included (`ShownWhole`, `DiscoveryExact`).
Out of the prover's reach: liveness under fairness (`EveryRequestAnswered`, `UploadAnswered`).

## 5. Where the code and its documentation disagree

Refuted by a run:

* `uploads_dispatch`: `/parse/upload/auto` promises to "dispatch every file" and to
  treat "each file as an INDEPENDENT parse" (`gw/parse_proxy.py:319-324`), and saves by
  base name alone (358-360): of two namesakes the first is lost, and reported ok.
* `spark_shortcuts`: `spark.read.parquet(path)`, under "Reads" in `spark-parser/FEATURES.md:27-29`, is
  recorded as a read *and a write* of the path (`spark/pyspark/visitor.py:3852-3859`, over the set of 407-415); and of
  "multiple predecessors (joins / unions)" that "each contribute" (3395-3396) only the first keeps a write that is
  made on the join itself (3297-3310, 3344-3366). The run's job joins two reads; the same goes for a union.
* `files_owned`: a delete removes a file "along with the nodes it exclusively owns"
  (`gw/files_routes.py:214`), and in fact all that is reachable and neither `:Table` nor
  `:Connection` (234-246).

* `writers_tables`: ids are lowercased so that "the same logical entity always hashes the same,
  regardless of input casing", the "contract that lets the Spark parser MERGE onto
  :Table nodes written by Tableau, QlikView" (`spark-parser/src/spark_parser/utils/ids.py:3-7`),
  and the merge key is uppercased "so heterogeneous writers converge"
  (`tableau-parser/src/tableau_parser/utils/ids.py:34`). Spark merges on the name as the script
  spells it (`spark-parser/src/spark_parser/graph/writer.py:357`): `db.s.orders` and `DB.S.ORDERS`
  are two nodes with one id.

Met while modelling, each evident from the lines, and without a run:

* "Delete existing nodes for this source before re-ingesting"
  (`lineage-platform/apps/frontend/app/parse/page.tsx:470`) deletes every job of a
  stream the file mentions, also the jobs another file put there
  (`tws/graph/queries.py:312-324`).
* `attach_files_to_project` documents the number of *newly* inserted rows and counts
  those of the batch, old ones included (`gw/projects.py:146-147`, 165-173).
* A parse that ends after the gateway gave up is in the graph and in no result
  and no project (`gw/parse_proxy.py:311-312`, 429-436).
* An overwrite deletes the streams the *new* version declares: one that was taken out of the file
  stays, with its jobs (`tws/graph/writer.py:110-121`).
* A retried upload is saved under a new directory, and its path is its file id: the same
  file is listed twice (`tws/utils/ids.py:90-91`, `gw/parse_proxy.py:129-137`).
* The Postgres tables are an "operational mirror of TWS schedules"
  (`lineage-platform/apps/docs/docs/architecture/storage.md:28`) that is never deleted from,
  by an overwrite or a delete (`tws/rdbms/writer.py:31-43`).
* A delete of a Spark script takes columns of a surviving `:Table`, reached over
  `HAS_FIELD` (`gw/files_routes.py:174-176`, 238-239).
* The delete chain of TWS starts at schedules, so `:JobStream`, `:Workstation`,
  `:Calendar` and `:EventRule` of a deleted file stay (`gw/files_routes.py:173-174`, 204-208).
* Of two concurrent deletes of one file the second answers `deleted: true` with 0 nodes
  (`gw/files_routes.py:231`, 249-266).
* `/parse/multi` speaks of a "union edge set" (`tws/parser/orchestrator.py:62`); a job declared again
  with other FOLLOWS keeps the first's, silently (`tws/parser/merge.py:227`).
* `/parse` counts the blocks of a file and the jobs of each block (`tws/api/routes.py:138-139`, 182-184), `/parse/multi` the
  distinct streams and jobs a file contributed (262-274): a file with two blocks for one stream is reported with different numbers.
* A 400 or 500 of a parser that `/parse/upload/multi` relays leaves the saved files on disk (`gw/parse_proxy.py:286-287`), where a
  refusal of the gateway itself leaves none.
* A workbook whose parse failed between its `HAS_FIELD` and its `HAS_COLUMN` statement, or that is parsed twice at the same time, can
  delete at its next overwrite a column another workbook shares: whether a field is a table's column is decided by a
  `HAS_COLUMN` that may not be there yet (`tableau-parser/src/tableau_parser/graph/queries.py:456-458`).
* The "declared in multiple files" warning also comes of two blocks of one
  file (`tws/parser/merge.py:177-199`, 257-262).

* `write_app` re-raises "so a production parse never silently produces a half-written
  graph" (`qlikview-parser/src/qlikview_parser/graph/writer.py:105-107`), and its caller
  swallows it and answers 200 (`qlikview-parser/src/qlikview_parser/main.py:79-83`). The Spark writer swallows
  every exception itself, so the `neo4j_write_failed` warning of its caller never fires
  (`spark-parser/src/spark_parser/graph/writer.py:63-65`, `main.py:132-136`). So an upload reports QlikView and Spark files ok, and
  groups them into projects, although nothing of them may be in the graph.
* "If true, delete existing nodes for this source before writing"
  (`lineage-contracts/openapi/parser-api.yaml:112-115`): QlikView never deletes, Spark always
  purges, and a Tableau overwrite leaves zones, groups, sets, bins and hierarchies, whose
  edges to shared columns stay with them (`tableau-parser/src/tableau_parser/graph/queries.py:448-459`).
* A shared `:Table` is to set its id `ON CREATE` only (`lineage-contracts/schema/shared-labels.md:9`,
  30-32); Spark and QlikView SET it at every parse, to ids that differ for names of one or two parts.
* Spark, frames: the right side of a union is cloned as `__union_rhs` and never listed, so an edge leads nowhere; an unrecognised
  method that ends a chain (`n = a.count()`) names the root object again; a read or a select *inside* a join's argument
  is lost; `a, b = b, a` binds `a` first and computes `b` from the new one (`spark/pyspark/visitor.py:866-872`, documented as "bind 1:1", 852); `if` without `else` forgets the version before it; of several handlers of a `try` the last wins; steps after the call of a local function
  (`f(a).filter(...)`) are dropped, and so is what is written through a writer passed as a parameter.
* Spark, columns: the columns an in-between frame of a chain derives are only in its steps, not among the fields of the frame shown;
  a join keeps its key twice; `partitionBy("x").save()` records the columns twice (`spark/models/domain.py:149`).
* Spark, functions: a refused recursive call marks nothing partial; edges of a parameter that the function binds again are rewritten by name
  (`spark/pyspark/visitor.py:2883-2950`); helpers of an imported function's own module are not followed.
* Spark, values: `os.getenv(k, default)` is taken for its default, without a doubt marked; a name bound again from a literal to something the run
  knows keeps the literal; any option that does not resolve marks a read's connection unresolved; `format`-less `load` and `save` of an
  `s3://` path get the metastore's connection; the branch for `spark.read.jdbc(url, table, props)` is never reached (1111-1113, 2458).
* Spark, endpoints: host lists are sorted as spelled, before aliases are made canonical (`spark/connectors/registry.py:247`), and with their ports, so that a list with `localhost`
  for `127.0.0.1`, or with a host whose name begins another's, may be led by another host; only the first host is in the id, so `k1,k2` and `k1,k3` are one
  node and `k1` is the node of `k1,k2` while `k2` is not; the Elasticsearch
  connection's id has the index in it; Redshift by `format` and by JDBC URL differ.
* Spark, SQL: `spark.table("v")` of a temporary view reads `default.v`; SQL files and SQL cells neither qualify names nor see the script's views;
  a source that an earlier statement wrote, or another statement's CTE name, is dropped.
* Spark, notebooks: the `%run` lines of an `.ipynb` are stripped before they are recorded (`spark/main.py:439-440`,
  `spark-parser/FEATURES.md:126`); a cell that starts with `# MAGIC %python` makes the whole notebook a syntax error; frames of SQL cells stay
  unmarked when cells ran out of order; frame ids hang on the path of a temporary file.
* Spark, projects: a module comes before a package of its name, Python takes the package; the `__init__` files on an import's path, and
  re-exports through them, are not followed; a depth-limited search hides files that a shorter path reaches.
* Spark, determinism: which functions count as recursive can depend on the iteration order of a set (`PYTHONHASHSEED`), against
  `spark-parser/FEATURES.md:304-308`.
* `spark/graph/connection_queries.py` matches `DERIVES_FROM`; the writer makes `DERIVES_FROM_DATAFRAME` (`spark/graph/writer.py:178`).
* JOINS_WITH matches loads by name over all scripts, so a join in one app also joins the loads
  of that name in another (`qlikview-parser/src/qlikview_parser/graph/writer.py:252-258`).

## 6. Bounds and abstractions

* Every bound is a constant of a cfg or a set of an MC module; no guard in a module
  cuts a behaviour short, except that uuid4 values are drawn from the finite `Pids`.
* Requests are handled once each; a retry is another request.
* A batch of rows is one statement. Beyond `batch_size` rows the code sends several, each of
  them merge-only, so `GraphWriter` with a longer plan is the same model.
* Ids are the pairs of kind and key that the code hashes, not the hash; the scheduler part of a TWS schedule's id
  (`tws/utils/ids.py:17-18`), which only a header of the legacy three-part form has, is left out, so a schedule and its stream correspond.
* The gateway never sets `write_neo4j` or `write_postgres` (`tws/api/routes.py:108`, 122), so in `TwsIngest` both stores are written;
  a caller that sets one to false asks for a mirror that is ahead.
* In `Writers` names have at most three parts, the fields of a datasource have distinct
  names, the columns of stored procedures are left out, and `DERIVES_FROM_REF` relates the same pairs as
  `DERIVES_FROM` (a reference is one occurrence of a source name).
* `OneEndpointOneNode` asks nothing of two lists of hosts that overlap, nor of aliases of localhost in a list (section 5). The packages Python loads
  on the way to an imported module are the one kind of file `DiscoveryExact` lets a project leave out.
* In the Spark modules: a loop runs at least once, persist levels are in lower case, no columns of structs, BigQuery tables without a project part,
  conditions, defaults and decorators without calls; an f-string is a concatenation for the dynamic scan. What sqlglot makes of a statement, and how a
  URL splits into parts, are constants of the run. The modules from the syntax to the projects were
  compared with the real parser on generated scripts and projects, record for record; `SparkSql` was not, sqlglot being absent.
* Text, formats, logging, metrics and HTTP details other than the status are left
  out.

## 7. Plan

1. *(done)* Project store; uploads; their composition; property graph and TWS writer; TWS
   resolution and merge; delete; the first two proof modules.
2. *(done)* The writers of Spark, QlikView and Tableau and the tables they share.
3. Delete beside writers, over one graph.
4. *(done)* The Spark parser and its projects. Next: the replay of a Delta log, QlikView control flow and variable
   expansion, the Tableau calculation graph: operators against reference definitions.
5. The frontend's races between selections and fetches.
6. *(done)* Proofs of the safety of `Uploads`, of its composition with `Projects`, of `FileDelete`, of `TwsIngest`,
   of `TwsMulti` and of `Writers`, the last down to the files: the plan of every file is `WellPlanned`.
