---------------------------- MODULE MCSparkScript ----------------------------
(***************************************************************************)
(* Small scripts, notebooks and projects for the Spark parser.  A theme is *)
(* a sequence of slots, a slot a set of alternatives, each a sequence of   *)
(* statements: the scripts of a theme take one alternative of every slot.  *)
(***************************************************************************)
EXTENDS SparkLineage

Scripts(slots) ==
  FoldLeft(LAMBDA bodies, slot : {b \o s : b \in bodies, s \in slot}, {<<>>}, slots)
One(alternatives) == {<<a>> : a \in alternatives}

\* Statements the themes share.
S(text) == Lit(text)
Read == <<Dot("read"), M("format", <<S("parquet")>>)>>
ReadFrom(x) == Chain(Nm("spark"), Read \o <<M("load", <<x>>)>>)
Load(n, path) == Assign(n, ReadFrom(S(path)))
On(n, steps) == Chain(Nm(n), steps)
Let(n, from, steps) == Assign(n, On(from, steps))
Filter1 == M("filter", <<Op(<<Col("x")>>)>>)
Select1 == M("select", <<S("k"), S("x")>>)
Join1(n) == M("join", <<Nm(n), S("k")>>)
SaveSteps(x) == <<Dot("write"), M("mode", <<S("append")>>), M("save", <<x>>)>>
Save(n, target) == Do(On(n, SaveSteps(S(target))))
SaveVia(told, target) ==
  <<Assign("w", On("b", <<Dot("write"), M("mode", <<S("append")>>)>>))>>
    \o [j \in DOMAIN told |-> Do(On("w", <<told[j]>>))] \o <<Do(On("w", <<M("save", <<target>>)>>))>>
SaveAfter(n, steps, target) == Do(On(n, steps \o SaveSteps(S(target))))

NoFile == [ext |-> ".py", header |-> FALSE, body |-> <<>>, text |-> <<>>, cells |-> <<>>]
NoTree == [files |-> NoFun, roots |-> <<>>]
FileJob(file, checks) ==
  [kind |-> "file", file |-> file, tree |-> NoTree, entry |-> <<>>, depth |-> 0,
   truth |-> NoFun, checks |-> checks]
Job(body, checks) == FileJob([NoFile EXCEPT !.body = body], checks)
JobsOf(slots, checks) == {Job(body, checks) : body \in Scripts(slots)}

-----------------------------------------------------------------------------
\* Chains of methods on variables that are reassigned, aliased, joined and written.
Chains ==
  <<{<<Load("a", "A"), Load("b", "B")>>, <<Load("a", "A"), Let("b", "a", <<Filter1>>)>>,
     <<Load("a", "A"), Assign("b", Nm("a"))>>},
    One({Let("a", "a", <<Select1>>), Let("a", "a", <<Join1("b"), Filter1>>),
         Let("a", "b", <<M("withColumn", <<S("y"), Col("x")>>), Filter1>>),
         Let("b", "b", <<Join1("a"), M("drop", <<S("x")>>)>>)}),
    One({Let("c", "a", <<Join1("b"), Select1>>), Assign("c", Nm("b")),
         Let("a", "a", <<M("cache", <<>>), Filter1>>),
         Let("a", "b", <<M("groupBy", <<S("k")>>),
                         M("agg", <<Chain(Fn("sum", <<S("x")>>), <<M("alias", <<S("x")>>)>>)>>)>>)}),
    One({Save("a", "T"), SaveAfter("b", <<Filter1, Select1>>, "T")}),
    One({Save("a", "U"), Save("b", "T"), Let("b", "b", <<Select1>>)})>>

\* The columns of a DataFrame the script makes itself.
Data(n, columns) ==
  Assign(n, Chain(Nm("spark"), <<M("createDataFrame", <<Nm("rows"), Lst(columns)>>)>>))
Columned ==
  <<One({Data("a", <<S("k"), S("x"), S("y")>>)}),
    One({Let("a", "a", <<M("withColumn", <<S("x"), Op(<<Col("y"), Col("k")>>)>>)>>),
         Let("a", "a", <<M("withColumnRenamed", <<S("y"), S("z")>>)>>),
         Let("b", "a", <<M("drop", <<S("y")>>)>>)}),
    One({Let("a", "a", <<M("withColumn", <<S("w"), Op(<<Col("x"), Num>>)>>)>>),
         Let("a", "a", <<M("withColumn", <<S("x"), Fn("upper", <<Col("x")>>)>>), Filter1>>),
         Let("c", "a", <<M("groupBy", <<S("k")>>),
                         M("agg", <<Chain(Fn("sum", <<S("x")>>), <<M("alias", <<S("s")>>)>>)>>)>>)}),
    One({Let("c", "a", <<M("cache", <<>>), Select1>>), Assign("c", Nm("a")),
         Let("a", "a", <<M("distinct", <<>>), M("withColumnRenamed", <<S("x"), S("v")>>)>>)})>>

\* Functions of the script: frames, texts and defaults as arguments, calls in calls, and
\* parameters that have the names of variables.
Functions ==
  <<{<<Def("f", <<Param("d")>>, <<Return(On("d", <<Filter1>>))>>),
       Def("g", <<Param("d"), Param("e")>>, <<Let("x", "d", <<Join1("e")>>), Return(On("x", <<Select1>>))>>),
       Def("h", <<Param("e")>>, <<Assign("d", Fn("f", <<Nm("e")>>)), Return(On("d", <<Select1>>))>>),
       Def("w", <<Param("d"), Default("t", S("T"))>>, <<Do(On("d", SaveSteps(Nm("t"))))>>),
       Load("a", "A"), Load("d", "D")>>},
    One({Assign("b", Fn("f", <<Nm("a")>>)), Assign("b", Fn("g", <<Nm("a"), Nm("d")>>)),
         Assign("b", FnKw("g", <<>>, <<Kw("e", Nm("a")), Kw("d", Nm("d"))>>)),
         Assign("b", Fn("h", <<Nm("d")>>)), Let("b", "a", <<M("transform", <<Nm("f")>>)>>),
         TupleAssign(<<"b", "a">>, Tup(<<On("a", <<Join1("d")>>), Fn("f", <<Nm("d")>>)>>)),
         Let("b", "a", <<M("union", <<Nm("d")>>)>>)}),
    One({Do(Fn("w", <<Nm("a")>>)), Do(Fn("w", <<Nm("b"), S("U")>>)),
         Assign("a", FnKw("f", <<>>, <<Kw("d", Nm("a"))>>)), Assign("d", Fn("g", <<Nm("b"), Nm("a")>>))}),
    One({Save("b", "V"), Save("d", "V"), Do(FnKw("w", <<Nm("d")>>, <<Kw("t", S("V"))>>))})>>

\* Temporary views, which may be made anew, and SQL that reads them, tables and both.
View(n, view) == Do(On(n, <<M("createOrReplaceTempView", <<S(view)>>)>>))
SqlOf(text) == Chain(Nm("spark"), <<M("sql", <<S(text)>>)>>)
Views ==
  <<One({Load("a", "A")}), One({View("a", "v"), Assign("b", Chain(Nm("spark"), <<M("table", <<S("t")>>)>>))}),
    {<<Load("b", "B")>>, <<Let("a", "a", <<Filter1>>)>>},
    One({View("a", "v"), View("b", "w"), View("b", "v")}),
    One({Assign("c", SqlOf("from v")), Assign("c", SqlOf("from v, w")), Assign("c", SqlOf("with v from t"))}),
    One({Do(SqlOf("insert t from v")), View("c", "w"), Let("a", "c", <<Join1("a")>>)}),
    One({Save("c", "T"), Do(SqlOf("create u from w")),
         Do(On("c", <<Dot("write"), M("mode", <<S("append")>>), M("saveAsTable", <<S("t")>>)>>))})>>
Columns == <<[Item("k", {"k"}) EXCEPT !.over = TRUE]>>
MCSql ==
  (<<"from v">> :> <<Statement("select", "", <<>>, Query(Columns, <<"v">>))>>)
    @@ (<<"from v, w">> :> <<Statement("select", "", <<>>, Query(Columns, <<"v", "w">>))>>)
    @@ (<<"with v from t">> :>
          <<Statement("select", "", <<With1("v", Query(Columns, <<"t">>))>>, Query(Columns, <<"v">>))>>)
    @@ (<<"insert t from v">> :> <<Statement("insert", "t", <<>>, Query(Columns, <<"v">>))>>)
    @@ (<<"insert db.t">> :> <<Statement("insert", "db.t", <<>>, Query(Columns, <<"db.s">>))>>)
    @@ (<<"create db.u">> :> <<Statement("table", "db.u", <<>>, Query(Columns, <<"db.t">>))>>)
    @@ (<<"from db.s">> :> <<Statement("select", "", <<>>, Query(Columns, <<"db.s">>))>>)
    @@ (<<"create u from w">> :> <<Statement("table", "u", <<>>, Query(Columns, <<"w">>))>>)

\* Branches, conditional expressions and loops.
Branches ==
  <<{<<Load("a", "A"), Load("b", "B")>>},
    One({If(<<Load("c", "C")>>, <<Let("c", "a", <<Filter1>>)>>),
         If(<<Load("c", "C")>>, <<If(<<Assign("c", Nm("b"))>>, <<Let("c", "a", <<Join1("b")>>)>>)>>),
         Assign("c", IfExp(Nm("a"), Nm("b"))),
         For(Lst(<<S("x"), S("y")>>), <<Let("c", "a", <<Filter1>>), Save("c", "L")>>)}),
    One({If(<<Let("a", "a", <<Select1>>)>>, <<Assign("a", Nm("b"))>>),
         If(<<Save("a", "U")>>, <<>>), With(<<Let("b", "c", <<Join1("b")>>)>>),
         For(Lst(<<S("x")>>), <<Let("b", "b", <<Join1("a")>>)>>)}),
    One({Save("c", "T"), Save("a", "T"), SaveAfter("b", <<Filter1>>, "T")})>>

\* What is put together only when the script runs.
Secret == Env("env_var", "P")
Dynamics ==
  <<{<<Load("a", "A"), Let("b", "a", <<Filter1>>)>>},
    One({Do(Fn("exec", <<S("code")>>)), Assign("e", Fn("eval", <<Secret>>)),
         Do(Fn("setattr", <<Nm("a"), Secret, S("x")>>)), Do(Fn("setattr", <<Nm("a"), S("y"), S("x")>>)),
         Assign("d", Chain(Nm("spark"), <<M("sql", <<Cat(<<S("select "), Secret>>)>>)>>))}),
    One({Let("a", "b", <<Select1>>), Load("c", "C")})>>

\* Paths and settings in constants, dictionaries and classes; readers and writers kept in
\* variables and told more by later statements.
OptionUrl == MKw("option", <<S("url"), S("jdbc:h2")>>, <<>>)
Reader(n, steps) == Assign(n, Chain(Nm("spark"), <<Dot("read"), M("format", <<S("jdbc")>>)>> \o steps))
Values ==
  <<{<<Assign("p", S("A")), Assign("q", Cat(<<Nm("p"), S("/x")>>)),
       Assign("o", Dct(<<Kw("url", S("jdbc:h2"))>>)),
       Class("C", <<>>, <<Assign("PATH", S("B")),
                          Def("keep", <<Param("self"), Param("d")>>, <<Return(On("d", <<Filter1>>))>>)>>),
       Class("E", <<"C">>, <<>>), Assign("c", Fn("E", <<>>))>>},
    One({SetItem("o", S("dbtable"), S("t")), SetItem("o", S("dbtable"), Nm("q")),
         Do(On("o", <<MKw("update", <<>>, <<Kw("dbtable", Nm("p"))>>)>>)),
         Assign("o", Dct(<<Kw("**", Nm("o")), Kw("dbtable", S("t"))>>))}),
    {<<Assign("a", ReadFrom(Nm("q")))>>, <<Assign("a", ReadFrom(Attr("C", "PATH")))>>,
     <<Assign("a", ReadFrom(Sub("o", S("dbtable"))))>>,
     <<Reader("a", <<MKw("options", <<>>, <<Kw("**", Nm("o"))>>), M("load", <<>>)>>)>>,
     <<Reader("r", <<OptionUrl>>), Do(On("r", <<M("option", <<S("dbtable"), Nm("p")>>)>>)),
       Assign("a", On("r", <<M("load", <<>>)>>))>>,
     <<Reader("r", <<M("options", <<Nm("o")>>)>>),
       Assign("a", On("r", <<M("option", <<S("dbtable"), S("u")>>), M("load", <<>>)>>)),
       Assign("z", On("r", <<M("load", <<>>)>>))>>},
    One({Assign("b", On("c", <<M("keep", <<Nm("a")>>)>>)),
         Assign("b", On("c", <<M("keep", <<Nm("a")>>), Select1>>))}),
    {SaveVia(<<>>, Nm("q")), SaveVia(<<M("format", <<S("delta")>>)>>, Attr("C", "PATH")),
     <<Do(On("b", SaveSteps(Sub("o", S("dbtable")))))>>}>>

\* Reads of one system under different spellings of its address.
Jdbc1(n, url) ==
  Reader(n, <<M("option", <<S("url"), S(url)>>), M("option", <<S("dbtable"), S("t")>>), M("load", <<>>)>>)
Via(n, format, option, value) ==
  Assign(n, Chain(Nm("spark"), <<Dot("read"), M("format", <<S(format)>>),
                                 M("option", <<S(option), S(value)>>), M("load", <<>>)>>))
Kafka1(n, servers) == Via(n, "kafka", "kafka.bootstrap.servers", servers)
Cassandra1(n, hosts) ==
  Via(n, "org.apache.spark.sql.cassandra", "spark.cassandra.connection.host", hosts)
MCJdbc ==
  LET url(u, sub, host, port) == u :> [sub |-> sub, host |-> host, port |-> port, db |-> <<"x">>]
  IN url(<<"pg://db:5432/x">>, "postgresql", "db", 5432) @@ url(<<"pg://DB/x">>, "postgresql", "DB", 0)
       @@ url(<<"pg://db:5433/x">>, "postgresql", "db", 5433)
       @@ url(<<"pg://localhost/x">>, "postgresql", "localhost", 0)
       @@ url(<<"pg://127.0.0.1:5432/x">>, "postgresql", "127.0.0.1", 5432)
       @@ url(<<"my://db/x">>, "mysql", "db", 0) @@ url(<<"jdbc:h2">>, "h2", "", 0)
MCHostLists ==
  LET at(h, p) == [host |-> h, port |-> p]
  IN (<<"k1:9092,k2:9092">> :> <<at("k1", 9092), at("k2", 9092)>>)
       @@ (<<"k2:9092,K1:9092">> :> <<at("k2", 9092), at("K1", 9092)>>)
       @@ (<<"k1">> :> <<at("k1", 0)>>) @@ (<<"k2">> :> <<at("k2", 0)>>)
       @@ (<<"k1,k2">> :> <<at("k1", 0), at("k2", 0)>>)
       @@ (<<"k2,k1">> :> <<at("k2", 0), at("k1", 0)>>)
       @@ (<<"k3,k2">> :> <<at("k3", 0), at("k2", 0)>>)
MCUri ==
  LET uri(u, scheme, host, port) ==
        u :> [scheme |-> scheme, host |-> host, port |-> port, container |-> ""]
      path(u) == uri(u, "", "", 0)
  IN path(<<"/a">>) @@ path(<<"/a", "/x">>) @@ path(<<"/b">>) @@ path(<<"/t">>)
       @@ uri(<<"s3://b/p">>, "s3", "b", 0) @@ uri(<<"s3a://b/q">>, "s3a", "b", 0)
       @@ uri(<<"s3://c/p">>, "s3", "c", 0) @@ uri(<<"hdfs://n/p">>, "hdfs", "n", 0)
       @@ uri(<<"hdfs://N:8020/q">>, "hdfs", "N", 8020) @@ uri(<<"hdfs://n:9000/p">>, "hdfs", "n", 9000)
MCEndpointOf ==
  LET at(hosts, texts) == [u \in texts |-> hosts]
  IN at({"db:5432"}, {<<"pg://db:5432/x">>, <<"pg://DB/x">>}) @@ at({"db:5433"}, {<<"pg://db:5433/x">>})
       @@ at({"localhost:5432"}, {<<"pg://localhost/x">>, <<"pg://127.0.0.1:5432/x">>})
       @@ at({"db:3306"}, {<<"my://db/x">>})
       @@ at({"k1", "k2"}, {<<"k1:9092,k2:9092">>, <<"k2:9092,K1:9092">>, <<"k1,k2">>, <<"k2,k1">>})
       @@ at({"k1"}, {<<"k1">>}) @@ at({"k2"}, {<<"k2">>}) @@ at({"k2", "k3"}, {<<"k3,k2">>})
       @@ at({"bucket b"}, {<<"s3://b/p">>, <<"s3a://b/q">>}) @@ at({"bucket c"}, {<<"s3://c/p">>})
       @@ at({"n:8020"}, {<<"hdfs://n/p">>, <<"hdfs://N:8020/q">>}) @@ at({"n:9000"}, {<<"hdfs://n:9000/p">>})
MCLower == ("DB" :> "db") @@ ("K1" :> "k1") @@ ("N" :> "n")
MCHostOrder == <<"k1", "k2", "k3">>
MCPortNumber == NoFun
Endpoints ==
  LET jdbc == {u[1] : u \in {x \in DOMAIN MCJdbc : MCJdbc[x].sub # "h2"}}
      uris == {u[1] : u \in {x \in DOMAIN MCUri : MCUri[x].scheme # ""}}
      hosts == {u[1] : u \in DOMAIN MCHostLists}
      reads(n) == {<<Jdbc1(n, u)>> : u \in jdbc} \cup {<<Load(n, u)>> : u \in uris}
                    \cup {<<Kafka1(n, u)>> : u \in hosts}
  IN <<reads("a"), reads("b")>>
Clusters ==
  LET hosts == {u[1] : u \in {x \in DOMAIN MCHostLists : \A a \in ToSet(MCHostLists[x]) : a.port = 0}}
  IN <<{<<Cassandra1("a", u)>> : u \in hosts}, {<<Cassandra1("b", u)>> : u \in hosts}>>

\* Paths, tables and URLs that only the environment knows.
Unknowns ==
  <<One({Assign("p", Secret), Assign("p", S("/a"))}),
    One({Assign("a", ReadFrom(Nm("p"))), Assign("a", ReadFrom(Cat(<<Nm("p"), S("/x")>>))),
         Assign("a", Chain(Nm("spark"), <<M("table", <<Nm("p")>>)>>)),
         Reader("a", <<M("option", <<S("url"), Nm("p")>>), M("option", <<S("dbtable"), S("t")>>),
                       M("load", <<>>)>>),
         Reader("a", <<M("option", <<S("url"), S("jdbc:h2")>>), M("option", <<S("dbtable"), Nm("p")>>),
                       M("load", <<>>)>>)}),
    One({Load("b", "/b"), Assign("b", ReadFrom(Secret))}),
    One({Save("a", "/t"), Do(On("a", SaveSteps(Secret))), Do(On("b", SaveSteps(Nm("p")))),
         Do(On("b", <<Dot("write"), M("mode", <<S("append")>>), M("saveAsTable", <<Nm("p")>>)>>))})>>

\* Functions that call one another in every way, directly and in circles.
CallGraphs == [{"f", "g", "h"} -> SUBSET {"f", "g", "h"}]
Calling(n, callees) ==
  Def(n, <<Param("d")>>,
      SetToSeq({Assign("d", Fn(c, <<Nm("d")>>)) : c \in callees}) \o <<Return(On("d", <<Filter1>>))>>)
Cycle(graph) ==
  [Job(<<Calling("f", graph["f"]), Calling("g", graph["g"]), Calling("h", graph["h"]), Load("a", "A"),
         Assign("b", Fn("f", <<Nm("a")>>)), Assign("c", Fn("g", <<Nm("b")>>)), Do(Fn("h", <<Nm("c")>>))>>,
       {"cycles"}) EXCEPT !.truth = graph]

\* Projects: an entry that imports functions under their own and other names, from modules,
\* packages and relatively; modules that import one another and the entry.
Helper(n) == Def(n, <<Param("d")>>, <<Return(On("d", <<Filter1>>))>>)
Saver(n) ==
  Def(n, <<Param("d"), Default("t", S("T"))>>, <<Do(On("d", SaveSteps(Nm("t")))), Return(Nm("d"))>>)
Both ==
  Def("f", <<Param("e")>>, <<Assign("a", On("e", <<Select1>>)), Save("a", "V"), Return(Nm("a"))>>)
From(module, original, symbol) == FromImport(0, module, original, symbol)
Imports ==
  {<<From(<<"util">>, "f", "f"), Helper("f")>>, <<From(<<"util">>, "s", "f"), Saver("s")>>,
   <<From(<<"pkg">>, "p", "f"), Both>>, <<From(<<"pkg", "sub">>, "s", "f"), Saver("s")>>,
   <<FromImport(1, <<"util">>, "f", "f"), Helper("f")>>,
   <<FromImport(1, <<"pkg", "sub">>, "s", "f"), Saver("s")>>}
UtilLinks == {<<>>, <<From(<<"main">>, "x", "x"), From(<<"pkg">>, "sub", "sub")>>, <<Import(<<"pkg", "sub">>)>>}
SubLinks == {<<>>, <<FromImport(2, <<"util">>, "f", "f"), FromImport(3, <<>>, "x", "x")>>,
             <<FromImport(1, <<>>, "p", "p"), Import(<<"os">>), From(<<"leaf">>, "x", "x")>>}
Tree(main, utils, subs) ==
  [files |-> <<"main">> :> main @@ <<"util">> :> Module(utils \o <<Helper("f"), Saver("s")>>)
     @@ <<"pkg", "__init__">> :> Module(<<[Both EXCEPT !.n = "p"]>>)
     @@ <<"pkg", "sub">> :> Module(subs \o <<Saver("s")>>)
     @@ <<"lib", "leaf">> :> (IF subs = <<>> THEN Broken ELSE Module(<<From(<<"util">>, "f", "f")>>)),
   roots |-> <<<<>>, <<"lib">>>>]
ProjectJob(import, utils, subs, depth) ==
  LET other == IF import[1].raws[1].module = <<"util">> THEN <<Import(<<"pkg", "sub">>), Import(<<"leaf">>)>>
               ELSE <<Import(<<"util">>)>>
      main == Module(other \o <<import[1], Load("a", "A"), Load("e", "E"), Do(Fn("f", <<Nm("e")>>)),
                                Assign("b", Fn("f", <<Nm("a")>>)), Save("b", "U")>>)
  IN [Job(<<>>, IF depth = 5 THEN {"lineage"} ELSE {}) EXCEPT
        !.kind = "project", !.tree = Tree(main, utils, subs), !.entry = <<"main">>,
        !.depth = depth, !.truth = "f" :> import[2]]
WriterJob ==
  LET finish == Def("f", <<Param("w")>>, <<Do(On("w", <<M("save", <<S("T")>>)>>))>>)
  IN [Job(<<>>, {"lineage"}) EXCEPT
        !.kind = "project", !.entry = <<"main">>, !.depth = 5, !.truth = "f" :> finish,
        !.tree = [files |-> <<"util">> :> Module(<<finish>>) @@
                    <<"main">> :> Module(<<From(<<"util">>, "f", "f"), Load("a", "A"),
                      Assign("w", On("a", <<Dot("write"), M("mode", <<S("append")>>)>>)),
                      Do(Fn("f", <<Nm("w")>>))>>), roots |-> <<<<>>>>]]
ProjectJobs ==
  {WriterJob} \cup
  {ProjectJob(i, u, s, d) : i \in Imports, u \in UtilLinks, s \in SubLinks, d \in {0, 1, 2, 5}}

\* Notebooks, whose cells were run in their order or not; and the files without Python.
Code(lines, count) == Cell("python", "", lines, <<>>, count)
SqlCell(magic, text) == Cell(IF magic = "" THEN "sql" ELSE "python", magic, <<>>, <<text>>, 0)
Remark == [Code(<<>>, 0) EXCEPT !.code = FALSE]
Shell == Cell("python", "bash", <<MagicLine>>, <<>>, 4)
RunOther == Code(<<Py(Do(Chain(Nm("dbutils"), <<Dot("notebook"), M("run", <<S("other")>>)>>)))>>, 2)
Notebooks ==
  {<<first, Remark, second, third, SqlCell("", "create db.u"), Code(<<Py(Save("b", "T"))>>, 3)>> :
     first \in {Code(<<Py(Load("a", "A")), MagicLine>>, n) : n \in {1, 2}},
     second \in {SqlCell("", "insert db.t"), SqlCell("sql", "from db.s"), Shell, RunOther},
     third \in {Code(<<Py(Let("b", "a", <<Filter1>>))>>, n) : n \in {0, 1, 2}}}
Databricks ==
  {<<Code(<<Py(Load("a", "A"))>>, 0), c, Code(<<Py(Let("b", "a", <<Filter1>>)), Py(Save("b", "T"))>>, 0)>> :
     c \in {Cell("python", "md", <<>>, <<>>, 0), Cell("run", "run", <<RunLine("setup")>>, <<>>, 0)}}
NotebookJobs ==
  {FileJob([NoFile EXCEPT !.ext = e, !.cells = c], {"lineage", "doubt"}) :
     e \in {".ipynb", ".dbc"}, c \in Notebooks}
  \cup {FileJob([NoFile EXCEPT !.header = TRUE, !.cells = c], {"lineage"}) : c \in Databricks}
OtherJobs ==
  {FileJob([NoFile EXCEPT !.ext = ".sql", !.text = <<"insert db.t">>], {"lineage"})}
  \cup {FileJob([NoFile EXCEPT !.ext = e], {}) : e \in {".scala", ".r"}}
  \cup {FileJob([NoFile EXCEPT !.header = TRUE, !.cells = <<Cell("sql", "sql", <<>>, <<"insert db.t">>, 0)>>], {})}

MCJobs ==
  JobsOf(Chains, {"lineage", "frames"}) \cup JobsOf(Columned, {"frames"}) \cup JobsOf(Functions, {"lineage"})
    \cup JobsOf(Views, {"lineage"}) \cup JobsOf(Branches, {"lineage", "doubt"})
    \cup JobsOf(Values, {"lineage"}) \cup JobsOf(Endpoints, {"endpoints"})
    \cup JobsOf(Clusters, {"endpoints"}) \cup JobsOf(Unknowns, {"unknown"})
    \cup JobsOf(Dynamics, {"doubt"})
    \cup {Cycle(graph) : graph \in CallGraphs} \cup ProjectJobs \cup NotebookJobs
    \cup OtherJobs

\* What the documentation shows first: the shortcuts of the formats, and a join that is
\* written without a name.
Shortcut(n, path) == Assign(n, Chain(Nm("spark"), <<Dot("read"), M("parquet", <<S(path)>>)>>))
MCShortcuts ==
  {Job(<<Shortcut("a", "A"), Shortcut("b", "B"), SaveAfter("a", <<Join1("b")>>, "T")>>, {"lineage"})}

-----------------------------------------------------------------------------
MCDotted == {"db.s", "db.t", "db.u"}

\* The visitor and the reference interpreter.  (They are parameters of the state machine,
\* each behind a LET, because TLC counts what is covered by unfolding every operator it
\* meets: unfolding these, recursive as they are over syntax trees, takes all memory.)
MCVisit(w, st) == LET next == Visit(w, st) IN next
MCExecutions(body, truth) == LET runs == Executions(body, truth) IN runs
=============================================================================
