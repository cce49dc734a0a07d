------------------------------ MODULE MCWriters ------------------------------
(***************************************************************************)
(* Small files for the three writers: scripts, apps and workbooks that     *)
(* share a table, a connection or a column, parsed once or twice.          *)
(***************************************************************************)
EXTENDS Writers

\* The same table, spelt in lower and in upper case, and one of two parts.
Orders == Named(<<"db", "s", "orders">>, FALSE, "pg")
ORDERS == Named(<<"db", "s", "orders">>, TRUE, "")
Short == Named(<<"s", "orders">>, TRUE, "")

Frame(name, inputs, reads, fields, writes, derives) ==
  [name |-> name, anchor |-> TRUE, inputs |-> inputs, reads |-> reads, fields |-> fields,
   writes |-> writes, derives |-> derives]
Script(path, frames) == [path |-> path, udfs |-> <<>>, frames |-> frames]

\* A script that reads a path and writes the table; its second version drops a column
\* and a DataFrame.
Etl1 == Script("etl.py",
  <<Frame("raw", <<>>, <<Path("in", "")>>, <<>>, <<>>, <<>>),
    Frame("out", <<1>>, <<>>, <<"x", "y">>, <<Orders>>, <<<<"x", "y">>>>)>>)
Etl2 == Script("etl.py", <<Frame("out", <<>>, <<>>, <<"x">>, <<Orders>>, <<>>)>>)
Reader(t) == Script("reader.py", <<Frame("df", <<>>, <<t>>, <<"x">>, <<>>, <<>>)>>)
Lib == [Script("lib.py", <<Frame("lib", <<>>, <<>>, <<"x">>, <<>>, <<>>)>>) EXCEPT !.udfs = <<"f">>]
Repo == [root |-> "repo", modules |-> <<Lib, Reader(ORDERS)>>, imports |-> <<<<2, 1>>>>]

App(base, loads) ==
  [dir |-> "d", base |-> base, binary |-> "", connections |-> <<>>, loads |-> loads, joins |-> <<>>,
   platforms |-> <<>>, sources |-> <<>>, datasets |-> <<>>, others |-> <<>>, lineage |-> <<>>]
Load(name, t) == [name |-> name, sql |-> t]
Sales == [App("sales", <<Load("o", <<ORDERS>>), Load("p", <<>>)>>) EXCEPT !.joins = <<<<"o", "p">>>>]
Risk == [App("risk", <<Load("o", <<Short>>)>>) EXCEPT !.binary = "sales"]
Rich ==
  [App("rich", <<>>) EXCEPT
     !.connections = <<"c">>,
     !.platforms = <<[kind |-> "snowflake", conns |-> <<"c">>]>>,
     !.sources = <<<<"c", "l">>, <<"", "file">>>>,
     !.datasets = <<[name |-> "t", fields |-> <<"f">>, keys |-> <<"k">>]>>,
     !.others = <<<<"UiObject", "chart">>, <<"Variable", "v">>>>,
     !.lineage = <<Edge(Field(App("rich", <<>>), "t", "f"), "FEEDS_OBJECT",
                        Other(App("rich", <<>>), "UiObject", "chart"))>>]

Physical(name) == [name |-> name, calc |-> FALSE]
Calculated(name) == [name |-> name, calc |-> TRUE]
Source(name, fields) ==
  [name |-> name, db |-> "db", schema |-> "s", conns |-> {}, tables |-> {<<"orders">>},
   fields |-> fields, derives |-> {}, filters |-> {}, derived |-> {}, levels |-> {}]
Book(path, sources) ==
  [path |-> path, datasources |-> sources, worksheets |-> {}, dashboards |-> {},
   parameters |-> {}, scoped |-> FALSE, crosses |-> {}]

\* A workbook with a column and a calculated field; its second version has one field less.
Book1 == Book("a.twb", {[Source("ds", {Physical("x"), Calculated("m")}) EXCEPT !.derives = {<<"m", "x">>}]})
Book2 == Book("a.twb", {Source("ds", {Physical("x")})})
OtherBook == Book("b.twb", {Source("ds", {Physical("x")})})

\* A workbook with something of everything.
Full ==
  [Book("full.twb",
     {[Source("ds", {Physical("x"), Calculated("m")}) EXCEPT
         !.conns = {"pg"}, !.derives = {<<"m", "x">>}, !.filters = {"x"},
         !.derived = {[kind |-> "GROUP", name |-> "g", from |-> {"x"}]},
         !.levels = {<<"h", "x">>}],
      Source("other", {Calculated("n")})}) EXCEPT
     !.worksheets = {[name |-> "w1", uses |-> {<<"ds", "x">>}, filters |-> {<<"ds", "m">>},
                      sorts |-> {<<"ds", "x">>}, blends |-> {<<"ds", "other">>}],
                     [name |-> "w2", uses |-> {}, filters |-> {}, sorts |-> {}, blends |-> {}]},
     !.dashboards = {[name |-> "d", shows |-> {"w1"}, zones |-> {[n |-> 1, param |-> "p"]},
                      actions |-> {[kind |-> "filter", from |-> {"w1"}, to |-> {"w2"}, param |-> ""],
                                   [kind |-> "parameter", from |-> {"w1"}, to |-> {}, param |-> "p"]}]},
     !.parameters = {"p"}, !.scoped = TRUE,
     !.crosses = {<<<<"other", "n">>, <<"ds", "x">>>>, <<<<"other", "n">>, <<"Parameters", "p">>>>}]

Parse(script) == [kind |-> "script", file |-> script]
ParseAll(project) == [kind |-> "project", file |-> project]
Load1(app) == [kind |-> "app", file |-> app]
Import(book, overwrite) == [kind |-> "workbook", file |-> book, overwrite |-> overwrite]

MCMixes ==
  {<<Parse(Etl1), Parse(Etl2), Import(OtherBook, FALSE)>>,
    <<Import(Book1, FALSE), Import(Book2, TRUE), Import(OtherBook, FALSE)>>,
    <<Parse(Reader(ORDERS)), Load1(Sales), Import(OtherBook, TRUE)>>,
    <<Parse(Reader(Short)), Load1(Risk), Load1(Sales)>>,
    <<ParseAll(Repo), Parse(Lib), Parse(Etl2)>>,
    <<Load1(Rich), Load1(Sales)>>,
    <<Import(Full, FALSE), Import(Full, TRUE)>>}
=============================================================================
