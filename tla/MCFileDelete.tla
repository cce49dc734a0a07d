----------------------------- MODULE MCFileDelete -----------------------------
(* A graph two TWS files, one older TWS parse without a :TwsFile and two Spark  *)
(* scripts have left, the scripts writing columns of one table.                 *)
EXTENDS FileDelete, TwsFiles

Script(s) == NameNode("SparkScript", s)
Frame(s) == NameNode("DataFrame", s)
Column(s) == NameNode("Attribute", s)
Orders == NameNode("Table", "orders")
Warehouse == NameNode("Connection", "warehouse")

ScriptSteps(s) ==
  <<NodeRows({Script(s), Frame(s), Column(s), Orders, Warehouse}),
    EdgeRows({Edge(Script(s), "CONTAINS_DATAFRAME", Frame(s)), Edge(Frame(s), "HAS_FIELD", Column(s)),
              Edge(Frame(s), "WRITES_TABLE", Orders), Edge(Orders, "HAS_COLUMN", Column(s)),
              Edge(Frame(s), "WRITES_TO_CONNECTION", Warehouse)})>>

\* QlikView stores a table into a file that is a table of the cross-parser graph.
App == NameNode("QlikScript", "app")
Loaded == NameNode("QlikTable", "loaded")
AppSteps ==
  <<NodeRows({App, Loaded, Orders}),
    EdgeRows({Edge(App, "CONTAINS_TABLE", Loaded), Edge(Loaded, "STORED_AS", Orders)})>>

Legacy == [NoUnit EXCEPT !.streams = <<Stream("Old", {Job("Old", "RUN", {}, {}, {})}, {}, {})>>]

TwsSteps == Steps(MainLessStream, "p1", FALSE)
AllSteps == TwsSteps \o Steps(Extra, "p2", FALSE) \o Steps(Legacy, "", FALSE)
              \o ScriptSteps("s1") \o AppSteps
AllGraph == {GraphOf(AllSteps)}
TwoTwsGraph == {GraphOf(TwsSteps \o Steps(Extra, "p2", FALSE))}

Items == {[source |-> "tws", id |-> FileNode("p1").id],
          [source |-> "tws", id |-> ScheduleNode(<<"W1", "Old">>).id],
          [source |-> "spark", id |-> Script("s1").id],
          [source |-> "qlikview", id |-> App.id],
          [source |-> "oracle", id |-> App.id]}
Single(items) == {[bulk |-> FALSE, items |-> <<i>>] : i \in items}
AllRequests == Single(Items) \cup {[bulk |-> TRUE, items |-> <<i, j>>] : i, j \in Items}
TwsRequests == Single({[source |-> "tws", id |-> FileNode("p1").id]})
=============================================================================
