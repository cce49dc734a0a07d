--------------------------- MODULE SparkConnectors ---------------------------
(***************************************************************************)
(* The Spark parser's connectors: which table a format and its options     *)
(* name, and which Connection node an I/O site belongs to.                 *)
(*                                                                         *)
(* What regular expressions and urlparse take apart is given by the        *)
(* constants: the parts of each JDBC URL and each URI, and the hosts of    *)
(* each comma-separated list, in the order written.  A port 0 is absent.   *)
(***************************************************************************)
EXTENDS SparkValues

CONSTANTS
  Jdbc,      \* url -> [sub, host, port, db]
  Uri,       \* location -> [scheme, host, port, container]; scheme "" of a path /...
  HostLists, \* value -> sequence of [host, port]
  Lower,     \* the hosts spelled in upper case -> their lower case
  HostOrder, \* hosts of lists in the order str.lower sorts them as spelled; none is a
             \* prefix of another, which its port would then put elsewhere
  PortNumber \* the text of a port -> its number

Lowered(host) == IF host \in DOMAIN Lower THEN Lower[host] ELSE host

\* canonical_host and LOCALHOST_ALIASES.
Canonical(host) ==
  IF Lowered(host) \in {"localhost", "127.0.0.1", "::1", "0.0.0.0"} THEN "localhost"
  ELSE Lowered(host)

\* JDBC_DEFAULT_PORTS.
JdbcPorts ==
  [postgresql |-> 5432, postgres |-> 5432, mysql |-> 3306, mariadb |-> 3306,
   oracle |-> 1521, sqlserver |-> 1433, db2 |-> 50000, redshift |-> 5439,
   snowflake |-> 443, hive2 |-> 10000, hive |-> 10000, h2 |-> 9092, sqlite |-> 0,
   clickhouse |-> 8123, bigquery |-> 443, vertica |-> 5433, teradata |-> 1025,
   presto |-> 8080, trino |-> 8080]
DefaultPort(sub) == IF sub \in DOMAIN JdbcPorts THEN JdbcPorts[sub] ELSE 0

\* URI_SCHEMES and lookup_scheme: [klass, port, at], at when the authority is
\* container@account.
Store(klass, port, at) == [klass |-> klass, port |-> port, at |-> at]
Scheme(s) ==
  CASE s \in {"s3", "s3a", "s3n"} -> Store("s3", 0, FALSE)
    [] s \in {"gs", "gcs"} -> Store("gcs", 0, FALSE)
    [] s \in {"abfs", "abfss"} -> Store("adls", 0, TRUE)
    [] s \in {"wasb", "wasbs"} -> Store("azure_blob", 0, TRUE)
    [] s = "hdfs" -> Store("hdfs", 8020, FALSE)
    [] s = "file" -> Store("local_fs", 0, FALSE)
    [] s = "dbfs" -> Store("dbfs", 0, FALSE)
    [] s \in {"http", "https"} -> Store("http", 0, FALSE)
    [] s \in {"ftp", "sftp"} -> Store("ftp", 0, FALSE)
    [] OTHER -> Store("unknown:" \o s, 0, FALSE)

\* The spellings of the connectors' formats.
Redshift == {"redshift", "io.github.spark_redshift_community.spark.redshift",
             "com.databricks.spark.redshift"}
Snowflake == {"snowflake", "net.snowflake.spark.snowflake"}
BigQuery == {"bigquery", "com.google.cloud.spark.bigquery"}
Hudi == {"hudi", "org.apache.hudi"}
Mongo == {"mongo", "mongodb", "com.mongodb.spark.sql.defaultsource"}
Cassandra == {"cassandra", "org.apache.spark.sql.cassandra"}
Elastic == {"elasticsearch", "es", "org.elasticsearch.spark.sql"}
Is(fmt, names) == Len(fmt) = 1 /\ fmt[1] \in names

RECURSIVE FirstOf(_, _)
FirstOf(opts, keys) ==
  IF keys = <<>> THEN <<>> ELSE First(Get(opts, Head(keys)), FirstOf(opts, Tail(keys)))

Servers(opts) == FirstOf(opts, <<"kafka.bootstrap.servers", "bootstrap.servers">>)
Topic(opts) == FirstOf(opts, <<"subscribe", "topic", "assign">>)
DbTable(opts) == FirstOf(opts, <<"dbtable", "query">>)
HasDot(name) == \E i \in DOMAIN name : name[i] \in Dotted
Dots(parts) ==
  LET given == SelectSeq(parts, LAMBDA p : p # <<>>)
  IN FlattenSeq([i \in DOMAIN given |-> (IF i = 1 THEN <<>> ELSE <<".">>) \o given[i]])

-----------------------------------------------------------------------------
\* match_connector and its six matchers: [ok, table].
NoMatch == [ok |-> FALSE, table |-> TableIR(<<>>, <<>>, <<>>)]
Match(fqn, loc, fmt) == [ok |-> TRUE, table |-> TableIR(fqn, loc, <<fmt>>)]

MatchKafka(opts) ==
  LET fqn == IF Servers(opts) \o Topic(opts) = <<>> THEN <<>>
             ELSE <<"kafka://">> \o Servers(opts) \o <<"/">> \o Topic(opts)
  IN Match(fqn, fqn, "kafka")
MatchIceberg(opts, path, table) ==
  LET fqn == First(table, First(path, Get(opts, "path"))) IN Match(fqn, fqn, "iceberg")
MatchHudi(opts, path) ==
  LET loc == First(path, Get(opts, "path")) IN Match(loc, loc, "hudi")
MatchSnowflake(opts) ==
  LET table == DbTable(opts)
      db == FirstOf(opts, <<"sfDatabase", "sfdatabase">>)
      schema == FirstOf(opts, <<"sfSchema", "sfschema">>)
  IN Match(IF HasDot(table) THEN table ELSE Dots(<<db, schema, table>>),
           PrefixText("snowflake://", FirstOf(opts, <<"sfUrl", "sfurl">>)), "snowflake")
MatchBigQuery(opts, arg) ==
  LET table == First(Get(opts, "table"), arg)
  IN Match(IF HasDot(table) THEN table ELSE <<>>, PrefixText("bigquery://", table), "bigquery")
MatchRedshift(opts) ==
  Match(First(DbTable(opts), Get(opts, "url")), Get(opts, "url"), "redshift")

MatchConnector(fmt, opts, path, table) ==
  CASE Is(fmt, {"kafka"}) -> MatchKafka(opts)
    [] Is(fmt, {"iceberg"}) -> MatchIceberg(opts, path, table)
    [] Is(fmt, Hudi) -> MatchHudi(opts, path)
    [] Is(fmt, Snowflake) -> MatchSnowflake(opts)
    [] Is(fmt, BigQuery) -> MatchBigQuery(opts, table)
    [] Is(fmt, Redshift) -> MatchRedshift(opts)
    [] OTHER -> NoMatch

-----------------------------------------------------------------------------
\* sort_host_list: the hosts of a list, once each, in order.
NoHost == [host |-> "", port |-> 0]
IndexIn(seq, e) == CHOOSE i \in DOMAIN seq : seq[i] = e
Precedes(a, b) ==
  LET i == IndexIn(HostOrder, Lowered(a.host))
      j == IndexIn(HostOrder, Lowered(b.host))
  IN i < j \/ (i = j /\ a.port < b.port)
\* (bug: the hosts stay in the order written)
FirstHostWritten(value) ==
  IF value \in DOMAIN HostLists THEN Head(HostLists[value]) ELSE NoHost
FirstHost(value) ==
  IF value \notin DOMAIN HostLists THEN NoHost
  ELSE CHOOSE a \in ToSet(HostLists[value]) :
         \A b \in ToSet(HostLists[value]) : a = b \/ Precedes(a, b)
Or(port, default) == IF port = 0 THEN default ELSE port

\* _parse_object_store_uri: klass "" when the location has no scheme that says more.
NoStore == NoConn
Container(p) == IF p.container = "" THEN <<>> ELSE <<p.container>>
\* canonical_host of an authority with its port, which is then no alias of localhost.
NetLoc(p) == IF p.port = 0 THEN Canonical(p.host) ELSE Lowered(p.host) \o ":" \o ToString(p.port)
ObjectStore(loc) ==
  IF loc \notin DOMAIN Uri THEN NoStore
  ELSE LET p == Uri[loc]
           e == Scheme(p.scheme)
           authority == IF e.klass = "local_fs" THEN "local"
                        ELSE IF e.klass = "dbfs" THEN "databricks"
                        ELSE IF e.klass = "hdfs" THEN Canonical(p.host) ELSE NetLoc(p)
           c == Conn(e.klass, authority, Or(p.port, e.port), IF e.at THEN Container(p) ELSE <<>>)
       IN IF p.scheme = "" THEN Conn("local_fs", "local", 0, <<>>)
          ELSE IF e.klass = "unknown:" \o p.scheme
          THEN [c EXCEPT !.port = 0, !.resolved = FALSE, !.source = "unknown_scheme"]
          ELSE c

\* _parse_jdbc_url.
ParseJdbc(url) ==
  LET p == Jdbc[url]
  IN IF url \notin DOMAIN Jdbc THEN Conn("jdbc", "", 0, <<>>)
     ELSE Conn("jdbc:" \o p.sub, Canonical(p.host), Or(p.port, DefaultPort(p.sub)), p.db)

\* _mint_unresolved_connection.
UnresolvedConnection(fmt, source) ==
  [Conn(IF fmt = <<>> THEN "unknown" ELSE fmt[1],
        IF source.det = "" THEN source.src ELSE source.src \o ":" \o source.det, 0, <<>>)
     EXCEPT !.resolved = FALSE, !.source = source.src]

Metastore == Conn("hive", "metastore", 0, <<"default">>)

\* derive_connection, the systems addressed by options.
JdbcConnection(fmt, opts, loc) ==
  LET c == ParseJdbc(First(Get(opts, "url"), loc))
  IN IF Is(fmt, Redshift) THEN [c EXCEPT !.klass = "redshift"] ELSE c
HostConnection(klass, value, port, default, db) ==
  LET h == FirstHost(value)
  IN Conn(klass, Canonical(h.host), Or(port, Or(h.port, default)), db)
PortOption(opts, keys) ==
  LET text == FirstOf(opts, keys) IN IF text \in DOMAIN PortNumber THEN PortNumber[text] ELSE 0
SnowflakeConnection(opts) ==
  LET url == FirstOf(opts, <<"sfUrl", "sfurl">>)
  IN Conn("snowflake", IF url \in DOMAIN Uri THEN Canonical(Uri[url].host) ELSE "", 443,
          FirstOf(opts, <<"sfDatabase", "sfdatabase">>))
MongoConnection(opts) ==
  LET uri == FirstOf(opts, <<"uri", "spark.mongodb.input.uri", "spark.mongodb.output.uri",
               "spark.mongodb.read.connection.uri", "spark.mongodb.write.connection.uri",
               "connection.uri">>)
      db == Get(opts, "database")
  IN IF uri \notin DOMAIN Uri THEN Conn("mongodb", "", 27017, db)
     ELSE Conn("mongodb", Canonical(Uri[uri].host), Or(Uri[uri].port, 27017),
               First(db, Container(Uri[uri])))
OptionConnection(fmt, opts, loc, table) ==
  CASE Is(fmt, {"jdbc"} \cup Redshift) -> JdbcConnection(fmt, opts, loc)
    [] Is(fmt, {"kafka"}) -> HostConnection("kafka", Servers(opts), 0, 9092, <<>>)
    [] Is(fmt, Snowflake) -> SnowflakeConnection(opts)
    [] Is(fmt, BigQuery) -> Conn("bigquery", "bigquery.googleapis.com", 443,
                                 FirstOf(opts, <<"project", "parentProject">>))
    [] Is(fmt, Mongo) -> MongoConnection(opts)
    [] Is(fmt, Cassandra) ->
         HostConnection("cassandra",
                        FirstOf(opts, <<"spark.cassandra.connection.host", "host">>),
                        PortOption(opts, <<"spark.cassandra.connection.port", "port">>), 9042,
                        Get(opts, "keyspace"))
    [] OTHER ->
         HostConnection("elasticsearch", FirstOf(opts, <<"es.nodes", "nodes">>),
                        PortOption(opts, <<"es.port", "port">>), 9200,
                        First(FirstOf(opts, <<"es.resource", "resource">>), First(table, loc)))
ByOptions == {"jdbc", "kafka"} \cup Redshift \cup Snowflake \cup BigQuery \cup Mongo
               \cup Cassandra \cup Elastic

\* derive_connection, the formats addressed by a path, and the catalogue.
PathConnection(fmt, opts, loc) ==
  LET store == ObjectStore(First(loc, Get(opts, "path")))
  IN IF Is(fmt, {"iceberg"} \cup Hudi)
     THEN Conn(IF Is(fmt, Hudi) THEN "hudi" ELSE "iceberg", store.server, store.port, <<>>)
     ELSE store
DeriveConnection(fmt, opts, loc, table, source) ==
  IF source.src # "" THEN UnresolvedConnection(fmt, source)
  ELSE IF Is(fmt, ByOptions) THEN OptionConnection(fmt, opts, loc, table)
  ELSE IF Is(fmt, {"iceberg"} \cup Hudi)
  THEN PathConnection(fmt, opts, First(loc, First(Get(opts, "path"), table)))
  ELSE IF fmt = <<>> \/ Is(fmt, {"hive"}) THEN Metastore
  ELSE IF table # <<>> /\ table \notin DOMAIN Uri THEN Metastore
  ELSE IF PathConnection(fmt, opts, loc) # NoStore THEN PathConnection(fmt, opts, loc)
  ELSE [Conn("unknown:" \o fmt[1], "", 0, <<>>)
          EXCEPT !.resolved = FALSE, !.source = "unknown_format"]
=============================================================================
