------------------------------- MODULE SparkIR -------------------------------
(***************************************************************************)
(* What the Spark visitor builds and keeps: DataFrames, and the state of a *)
(* _PySparkVisitor.                                                        *)
(*                                                                         *)
(* A string the visitor resolved is the sequence of the pieces it is made  *)
(* of, so that "db." + t is <<"db.", "t">>; <<>> is None (and "").         *)
(*                                                                         *)
(* DataFrames are objects with an identity: v.heap holds them, an index of *)
(* it is a reference, 0 is None, and v.ir is ir.dataframes.                *)
(***************************************************************************)
EXTENDS SparkSyntax, TLC

NoFun == [x \in {} |-> x]
Get(f, key) == IF key \in DOMAIN f THEN f[key] ELSE <<>>
First(s, t) == IF s # <<>> THEN s ELSE t
PrefixText(text, s) == IF s = <<>> THEN <<>> ELSE <<text>> \o s

\* ConnectionIR, with the parts its id is hashed from; NoConn is None.
Conn(klass, server, port, db) ==
  [klass |-> klass, server |-> server, port |-> port, db |-> db, schema |-> <<>>,
   resolved |-> TRUE, source |-> ""]
NoConn == Conn("", "", 0, <<>>)
\* connection_id: klass, server, port and dbname; the port 0 is left out.
ConnectionId(c) == <<c.klass, c.server, c.port, c.db>>

TableIR(fqn, loc, fmt) == [fqn |-> fqn, loc |-> loc, fmt |-> fmt, conn |-> NoConn]

\* _writer_state and _reader_state: the options a chain collected so far.
NoStash == [on |-> FALSE]
WriterStash(streaming) ==
  [on |-> TRUE, format |-> <<>>, mode |-> <<>>, options |-> NoFun, cols |-> <<>>,
   streaming |-> streaming, callback |-> ""]

NoHints == [cached |-> FALSE, level |-> "", checkpointed |-> FALSE, count |-> FALSE,
            columns |-> <<>>, broadcast |-> FALSE]

\* DataFrameIR.  fields are column names in order; a write is [to, mode, via, cols].
BlankFrame ==
  [var |-> "", order |-> 0, anonymous |-> FALSE, conditional |-> FALSE, partial |-> FALSE,
   sql |-> FALSE, reads |-> {}, writes |-> <<>>, fields |-> <<>>, derivations |-> {},
   edges |-> <<>>, joins |-> <<>>, renames |-> <<>>, hints |-> NoHints, chain |-> <<>>,
   anchor |-> FALSE, inputs |-> <<>>, group |-> <<>>, writer |-> NoStash, reader |-> NoStash]

\* dataframe_id: the name and the creation order, within one script.
NoId == <<>>
FrameId(df) == <<df.var, df.order>>

Edge(df, via) == [var |-> df.var, id |-> FrameId(df), via |-> via]
NameEdge(name, via) == [var |-> name, id |-> NoId, via |-> via]
Derivation(to, from, via) == [to |-> to, from |-> from, via |-> via]
Step(op, kind, ins, outs) == [op |-> op, kind |-> kind, ins |-> ins, outs |-> outs, other |-> ""]

-----------------------------------------------------------------------------
\* _PySparkVisitor.__init__.
NewVisitor(externals) ==
  [heap |-> <<>>, ir |-> <<>>, symbols |-> NoFun, versions |-> NoFun,
   functions |-> NoFun, externals |-> externals, recursive |-> {}, factories |-> NoFun,
   methods |-> NoFun, bases |-> NoFun, attributes |-> NoFun, properties |-> NoFun,
   instances |-> NoFun, strings |-> NoFun, lists |-> NoFun, dicts |-> NoFun,
   runtime |-> NoFun, views |-> NoFun, udfs |-> {}, imports |-> <<>>, warnings |-> <<>>,
   anon |-> 0, depth |-> 0]

Warn(v, type) == [v EXCEPT !.warnings = Append(@, type)]
Bind(v, name, i) == [v EXCEPT !.symbols = (name :> i) @@ @]
Unbind(f, name) == [x \in DOMAIN f \ {name} |-> f[x]]
Lookup(v, name) == IF name \in DOMAIN v.symbols THEN v.symbols[name] ELSE 0
List(v, i) == IF Contains(v.ir, i) THEN v ELSE [v EXCEPT !.ir = Append(@, i)]
Ok(v, i) == [v |-> v, r |-> i]
Newest(v) == Len(v.heap)

\* _next_order: how many frames of that name were minted before.
NextOrder(v, name) == IF name \in DOMAIN v.versions THEN v.versions[name] ELSE 0
Count(v, name) == [v EXCEPT !.versions = (name :> NextOrder(v, name) + 1) @@ @]

\* _new_df: a frame without a name is called __anon_n and listed at once.  The new
\* frame is Newest of the result.
NewFrame(v, name) ==
  LET anonymous == name = ""
      var == IF anonymous THEN "__anon_" \o ToString(v.anon + 1) ELSE name
      df  == [BlankFrame EXCEPT !.var = var, !.order = NextOrder(v, var),
                                !.anonymous = anonymous]
      w   == [Count(v, var) EXCEPT !.heap = Append(@, df)]
  IN IF anonymous THEN [w EXCEPT !.anon = @ + 1, !.ir = Append(@, Newest(w))] ELSE w

\* What both a chain step and an alias take over from their source.
Inherit(df, src) ==
  [df EXCEPT !.reads = src.reads, !.renames = src.renames, !.hints = src.hints,
             !.conditional = src.conditional, !.partial = src.partial]

\* _clone_for_reassignment: x = y is a new frame that derives from y.
CloneFrame(v, i, target) ==
  LET src == v.heap[i]
      w == NewFrame(v, target)
  IN [w EXCEPT !.heap[Newest(w)] =
        [Inherit(@, src) EXCEPT !.fields = src.fields, !.edges = <<Edge(src, "alias")>>,
                                !.writer = src.writer, !.reader = src.reader]]

\* _chain_step: the frame a method of frame i returns.
ChainStep(v, i, via, copyFields) ==
  LET src == v.heap[i]
      w == NewFrame(v, "")
  IN [w EXCEPT !.heap[Newest(w)] =
        [Inherit(@, src) EXCEPT !.fields = IF copyFields THEN src.fields ELSE <<>>,
                                !.edges = <<Edge(src, via)>>]]

\* _record_chain_step.
Record(v, i, step) == [v EXCEPT !.heap[i].chain = Append(@, step)]

\* The end of _visit_assign and _bind_named: the frame takes the variable's name, and
\* with it a new id, unless it was made under that name.
NameFrame(v, name, i) ==
  LET df == v.heap[i]
      w == IF df.var = name /\ ~ df.anonymous THEN v
           ELSE [Count(v, name) EXCEPT
                   !.heap[i] = [@ EXCEPT !.var = name, !.anonymous = FALSE,
                                         !.order = NextOrder(v, name)]]
  IN List(Bind(w, name, i), i)
=============================================================================
