--------------------------- MODULE TwsIngest_proofs ---------------------------
(***************************************************************************)
(* First of GraphWriter, for any number of requests and any plans: the     *)
(* edges of the graph always join nodes of it; while no request overwrites *)
(* nothing is taken away and a request that is done has left its whole     *)
(* file, provided its plan writes the ends of an edge before the edge.     *)
(* The second is not inductive: what makes it so is that the statements a  *)
(* request has already sent are still established, whoever else wrote      *)
(* since.                                                                  *)
(*                                                                         *)
(* Then of TwsIngest, for any number of requests and any files: the plan of*)
(* a file deletes first and only to overwrite, writes the ends of an edge  *)
(* before the edge, and the file's jobs among its nodes.  A request is     *)
(* therefore a GraphWriter request that leaves its file whole, Postgres is *)
(* never ahead of the graph, parsing a file again adds nothing to it, and a*)
(* request that overwrites beside no other leaves no job of an older       *)
(* version.                                                                *)
(***************************************************************************)
EXTENDS TwsIngest, PropertyGraph_proofs

\* The edges of statement st that join two nodes of the plan.
OwnEdges(steps, st) == {e \in st.rows : e.from \in NodesOf(steps) /\ e.to \in NodesOf(steps)}

\* What the statements before the n-th were to write is in the graph.
Established(steps, n) ==
  \A k \in DOMAIN steps : k < n =>
    /\ steps[k].op = "nodes" => steps[k].rows \subseteq graph.nodes
    /\ steps[k].op = "edges" => OwnEdges(steps, steps[k]) \subseteq graph.edges

IInv ==
  /\ TypeOK
  /\ \A w \in Writers : pc[w] = "done" => at[w] = Len(plan[w].steps) + 1
  /\ ~ Overwriting => \A w \in Writers : Established(plan[w].steps, at[w])

-----------------------------------------------------------------------------
(* The statements.                                                         *)

\* A statement that is not a deletion takes nothing away.
LEMMA MergesGrow ==
  ASSUME NEW g, NEW st, st.op \in {"nodes", "edges"}
  PROVE  /\ g.nodes \subseteq Applied(g, st).nodes
         /\ g.edges \subseteq Applied(g, st).edges
  BY DEF Applied, MergeNodes, MatchMergeEdges

\* Whatever the statement, no edge is left without its ends.
LEMMA EndsStay ==
  ASSUME NEW g, NEW st, st.op \in {"nodes", "edges", "delete"},
         \A e \in g.edges : e.from \in g.nodes /\ e.to \in g.nodes
  PROVE  \A e \in Applied(g, st).edges :
           e.from \in Applied(g, st).nodes /\ e.to \in Applied(g, st).nodes
  BY DEF Applied, MergeNodes, MatchMergeEdges, DetachDelete

\* A merged node is there, and so is a merged edge whose ends were.
LEMMA MergesLand ==
  ASSUME NEW g, NEW st
  PROVE  /\ st.op = "nodes" => st.rows \subseteq Applied(g, st).nodes
         /\ st.op = "edges" =>
              {e \in st.rows : e.from \in g.nodes /\ e.to \in g.nodes} \subseteq Applied(g, st).edges
  BY DEF Applied, MergeNodes, MatchMergeEdges

\* The next statement of a request is one of the statements.
LEMMA NextStatement ==
  ASSUME TypeOK, NEW w \in Writers, Send(w)
  PROVE  /\ at[w] \in DOMAIN plan[w].steps
         /\ plan[w].steps[at[w]].op \in {"nodes", "edges", "delete"}
         /\ plan[w] \in Plans
<1>1. plan[w] \in Plans /\ plan[w].steps \in Seq(Statements)
  BY PlansAssumption DEF TypeOK
<1>2. at[w] \in DOMAIN plan[w].steps
  BY <1>1 DEF TypeOK, Send
<1>3. plan[w].steps[at[w]] \in Statements
  BY <1>1, <1>2
<1>4. QED
  BY <1>1, <1>2, <1>3, PlansAssumption

\* A request that does not overwrite sends no deletion.
LEMMA NextMerges ==
  ASSUME TypeOK, DeletesOnlyToOverwrite, ~ Overwriting, NEW w \in Writers, Send(w)
  PROVE  plan[w].steps[at[w]].op \in {"nodes", "edges"}
  BY NextStatement DEF DeletesOnlyToOverwrite, DeletesNothing, Overwriting

-----------------------------------------------------------------------------
(* The inductive invariant.                                                *)

LEMMA InitInv == Init => IInv
<1> SUFFICES ASSUME Init PROVE IInv
  OBVIOUS
<1>1. plan \in [Writers -> Plans]
  BY DEF Init, Plans
<1>2. \A w \in Writers : Len(plan[w].steps) \in Nat
  BY <1>1, PlansAssumption
<1>3. TypeOK
  BY <1>1, <1>2 DEF Init, TypeOK, EmptyGraph
<1>4. QED
  BY <1>3, <1>2 DEF Init, IInv, Established

\* Growth keeps what was established.
LEMMA EstablishedStays ==
  ASSUME NEW steps, NEW n, Established(steps, n),
         graph.nodes \subseteq graph'.nodes, graph.edges \subseteq graph'.edges
  PROVE  Established(steps, n)'
  BY DEF Established, OwnEdges

\* A statement sent establishes itself: the ends of its edges are in the graph since
\* an earlier statement wrote them.
LEMMA SendEstablishes ==
  ASSUME TypeOK, NodesBeforeEdges, NEW w \in Writers, Send(w),
         plan[w].steps[at[w]].op # "delete", Established(plan[w].steps, at[w])
  PROVE  Established(plan[w].steps, at[w])'
<1> DEFINE steps == plan[w].steps
           st == steps[at[w]]
<1>1. /\ at[w] \in DOMAIN steps /\ plan[w] \in Plans
      /\ st.op \in {"nodes", "edges"}
  BY NextStatement
<1>a. steps \in Seq(Statements) /\ DOMAIN steps = 1..Len(steps) /\ Len(steps) \in Nat
  BY <1>1, PlansAssumption
<1>b. at[w] \in Nat /\ at'[w] = at[w] + 1
  BY <1>a DEF TypeOK, Send
<1>c. graph' = Applied(graph, st) /\ plan' = plan
  BY DEF Send
<1>2. graph.nodes \subseteq graph'.nodes /\ graph.edges \subseteq graph'.edges
  BY <1>1, <1>c, MergesGrow
<1>3. st.op = "nodes" => st.rows \subseteq graph'.nodes
  BY <1>c, MergesLand
<1>4. st.op = "edges" => OwnEdges(steps, st) \subseteq graph'.edges
  <2> SUFFICES ASSUME st.op = "edges", NEW e \in OwnEdges(steps, st) PROVE e \in graph'.edges
    OBVIOUS
  <2>1. \A n \in {e.from, e.to} :
          \E k \in 1..(at[w] - 1) : steps[k].op = "nodes" /\ n \in steps[k].rows
    BY <1>1 DEF NodesBeforeEdges, EndsFirst, OwnEdges
  <2>2. e.from \in graph.nodes /\ e.to \in graph.nodes
    <3>1. \A k \in 1..(at[w] - 1) : k \in DOMAIN steps /\ k < at[w]
      BY <1>1, <1>a, <1>b
    <3>2. QED
      BY <2>1, <3>1 DEF Established
  <2>3. QED
    BY <2>2, <1>c, MergesLand DEF OwnEdges
<1>5. ASSUME NEW k \in DOMAIN steps, k < at[w] + 1
      PROVE  /\ steps[k].op = "nodes" => steps[k].rows \subseteq graph'.nodes
             /\ steps[k].op = "edges" => OwnEdges(steps, steps[k]) \subseteq graph'.edges
  <2>1. CASE k < at[w]
    BY <2>1, <1>2 DEF Established
  <2>2. CASE k = at[w]
    BY <2>2, <1>3, <1>4
  <2>3. QED
    BY <2>1, <2>2, <1>5, <1>a, <1>b
<1>6. QED
  BY <1>5, <1>c, <1>b DEF Established, OwnEdges

\* A Send takes nothing away while no request overwrites.
LEMMA SendGrows ==
  ASSUME TypeOK, DeletesOnlyToOverwrite, ~ Overwriting, NEW w \in Writers, Send(w)
  PROVE  graph.nodes \subseteq graph'.nodes /\ graph.edges \subseteq graph'.edges
<1>1. graph' = Applied(graph, plan[w].steps[at[w]])
  BY DEF Send
<1>2. QED
  BY <1>1, NextMerges, MergesGrow

\* Whatever the plans, a step keeps the types and leaves no edge without its ends.
LEMMA StepType ==
  ASSUME TypeOK, [Next]_vars
  PROVE  TypeOK'
<1>1. ASSUME NEW w \in Writers, Send(w) PROVE TypeOK'
  <2>1. /\ at[w] \in 1..Len(plan[w].steps) /\ Len(plan[w].steps) \in Nat
        /\ at' = [at EXCEPT ![w] = at[w] + 1]
        /\ graph' = Applied(graph, plan[w].steps[at[w]])
    <3>1. plan[w].steps \in Seq(Statements)
      BY <1>1, NextStatement, PlansAssumption
    <3>2. QED
      BY <1>1, <3>1 DEF TypeOK, Send
  <2>2. \A e \in graph'.edges : e.from \in graph'.nodes /\ e.to \in graph'.nodes
    BY <2>1, <1>1, NextStatement, EndsStay DEF TypeOK
  <2>3. /\ at' \in [Writers -> Nat]
        /\ \A v \in Writers : at'[v] \in 1..(Len(plan[v].steps) + 1)
    BY <2>1 DEF TypeOK
  <2>4. QED
    BY <1>1, <2>2, <2>3 DEF TypeOK, Send
<1>2. ASSUME NEW w \in Writers, Start(w) \/ Finish(w) \/ Fail(w) PROVE TypeOK'
  BY <1>2 DEF Start, Finish, Fail, TypeOK
<1>3. CASE UNCHANGED vars
  BY <1>3 DEF vars, TypeOK
<1>4. QED
  BY <1>1, <1>2, <1>3 DEF Next

LEMMA StepInv ==
  ASSUME DeletesOnlyToOverwrite, NodesBeforeEdges, IInv, [Next]_vars
  PROVE  IInv'
<1> USE DEF IInv
<1>0. TypeOK'
  BY StepType
<1>1. ASSUME NEW w \in Writers, Start(w) PROVE IInv'
  BY <1>0, <1>1 DEF Start, Overwriting, Established, OwnEdges
<1>2. ASSUME NEW w \in Writers, Send(w) PROVE IInv'
  <2>1. /\ plan' = plan /\ pc' = pc /\ pc[w] = "writing"
        /\ \A v \in Writers : v # w => at'[v] = at[v]
    BY <1>2 DEF Send, TypeOK
  <2>2. \A v \in Writers : pc'[v] = "done" => at'[v] = Len(plan'[v].steps) + 1
    BY <2>1
  <2>3. ASSUME ~ Overwriting', NEW v \in Writers PROVE Established(plan[v].steps, at[v])'
    <3>1. ~ Overwriting
      BY <2>3, <2>1 DEF Overwriting
    <3>2. CASE v = w
      BY <3>1, <3>2, <1>2, NextMerges, SendEstablishes
    <3>3. CASE v # w
      <4>1. Established(plan[v].steps, at[v])
        BY <3>1
      <4>2. graph.nodes \subseteq graph'.nodes /\ graph.edges \subseteq graph'.edges
        BY <3>1, <1>2, SendGrows
      <4>3. QED
        BY <4>1, <4>2, <2>1, <3>3 DEF Established, OwnEdges
    <3>4. QED
      BY <3>2, <3>3
  <2>4. QED
    BY <1>0, <2>2, <2>3
<1>3. ASSUME NEW w \in Writers, Finish(w) PROVE IInv'
  <2>1. Len(plan[w].steps) \in Nat
    BY PlansAssumption DEF TypeOK
  <2>2. at[w] = Len(plan[w].steps) + 1
    BY <1>3, <2>1 DEF Finish, TypeOK
  <2>3. QED
    BY <1>0, <1>3, <2>2 DEF Finish, TypeOK, Overwriting, Established, OwnEdges
<1>4. ASSUME NEW w \in Writers, Fail(w) PROVE IInv'
  BY <1>0, <1>4 DEF Fail, TypeOK, Overwriting, Established, OwnEdges
<1>5. CASE UNCHANGED vars
  BY <1>0, <1>5 DEF vars, Overwriting, Established, OwnEdges
<1>6. QED
  BY <1>1, <1>2, <1>3, <1>4, <1>5 DEF Next

-----------------------------------------------------------------------------
(* The theorems.                                                           *)

\* A plan all of whose statements are established is whole in the graph.
LEMMA EstablishedIsWhole ==
  ASSUME TypeOK, NEW w \in Writers, at[w] = Len(plan[w].steps) + 1,
         Established(plan[w].steps, at[w])
  PROVE  Whole(plan[w])
<1> DEFINE steps == plan[w].steps
<1>1. steps \in Seq(Statements)
  BY PlansAssumption DEF TypeOK
<1>2. \A k \in DOMAIN steps : k < at[w]
  BY <1>1
<1> QED
  BY <1>2 DEF Established, OwnEdges, Whole, NodesOf, EdgesOf

\* A request that has sent its last statement has its whole file in the graph.
LEMMA SentIsWhole ==
  ASSUME IInv, ~ Overwriting, NEW w \in Writers, at[w] = Len(plan[w].steps) + 1
  PROVE  Whole(plan[w])
BY EstablishedIsWhole DEF IInv

\* The invariant, in every reachable state.
LEMMA Invariance ==
  ASSUME DeletesOnlyToOverwrite, NodesBeforeEdges
  PROVE  Spec => []IInv
<1>1. IInv /\ [Next]_vars => IInv'
  BY StepInv
<1>2. QED
  BY <1>1, InitInv, PTL DEF Spec

\* The edges of the graph join nodes of it, and requests advance along their plans,
\* whatever the plans are.
THEOREM TypeCorrect == Spec => []TypeOK
<1>1. Init => TypeOK
  BY InitInv DEF IInv
<1>2. TypeOK /\ [Next]_vars => TypeOK'
  BY StepType
<1>3. QED
  BY <1>1, <1>2, PTL DEF Spec

\* If plans write the ends of an edge before the edge and only those that overwrite
\* delete, a request that is done has left its whole file in the graph whatever the
\* others were doing, as long as none overwrites.
THEOREM FinishedFilesWhole ==
  DeletesOnlyToOverwrite /\ NodesBeforeEdges => (Spec => []CompleteWhenDone)
<1> SUFFICES ASSUME DeletesOnlyToOverwrite, NodesBeforeEdges
             PROVE  Spec => []CompleteWhenDone
  OBVIOUS
<1>1. IInv => CompleteWhenDone
  BY SentIsWhole DEF IInv, CompleteWhenDone
<1>2. Spec => []IInv
  BY Invariance
<1>3. QED
  BY <1>1, <1>2, PTL

\* If only plans that overwrite delete, no request takes anything from the graph
\* while none of them overwrites.
THEOREM NothingTakenAway == DeletesOnlyToOverwrite => (Spec => GraphOnlyGrows)
<1> SUFFICES ASSUME DeletesOnlyToOverwrite PROVE Spec => GraphOnlyGrows
  OBVIOUS
<1> DEFINE Grows == ~ Overwriting => /\ graph.nodes \subseteq graph'.nodes
                                     /\ graph.edges \subseteq graph'.edges
<1>1. TypeOK /\ [Next]_vars => [Grows]_vars
  <2> SUFFICES ASSUME TypeOK, Next, ~ Overwriting
               PROVE  graph.nodes \subseteq graph'.nodes /\ graph.edges \subseteq graph'.edges
    OBVIOUS
  <2>1. ASSUME NEW w \in Writers, Start(w) \/ Finish(w) \/ Fail(w) PROVE graph' = graph
    BY <2>1 DEF Start, Finish, Fail
  <2>2. QED
    BY <2>1, SendGrows DEF Next
<1>2. QED
  BY <1>1, TypeCorrect, PTL DEF Spec, GraphOnlyGrows

-----------------------------------------------------------------------------
(* Requests for one file that overwrite it, beside each other.             *)

\* Request v has a deletion left to send.
DeleteDue(v) == \E k \in DOMAIN plan[v].steps : at[v] <= k /\ plan[v].steps[k].op = "delete"

OnePlan == \A v, w \in Writers : plan[v] = plan[w]

\* Once nobody has a deletion left, some request has all it has sent in the graph:
\* at the latest the one that sent the last deletion, which has written nothing yet.
LastSurvives ==
  /\ \A w \in Writers : pc[w] = "done" => at[w] = Len(plan[w].steps) + 1
  /\ Writers # {} /\ OnePlan /\ (\A v \in Writers : ~ DeleteDue(v)) =>
       \E v \in Writers : Established(plan[v].steps, at[v])

LEMMA SendSurvives ==
  ASSUME DeletesFirst, NodesBeforeEdges, TypeOK, LastSurvives, NEW w \in Writers, Send(w),
         OnePlan', \A v \in Writers : ~ DeleteDue(v)'
  PROVE  \E v \in Writers : Established(plan[v].steps, at[v])'
<1> DEFINE steps == plan[w].steps
<1>1. /\ at[w] \in DOMAIN steps /\ plan[w] \in Plans
      /\ steps[at[w]].op \in {"nodes", "edges", "delete"}
  BY NextStatement
<1>2. steps \in Seq(Statements) /\ DOMAIN steps = 1..Len(steps) /\ Len(steps) \in Nat
  BY <1>1, PlansAssumption
<1>3. /\ at[w] \in Nat /\ at'[w] = at[w] + 1 /\ plan' = plan
      /\ \A v \in Writers : v # w => at'[v] = at[v]
      /\ graph' = Applied(graph, steps[at[w]])
  BY <1>2 DEF TypeOK, Send
<1>4. CASE steps[at[w]].op = "delete"
  <2>1. \A k \in DOMAIN steps : k < at[w] + 1 => steps[k].op = "delete"
    BY <1>1, <1>2, <1>3, <1>4 DEF DeletesFirst, DeletesLead
  <2>2. Established(plan[w].steps, at[w])'
    BY <1>3, <2>1 DEF Established
  <2>3. QED
    BY <2>2
<1>5. CASE steps[at[w]].op # "delete"
  <2>1. \A v \in Writers : ~ DeleteDue(v)
    <3>1. ASSUME NEW k \in DOMAIN steps, at[w] <= k, steps[k].op = "delete" PROVE FALSE
      <4>1. at[w] + 1 <= k
        BY <1>2, <1>3, <1>5, <3>1
      <4>2. QED
        BY <1>3, <3>1, <4>1 DEF DeleteDue
    <3>2. ASSUME NEW v \in Writers, v # w PROVE ~ DeleteDue(v)
      BY <1>3, <3>2 DEF DeleteDue
    <3>3. QED
      BY <3>1, <3>2 DEF DeleteDue
  <2>2. OnePlan
    BY <1>3 DEF OnePlan
  <2>3. PICK v \in Writers : Established(plan[v].steps, at[v])
    BY <2>1, <2>2 DEF LastSurvives
  <2>4. CASE v = w
    BY <1>5, <2>3, <2>4, SendEstablishes
  <2>5. CASE v # w
    <3>1. graph.nodes \subseteq graph'.nodes /\ graph.edges \subseteq graph'.edges
      BY <1>1, <1>3, <1>5, MergesGrow
    <3>2. Established(plan[v].steps, at[v])'
      BY <1>3, <2>3, <2>5, <3>1 DEF Established, OwnEdges
    <3>3. QED
      BY <3>2
  <2>6. QED
    BY <2>4, <2>5
<1>6. QED
  BY <1>4, <1>5

LEMMA StepSurvives ==
  ASSUME DeletesFirst, NodesBeforeEdges, TypeOK, LastSurvives, [Next]_vars
  PROVE  LastSurvives'
<1>1. ASSUME NEW w \in Writers, Send(w) PROVE LastSurvives'
  <2>1. pc' = pc /\ plan' = plan /\ pc[w] = "writing"
        /\ \A v \in Writers : v # w => at'[v] = at[v]
    BY <1>1 DEF Send, TypeOK
  <2>2. QED
    BY <1>1, <2>1, SendSurvives DEF LastSurvives
<1>2. ASSUME NEW w \in Writers, Start(w) \/ Finish(w) \/ Fail(w), UNCHANGED <<graph, plan, at>>
      PROVE  LastSurvives'
  <2>1. \A v \in Writers : pc'[v] = "done" => at'[v] = Len(plan'[v].steps) + 1
    <3>1. plan[w].steps \in Seq(Statements)
      BY PlansAssumption DEF TypeOK
    <3>2. QED
      BY <1>2, <3>1 DEF LastSurvives, TypeOK, Start, Finish, Fail
  <2>2. QED
    BY <1>2, <2>1 DEF LastSurvives, OnePlan, DeleteDue, Established, OwnEdges
<1>3. CASE UNCHANGED vars
  BY <1>3 DEF vars, LastSurvives, OnePlan, DeleteDue, Established, OwnEdges
<1>4. QED
  BY <1>1, <1>2, <1>3 DEF Next, Start, Finish, Fail

\* If plans delete before they write, and write the ends of an edge before the edge,
\* then once every request is done and all were for one file, overwriting or not, the
\* file is whole: no interleaving of their deletions and writes leaves a hole.
THEOREM OverwritesEndWhole ==
  DeletesFirst /\ NodesBeforeEdges => (Spec => []QuiescentWhole)
<1> SUFFICES ASSUME DeletesFirst, NodesBeforeEdges PROVE Spec => []QuiescentWhole
  OBVIOUS
<1>1. Init => LastSurvives
  <2> SUFFICES ASSUME Init PROVE LastSurvives
    OBVIOUS
  <2>1. TypeOK /\ \A w \in Writers : pc[w] = "done" => at[w] = Len(plan[w].steps) + 1
    BY InitInv DEF IInv
  <2>2. \A w \in Writers : Established(plan[w].steps, at[w])
    <3>1. \A w \in Writers : plan[w].steps \in Seq(Statements) /\ at[w] = 1
      BY <2>1, PlansAssumption DEF TypeOK, Init
    <3>2. QED
      BY <3>1 DEF Established
  <2>3. QED
    BY <2>1, <2>2 DEF LastSurvives
<1>2. TypeOK /\ LastSurvives /\ [Next]_vars => LastSurvives'
  BY StepSurvives
<1>3. TypeOK /\ LastSurvives => QuiescentWhole
  <2> SUFFICES ASSUME TypeOK, LastSurvives, \A v, w \in Writers : pc[w] = "done" /\ plan[v] = plan[w],
                      NEW w \in Writers
               PROVE  Whole(plan[w])
    BY DEF QuiescentWhole
  <2>1. \A v \in Writers : at[v] = Len(plan[v].steps) + 1 /\ plan[v] = plan[w]
    BY DEF LastSurvives
  <2>2. \A v \in Writers : ~ DeleteDue(v)
    <3>1. \A v \in Writers : plan[v].steps \in Seq(Statements)
      BY PlansAssumption DEF TypeOK
    <3>2. QED
      BY <2>1, <3>1 DEF DeleteDue
  <2>3. PICK v \in Writers : Established(plan[v].steps, at[v])
    BY <2>1, <2>2 DEF LastSurvives, OnePlan
  <2>4. QED
    BY <2>1, <2>3, EstablishedIsWhole
<1>4. QED
  BY <1>1, <1>2, <1>3, TypeCorrect, PTL DEF Spec

-----------------------------------------------------------------------------
(* The plan of a file.                                                     *)

\* Ten batches of nodes.
LEMMA NodeBatches ==
  ASSUME NEW unit, NEW S, {NodeSteps(unit)[i] : i \in 1..10} \subseteq S
  PROVE  /\ NodeSteps(unit) \in Seq(S) /\ Len(NodeSteps(unit)) = 10
         /\ OnlyNodes(NodeSteps(unit), 1, 10)
         /\ NodeSteps(unit)[7].rows = {JobNode(JobId(j)) : j \in Jobs(unit)}
<1>1. NodeSteps(unit) = [i \in 1..10 |-> NodeSteps(unit)[i]]
  BY DEF NodeSteps
<1>2. NodeSteps(unit) \in Seq(S) /\ Len(NodeSteps(unit)) = 10
  BY <1>1, IsASeq
<1>3. OnlyNodes(NodeSteps(unit), 1, 10)
  BY DEF NodeSteps, NodeRows, OnlyNodes
<1> QED
  BY <1>2, <1>3 DEF NodeSteps, NodeRows

\* No node but a file's has its label.
LEMMA NotTheFile ==
  ASSUME NEW path
  PROVE  /\ \A id : StreamNode(id) # FileNode(path)
         /\ \A id : ScheduleNode(id) # FileNode(path)
         /\ \A id : JobNode(id) # FileNode(path)
         /\ \A label, name : label # "TwsFile" => NameNode(label, name) # FileNode(path)
BY DEF StreamNode, ScheduleNode, JobNode, NameNode, FileNode, Node

\* Thirteen batches of edges, none of which is at a file.
LEMMA EdgeBatches ==
  ASSUME NEW unit, NEW path, NEW S, {EdgeSteps(unit)[i] : i \in 1..13} \subseteq S
  PROVE  /\ EdgeSteps(unit) \in Seq(S) /\ Len(EdgeSteps(unit)) = 13
         /\ OnlyEdges(EdgeSteps(unit), 1, 13, FileNode(path))
<1>1. EdgeSteps(unit) = [i \in 1..13 |-> EdgeSteps(unit)[i]]
  BY DEF EdgeSteps
<1>2. EdgeSteps(unit) \in Seq(S) /\ Len(EdgeSteps(unit)) = 13
  BY <1>1, IsASeq
<1>3. \A i \in 1..13 : EdgeSteps(unit)[i].op = "edges"
  BY DEF EdgeSteps, EdgeRows, JobEdges, JobToJob
<1>4. ASSUME NEW i \in 1..13, NEW x \in EdgeSteps(unit)[i].rows
      PROVE  x.from # FileNode(path) /\ x.to # FileNode(path)
  BY NotTheFile DEF EdgeSteps, EdgeRows, JobEdges, JobToJob, Edge
<1> QED
  BY <1>2, <1>3, <1>4 DEF OnlyEdges

\* Sequences of two elements, and of none.
LEMMA Pair ==
  ASSUME NEW S, NEW x \in S, NEW y \in S
  PROVE  <<x, y>> \in Seq(S) /\ Len(<<x, y>>) = 2
OBVIOUS

\* The empty sequence.
LEMMA Nothing ==
  ASSUME NEW S
  PROVE  <<>> \in Seq(S) /\ Len(<<>>) = 0
OBVIOUS

\* A request with a file path ends with the file's node and the edges from it.
LEMMA FileBatches ==
  ASSUME NEW unit, NEW path, NEW S,
         {FileSteps(unit, path)[i] : i \in DOMAIN FileSteps(unit, path)} \subseteq S
  PROVE  /\ FileSteps(unit, path) \in Seq(S)
         /\ FileLast(FileSteps(unit, path), 0, Len(FileSteps(unit, path)), FileNode(path))
<1>1. CASE path = ""
  BY <1>1, Nothing DEF FileSteps, FileLast
<1>2. CASE path # ""
  <2> DEFINE rows == {Edge(FileNode(path), "CONTAINS_SCHEDULE", ScheduleNode(StreamId(s))) :
                        s \in Streams(unit)}
             x == NodeRows({FileNode(path)})
             y == EdgeRows(rows)
  <2>1. FileSteps(unit, path) = <<x, y>>
    BY <1>2 DEF FileSteps
  <2> HIDE DEF rows
  <2>3. x.op = "nodes" /\ x.rows = {FileNode(path)} /\ y.op = "edges"
    BY DEF NodeRows, EdgeRows
  <2> HIDE DEF x, y
  <2>2. x \in S /\ y \in S
    BY <2>1
  <2> QED
    BY <2>1, <2>2, <2>3, Pair DEF FileLast
<1> QED
  BY <1>1, <1>2

\* The deletions of a file: one for each of its streams, one for each of its
\* schedules, and one for the file node.
StreamSubgraph(s) == Subgraph(StreamNode(StreamId(s)), {<<>>, <<"CONTAINS_JOB">>}, {})
ScheduleSubgraph(s) == Subgraph(ScheduleNode(StreamId(s)), {<<>>, <<"CONTAINS_JOB">>}, {})
Subgraphs(unit, path) ==
  {StreamSubgraph(s) : s \in {unit.streams[i] : i \in DOMAIN unit.streams}} \cup
  {ScheduleSubgraph(s) : s \in {unit.streams[i] : i \in DOMAIN unit.streams}} \cup
  {Subgraph(FileNode(path), {<<>>}, {})}

\* An overwriting request begins with nothing but deletions.
LEMMA DeleteBatches ==
  ASSUME NEW unit, NEW X, unit.streams \in Seq(X), NEW path, NEW S, Subgraphs(unit, path) \subseteq S
  PROVE  /\ DeleteSteps(unit, path) \in Seq(S)
         /\ Deletions(DeleteSteps(unit, path), 1, Len(DeleteSteps(unit, path)))
         /\ StatementsOf(DeleteSteps(unit, path)) \subseteq Subgraphs(unit, path)
         /\ \A i \in DOMAIN unit.streams :
              /\ StreamSubgraph(unit.streams[i]) \in StatementsOf(DeleteSteps(unit, path))
              /\ ScheduleSubgraph(unit.streams[i]) \in StatementsOf(DeleteSteps(unit, path))
<1> DEFINE a == [i \in 1..Len(unit.streams) |-> StreamSubgraph(unit.streams[i])]
           b == [i \in 1..Len(unit.streams) |-> ScheduleSubgraph(unit.streams[i])]
           c == IF path = "" THEN <<>> ELSE <<Subgraph(FileNode(path), {<<>>}, {})>>
           D == Subgraphs(unit, path)
<1>1. DOMAIN unit.streams = 1..Len(unit.streams) /\ Len(unit.streams) \in Nat
  OBVIOUS
<1>2. a \in Seq(D)
  BY <1>1, IsASeq DEF Subgraphs
<1>3. b \in Seq(D)
  BY <1>1, IsASeq DEF Subgraphs
<1>4. c \in Seq(D)
  <2> DEFINE file == Subgraph(FileNode(path), {<<>>}, {})
  <2>1. file \in D
    BY DEF Subgraphs
  <2> HIDE DEF file, D
  <2>2. <<>> \in Seq(D) /\ <<file>> \in Seq(D)
    BY <2>1
  <2> QED
    BY <2>2 DEF file
<1>5. DeleteSteps(unit, path) = a \o b \o c
  BY <1>1 DEF DeleteSteps, StreamSubgraph, ScheduleSubgraph
<1> HIDE DEF a, b, c
<1>6. a \o b \o c \in Seq(D)
  BY <1>2, <1>3, <1>4
<1>7. \A st \in D : st.op = "delete"
  BY DEF Subgraphs, StreamSubgraph, ScheduleSubgraph, Subgraph
<1>8. \A i \in 1..Len(DeleteSteps(unit, path)) : DeleteSteps(unit, path)[i] \in D
  BY <1>5, <1>6
<1>9. DeleteSteps(unit, path) \in Seq(S)
  BY <1>5, <1>6, SeqMonotonic
<1>10. StatementsOf(a \o b \o c) = StatementsOf(a) \cup StatementsOf(b) \cup StatementsOf(c)
  <2>1. a \o b \in Seq(D)
    BY <1>2, <1>3
  <2>2. StatementsOf(a \o b \o c) = StatementsOf(a \o b) \cup StatementsOf(c)
    BY <2>1, <1>4, StatementsOfParts
  <2>3. StatementsOf(a \o b) = StatementsOf(a) \cup StatementsOf(b)
    BY <1>2, <1>3, StatementsOfParts
  <2> QED
    BY <2>2, <2>3
<1>11. ASSUME NEW i \in DOMAIN unit.streams
       PROVE  /\ StreamSubgraph(unit.streams[i]) \in StatementsOf(a)
              /\ ScheduleSubgraph(unit.streams[i]) \in StatementsOf(b)
  BY <1>1 DEF StatementsOf, a, b
<1>12. StatementsOf(DeleteSteps(unit, path)) \subseteq D
  <2>1. DeleteSteps(unit, path) \in Seq(D)
    BY <1>5, <1>6
  <2> QED
    BY <2>1 DEF StatementsOf
<1> QED
  BY <1>5, <1>7, <1>8, <1>9, <1>10, <1>11, <1>12 DEF Deletions

\* A file's plan, before the batches without rows are left out, is four sequences.
Cleared(unit, path, overwrite) == IF overwrite THEN DeleteSteps(unit, path) ELSE <<>>
PlanStatements(unit, path) ==
  Subgraphs(unit, path) \cup StatementsOf(FileSteps(unit, path))
    \cup {NodeSteps(unit)[i] : i \in 1..10} \cup {EdgeSteps(unit)[i] : i \in 1..13}

LEMMA PlanParts ==
  ASSUME NEW unit, NEW X, unit.streams \in Seq(X), NEW path, NEW overwrite
  PROVE  LET S == PlanStatements(unit, path)
             d == Cleared(unit, path, overwrite)
             n == NodeSteps(unit)
             e == EdgeSteps(unit)
             f == FileSteps(unit, path)
         IN /\ d \in Seq(S) /\ Deletions(d, 1, Len(d)) /\ (~ overwrite => Len(d) = 0)
            /\ n \in Seq(S) /\ Len(n) = 10 /\ OnlyNodes(n, 1, Len(n))
            /\ n[7].rows = {JobNode(JobId(j)) : j \in Jobs(unit)}
            /\ e \in Seq(S) /\ Len(e) = 13 /\ OnlyEdges(e, 1, Len(e), FileNode(path))
            /\ f \in Seq(S) /\ FileLast(f, 0, Len(f), FileNode(path))
            /\ Steps(unit, path, overwrite) = Sent(d \o n \o e \o f)
<1> DEFINE S == PlanStatements(unit, path)
           d == Cleared(unit, path, overwrite)
<1>1. d \in Seq(S) /\ Deletions(d, 1, Len(d)) /\ (~ overwrite => Len(d) = 0)
  <2>1. CASE overwrite
    BY <2>1, DeleteBatches DEF Cleared, PlanStatements
  <2>2. CASE ~ overwrite
    BY <2>2 DEF Deletions, Cleared
  <2> QED
    BY <2>1, <2>2
<1>2. /\ NodeSteps(unit) \in Seq(S) /\ Len(NodeSteps(unit)) = 10 /\ OnlyNodes(NodeSteps(unit), 1, 10)
      /\ NodeSteps(unit)[7].rows = {JobNode(JobId(j)) : j \in Jobs(unit)}
  BY NodeBatches DEF PlanStatements
<1>3. /\ EdgeSteps(unit) \in Seq(S) /\ Len(EdgeSteps(unit)) = 13
      /\ OnlyEdges(EdgeSteps(unit), 1, 13, FileNode(path))
  BY EdgeBatches DEF PlanStatements
<1>4. /\ FileSteps(unit, path) \in Seq(S)
      /\ FileLast(FileSteps(unit, path), 0, Len(FileSteps(unit, path)), FileNode(path))
  BY FileBatches DEF PlanStatements, StatementsOf
<1>5. Steps(unit, path, overwrite) = Sent(d \o NodeSteps(unit) \o EdgeSteps(unit) \o FileSteps(unit, path))
  BY DEF Steps, Cleared
<1> QED
  BY <1>1, <1>2, <1>3, <1>4, <1>5

\* The plan of any file deletes first, and only to overwrite, writes the ends of an edge
\* before the edge, and the jobs among its nodes.
LEMMA PlanOrder ==
  ASSUME NEW unit, NEW X, unit.streams \in Seq(X), NEW path, NEW overwrite
  PROVE  LET steps == Steps(unit, path, overwrite)
         IN /\ EndsFirst(steps) /\ DeletesLead(steps)
            /\ ~ overwrite => DeletesNothing(steps)
            /\ {JobNode(JobId(j)) : j \in Jobs(unit)} \subseteq NodesOf(steps)
<1> DEFINE S == PlanStatements(unit, path)
           d == Cleared(unit, path, overwrite)
           n == NodeSteps(unit)
           e == EdgeSteps(unit)
           f == FileSteps(unit, path)
           all == d \o n \o e \o f
           file == FileNode(path)
<1>0. /\ d \in Seq(S) /\ Deletions(d, 1, Len(d)) /\ (~ overwrite => Len(d) = 0)
      /\ n \in Seq(S) /\ Len(n) = 10 /\ OnlyNodes(n, 1, Len(n))
      /\ n[7].rows = {JobNode(JobId(j)) : j \in Jobs(unit)}
      /\ e \in Seq(S) /\ OnlyEdges(e, 1, Len(e), file)
      /\ f \in Seq(S) /\ FileLast(f, 0, Len(f), file)
      /\ Steps(unit, path, overwrite) = Sent(all)
  BY PlanParts
<1> HIDE DEF d, n, e, f, S, file
<1>1. d \in Seq(S) /\ Deletions(d, 1, Len(d)) /\ (~ overwrite => Len(d) = 0)
  BY <1>0
<1>2. /\ n \in Seq(S) /\ Len(n) = 10 /\ OnlyNodes(n, 1, Len(n))
      /\ n[7].rows = {JobNode(JobId(j)) : j \in Jobs(unit)}
  BY <1>0
<1>3. e \in Seq(S) /\ OnlyEdges(e, 1, Len(e), file)
  BY <1>0
<1>4. f \in Seq(S) /\ FileLast(f, 0, Len(f), file)
  BY <1>0
<1>5. Steps(unit, path, overwrite) = Sent(all)
  BY <1>0
<1>6. all \in Seq(S) /\ Parted(all, Len(d), Len(d \o n), Len(d \o n \o e), Len(all), file)
  BY <1>1, <1>2, <1>3, <1>4, FourParts
<1> HIDE DEF all
<1>7. EndsFirst(all) /\ DeletesLead(all) /\ (Len(d) = 0 => DeletesNothing(all))
  BY <1>6, InOrder
<1>8. {JobNode(JobId(j)) : j \in Jobs(unit)} \subseteq NodesOf(all)
  <2>1. all[Len(d) + 7] = n[7] /\ Len(d) + 7 \in DOMAIN all
    <3>0. Len(d) \in Nat /\ Len(d \o n) = Len(d) + 10 /\ d \o n \in Seq(S)
      <4>1. d \in Seq(S) /\ n \in Seq(S) /\ Len(n) = 10
        BY <1>1, <1>2
      <4>2. Len(d) \in Nat /\ Len(d \o n) = Len(d) + Len(n) /\ d \o n \in Seq(S)
        BY <4>1, TwoParts
      <4> QED
        BY <4>1, <4>2
    <3>1. (d \o n)[Len(d) + 7] = n[7] /\ Len(d) + 7 \in 1..Len(d \o n) /\ d \o n \in Seq(S)
      <4>1. Len(d) + 7 \in (Len(d) + 1)..Len(d \o n) /\ (Len(d) + 7) - Len(d) = 7
        BY <3>0
      <4> QED
        BY <4>1, <3>0, <1>1, <1>2, TwoParts
    <3>2. \A q \in Seq(S), i \in Nat : i \in 1..Len(q) => /\ (q \o e)[i] = q[i] /\ i \in 1..Len(q \o e)
                                                    /\ (q \o f)[i] = q[i] /\ i \in 1..Len(q \o f)
      BY <1>3, <1>4
    <3>3. (d \o n \o e)[Len(d) + 7] = n[7] /\ Len(d) + 7 \in 1..Len(d \o n \o e) /\ d \o n \o e \in Seq(S)
      BY <3>1, <3>2, <1>3
    <3> QED
      BY <3>3, <3>2, <1>6, <1>4 DEF all
  <2>2. n[7].op = "nodes"
    BY <1>2 DEF OnlyNodes
  <2> QED
    BY <2>1, <2>2, <1>2 DEF NodesOf
<1> QED
  BY <1>1, <1>5, <1>6, <1>7, <1>8, SentKeepsOrder

\* What the plan of a file is like, whatever the file: it writes the ends of an edge
\* before the edge, deletes before it writes and only if it is to overwrite, and writes
\* the nodes of all its jobs.
THEOREM PlansInOrder ==
  NodesBeforeEdges /\ DeletesFirst /\ DeletesOnlyToOverwrite /\ JobsAmongNodes
<1>1. ASSUME NEW p \in Plans
      PROVE  /\ EndsFirst(p.steps) /\ DeletesLead(p.steps)
             /\ ~ p.overwrite => DeletesNothing(p.steps)
             /\ {JobNode(JobId(j)) : j \in Jobs(p.unit)} \subseteq NodesOf(p.steps)
  <2>1. p = Plan(p.unit, p.path, p.overwrite) /\ p.unit.streams \in Seq(Streams(p.unit))
    BY ParsedAssumption
  <2>2. p.steps = Steps(p.unit, p.path, p.overwrite)
    BY <2>1 DEF Plan
  <2> QED
    BY <2>1, <2>2, PlanOrder
<1> QED
  BY <1>1 DEF NodesBeforeEdges, DeletesFirst, DeletesOnlyToOverwrite, JobsAmongNodes, JobIds

-----------------------------------------------------------------------------
(* Requests that merge.                                                    *)

\* A step of a parse request is one of its graph writer, or leaves the graph alone.
LEMMA StepsImplement == [NextParse]_allvars => [Next]_vars
BY DEF NextParse, Next, Commit, allvars

\* With the database and the history left out, a parse request is what GraphWriter
\* says a request is.
THEOREM ImplementsGraphWriter == SpecParse => Spec
<1>1. InitParse => Init
  BY DEF InitParse
<1> QED
  BY <1>1, StepsImplement, PTL DEF SpecParse, Spec

\* Without overwriting, a request that is done has left its whole file in the graph,
\* whatever the others wrote meanwhile and wherever they failed.
THEOREM ParsedFilesWhole == SpecParse => []CompleteWhenDone
BY PlansInOrder, FinishedFilesWhole, ImplementsGraphWriter, PTL

\* However requests for one file interleave their deletions and writes, once all are
\* done the file is whole.
THEOREM OverwritingFilesWhole == SpecParse => []QuiescentWhole
BY PlansInOrder, OverwritesEndWhole, ImplementsGraphWriter, PTL

\* The rows of a request are committed once its jobs are in the graph, and no request
\* that could take them out again is about.
LEMMA StepMirror ==
  ASSUME DeletesOnlyToOverwrite, NodesBeforeEdges, JobsAmongNodes,
         IInv, MirrorNotAhead, [NextParse]_allvars
  PROVE  MirrorNotAhead'
<1> SUFFICES ASSUME ~ Overwriting', NEW id \in mirror' PROVE JobNode(id) \in graph'.nodes
  BY DEF MirrorNotAhead, JobNode, Node
<1>1. plan' = plan
  BY DEF NextParse, Commit, Start, Send, Finish, Fail, allvars, vars
<1>2. ~ Overwriting
  BY <1>1 DEF Overwriting
<1>3. CASE id \in mirror
  <2>1. JobNode(id) \in graph.nodes
    BY <1>2, <1>3 DEF MirrorNotAhead
  <2>2. graph.nodes \subseteq graph'.nodes
    <3>1. ASSUME NEW w \in Writers, Send(w) PROVE graph.nodes \subseteq graph'.nodes
      BY <1>2, <3>1, SendGrows DEF IInv
    <3>2. ASSUME NEW w \in Writers, Start(w) \/ Finish(w) \/ Fail(w) PROVE graph' = graph
      BY <3>2 DEF Start, Finish, Fail
    <3> QED
      BY <3>1, <3>2 DEF NextParse, Commit, allvars, vars
  <2> QED
    BY <2>1, <2>2
<1>4. CASE id \notin mirror
  <2>1. PICK w \in Writers : Commit(w)
    BY <1>4 DEF NextParse, allvars
  <2>2. id \in JobIds(plan[w].unit)
    BY <1>4, <2>1 DEF Commit
  <2>3. plan[w] \in Plans /\ plan[w].steps \in Seq(Statements)
    BY PlansAssumption DEF IInv, TypeOK
  <2>4. at[w] = Len(plan[w].steps) + 1
    BY <2>1, <2>3 DEF IInv, TypeOK, Commit, Finish
  <2>5. NodesOf(plan[w].steps) \subseteq graph.nodes
    BY <1>2, <2>4, SentIsWhole DEF Whole
  <2>6. JobNode(id) \in NodesOf(plan[w].steps)
    BY <2>2, <2>3 DEF JobsAmongNodes
  <2> QED
    BY <2>1, <2>5, <2>6 DEF Commit, Finish
<1> QED
  BY <1>3, <1>4

\* While nobody overwrites, every job Postgres has is in the graph, whatever request
\* failed where.
THEOREM MirrorBehindGraph == SpecParse => []MirrorNotAhead
<1>1. InitParse => MirrorNotAhead
  BY DEF InitParse, MirrorNotAhead
<1>2. IInv /\ MirrorNotAhead /\ [NextParse]_allvars => MirrorNotAhead'
  BY StepMirror, PlansInOrder
<1>3. Spec => []IInv
  BY Invariance, PlansInOrder
<1> QED
  BY <1>1, <1>2, <1>3, ImplementsGraphWriter, PTL DEF SpecParse

\* A statement of a file that is whole in the graph adds no node to it, and no edge
\* between two of the file's own.
LEMMA StatementOfWhole ==
  ASSUME IInv, DeletesOnlyToOverwrite, ~ Overwriting, NEW w \in Writers, Send(w), Whole(plan[w])
  PROVE  /\ graph'.nodes = graph.nodes
         /\ \A e \in graph'.edges \ graph.edges : ~ {e.from, e.to} \subseteq NodesOf(plan[w].steps)
<1> DEFINE steps == plan[w].steps
           st == steps[at[w]]
<1>1. at[w] \in DOMAIN steps /\ st.op \in {"nodes", "edges"} /\ graph' = Applied(graph, st)
  BY NextStatement, NextMerges DEF IInv, Send
<1>2. CASE st.op = "nodes"
  <2>1. st.rows \subseteq NodesOf(steps)
    BY <1>1, <1>2 DEF NodesOf
  <2>2. st.rows \subseteq graph.nodes
    BY <2>1 DEF Whole
  <2> QED
    BY <1>1, <1>2, <2>2 DEF Applied, MergeNodes
<1>3. CASE st.op = "edges"
  <2>1. graph'.nodes = graph.nodes /\ graph'.edges \subseteq graph.edges \cup st.rows
    BY <1>1, <1>3 DEF Applied, MatchMergeEdges
  <2>2. ASSUME NEW e \in st.rows, e.from \in NodesOf(steps), e.to \in NodesOf(steps)
        PROVE  e \in graph.edges
    <3>1. e \in EdgesOf(steps)
      BY <1>1, <1>3, <2>2 DEF EdgesOf
    <3> QED
      BY <3>1 DEF Whole
  <2> QED
    BY <2>1, <2>2
<1> QED
  BY <1>1, <1>2, <1>3

\* Re-parsing a file adds nothing: once a request for it is done, no statement of
\* another adds a node, nor an edge between nodes of the file.
THEOREM ReparsingAddsNothing == SpecParse => ReparseIsNoOp
<1> DEFINE NoOp ==
  \A w \in Writers :
    at'[w] # at[w] /\ Reparsed(w) /\ ~ Overwriting =>
      /\ graph'.nodes = graph.nodes
      /\ \A e \in graph'.edges \ graph.edges : ~ {e.from, e.to} \subseteq NodesOf(plan[w].steps)
<1>1. IInv /\ [NextParse]_allvars => [NoOp]_allvars
  <2> SUFFICES ASSUME IInv, NextParse, NEW w \in Writers, at'[w] # at[w], Reparsed(w), ~ Overwriting
               PROVE  /\ graph'.nodes = graph.nodes
                      /\ \A e \in graph'.edges \ graph.edges :
                           ~ {e.from, e.to} \subseteq NodesOf(plan[w].steps)
    BY DEF NoOp
  <2>1. PICK v \in Writers : pc[v] = "done" /\ plan[v] = plan[w]
    BY DEF Reparsed
  <2>2. at[v] = Len(plan[v].steps) + 1
    BY <2>1 DEF IInv
  <2>3. Whole(plan[w])
    BY <2>1, <2>2, SentIsWhole
  <2>4. Send(w)
    BY DEF IInv, TypeOK, NextParse, Commit, Start, Send, Finish, Fail
  <2> QED
    BY <2>3, <2>4, StatementOfWhole, PlansInOrder
<1>2. Spec => []IInv
  BY Invariance, PlansInOrder
<1> QED
  BY <1>1, <1>2, ImplementsGraphWriter, PTL DEF SpecParse, ReparseIsNoOp

-----------------------------------------------------------------------------
(* A request that overwrites beside no other.                              *)

\* The labels of the nodes that contain jobs.
Containers == {"JobStream", "Schedule"}

\* What contains a job is one of them, and the job is the file's.
LEMMA ContainsRows ==
  ASSUME NEW unit, NEW i \in 1..13, NEW e \in EdgeSteps(unit)[i].rows, e.type = "CONTAINS_JOB"
  PROVE  /\ e.from.label \in Containers
         /\ e.to \in {JobNode(JobId(j)) : j \in Jobs(unit)}
<1>1. i \in {2, 3}
  BY DEF EdgeSteps, EdgeRows, JobEdges, JobToJob, Edge
<1>2. PICK s \in Streams(unit) :
        \E j \in s.jobs, n \in {StreamNode(StreamId(s)), ScheduleNode(StreamId(s))} :
          e = Edge(n, "CONTAINS_JOB", JobNode(JobId(j)))
  BY <1>1 DEF EdgeSteps, EdgeRows
<1>3. e.from.label \in Containers
  BY <1>2 DEF Edge, StreamNode, ScheduleNode, Node, Containers
<1>4. \E j \in Jobs(unit) : e.to = JobNode(JobId(j))
  BY <1>2 DEF Edge, Jobs
<1> QED
  BY <1>3, <1>4

\* The containers a file writes are the streams and the schedules it declares.
LEMMA ContainerRows ==
  ASSUME NEW unit, NEW i \in 1..10, NEW n \in NodeSteps(unit)[i].rows, n.label \in Containers
  PROVE  \E s \in Streams(unit) : n \in {StreamNode(StreamId(s)), ScheduleNode(StreamId(s))}
<1>1. i \in {5, 6}
  BY DEF NodeSteps, NodeRows, Labelled, NameNode, Node, JobNode, Containers
<1> QED
  BY <1>1 DEF NodeSteps, NodeRows

\* An overwriting request first deletes each container it writes, with nothing spared,
\* and the jobs it puts in one are nodes it writes.
Replacing(steps, overwrite) ==
  /\ \A st \in StatementsOf(steps) : st.op = "edges" =>
       \A e \in st.rows : e.type = "CONTAINS_JOB" =>
         e.from.label \in Containers /\ e.to \in NodesOf(steps)
  /\ \A st \in StatementsOf(steps) : st.op = "delete" => <<>> \in st.paths /\ st.sparing = {}
  /\ overwrite => \A n \in NodesOf(steps) : n.label \in Containers =>
       \E st \in StatementsOf(steps) : st.op = "delete" /\ st.root = n

\* The statements of a plan's nodes and edges are the ten and thirteen batches.
LEMMA BatchStatements ==
  ASSUME NEW unit, Len(NodeSteps(unit)) = 10, Len(EdgeSteps(unit)) = 13
  PROVE  /\ \A st \in StatementsOf(NodeSteps(unit)) :
              \E i \in 1..10 : st = NodeSteps(unit)[i] /\ st.op = "nodes"
         /\ \A st \in StatementsOf(EdgeSteps(unit)) :
              \E i \in 1..13 : st = EdgeSteps(unit)[i] /\ st.op = "edges"
<1>1. DOMAIN NodeSteps(unit) = 1..10 /\ DOMAIN EdgeSteps(unit) = 1..13
  BY DEF NodeSteps, EdgeSteps
<1>2. \A i \in 1..10 : NodeSteps(unit)[i].op = "nodes"
  BY DEF NodeSteps, NodeRows
<1>3. \A i \in 1..13 : EdgeSteps(unit)[i].op = "edges"
  BY DEF EdgeSteps, EdgeRows, JobEdges, JobToJob
<1> QED
  BY <1>1, <1>2, <1>3 DEF StatementsOf

\* The last statements write the file's node and no containment of jobs.
LEMMA FileStatements ==
  ASSUME NEW unit, NEW path
  PROVE  \A st \in StatementsOf(FileSteps(unit, path)) :
           \/ st.op = "nodes" /\ st.rows = {FileNode(path)}
           \/ st.op = "edges" /\ \A x \in st.rows : x.type = "CONTAINS_SCHEDULE"
<1>1. CASE path = ""
  <2>0. FileSteps(unit, path) = <<>>
    BY <1>1 DEF FileSteps
  <2>1. DOMAIN FileSteps(unit, path) = {}
    BY <2>0
  <2> QED
    BY <2>1 DEF StatementsOf
<1>2. CASE path # ""
  <2> DEFINE rows == {Edge(FileNode(path), "CONTAINS_SCHEDULE", ScheduleNode(StreamId(s))) :
                        s \in Streams(unit)}
             x == NodeRows({FileNode(path)})
             y == EdgeRows(rows)
  <2>1. FileSteps(unit, path) = <<x, y>>
    BY <1>2 DEF FileSteps
  <2>2. \A r \in rows : r.type = "CONTAINS_SCHEDULE"
    BY DEF Edge
  <2> HIDE DEF rows
  <2>3. x.op = "nodes" /\ x.rows = {FileNode(path)} /\ y.op = "edges" /\ y.rows = rows
    BY DEF NodeRows, EdgeRows
  <2> HIDE DEF x, y
  <2>4. StatementsOf(FileSteps(unit, path)) = {x, y}
    BY <2>1 DEF StatementsOf
  <2> QED
    BY <2>2, <2>3, <2>4
<1> QED
  BY <1>1, <1>2

\* The statements of four sequences one behind the other.
LEMMA FourStatements ==
  ASSUME NEW S, NEW d \in Seq(S), NEW n \in Seq(S), NEW e \in Seq(S), NEW f \in Seq(S)
  PROVE  /\ d \o n \o e \o f \in Seq(S)
         /\ StatementsOf(d \o n \o e \o f) =
              StatementsOf(d) \cup StatementsOf(n) \cup StatementsOf(e) \cup StatementsOf(f)
<1>1. d \o n \in Seq(S) /\ d \o n \o e \in Seq(S) /\ d \o n \o e \o f \in Seq(S)
  OBVIOUS
<1>2. StatementsOf(d \o n) = StatementsOf(d) \cup StatementsOf(n)
  BY StatementsOfParts
<1>3. StatementsOf(d \o n \o e) = StatementsOf(d \o n) \cup StatementsOf(e)
  BY <1>1, StatementsOfParts
<1>4. StatementsOf(d \o n \o e \o f) = StatementsOf(d \o n \o e) \cup StatementsOf(f)
  BY <1>1, StatementsOfParts
<1> QED
  BY <1>1, <1>2, <1>3, <1>4

\* It is so of the plan of any file.
LEMMA PlanReplaces ==
  ASSUME NEW unit, NEW X, unit.streams \in Seq(X), NEW path, NEW overwrite
  PROVE  Replacing(Steps(unit, path, overwrite), overwrite)
<1> DEFINE S == PlanStatements(unit, path)
           d == Cleared(unit, path, overwrite)
           n == NodeSteps(unit)
           e == EdgeSteps(unit)
           f == FileSteps(unit, path)
           all == d \o n \o e \o f
           sent == Steps(unit, path, overwrite)
<1>1. /\ d \in Seq(S) /\ n \in Seq(S) /\ Len(n) = 10 /\ e \in Seq(S) /\ Len(e) = 13 /\ f \in Seq(S)
      /\ sent = Sent(all)
  BY PlanParts
<1>2. /\ \A st \in StatementsOf(d) : st \in Subgraphs(unit, path)
      /\ overwrite => \A i \in DOMAIN unit.streams :
           StreamSubgraph(unit.streams[i]) \in StatementsOf(d)
           /\ ScheduleSubgraph(unit.streams[i]) \in StatementsOf(d)
  <2>1. CASE overwrite
    BY <2>1, DeleteBatches DEF Cleared
  <2>2. CASE ~ overwrite
    BY <2>2 DEF Cleared, StatementsOf
  <2> QED
    BY <2>1, <2>2
<1>3. /\ \A st \in StatementsOf(n) : \E i \in 1..10 : st = NodeSteps(unit)[i] /\ st.op = "nodes"
      /\ \A st \in StatementsOf(e) : \E i \in 1..13 : st = EdgeSteps(unit)[i] /\ st.op = "edges"
  BY BatchStatements, <1>1
<1>5. \A st \in StatementsOf(f) :
        \/ st.op = "nodes" /\ st.rows = {FileNode(path)}
        \/ st.op = "edges" /\ \A x \in st.rows : x.type = "CONTAINS_SCHEDULE"
  BY FileStatements
<1> HIDE DEF d, n, e, f, sent, S
<1>6. all \in Seq(S) /\ StatementsOf(all) =
        StatementsOf(d) \cup StatementsOf(n) \cup StatementsOf(e) \cup StatementsOf(f)
  BY <1>1, FourStatements
<1> HIDE DEF all
<1>7. StatementsOf(sent) = {st \in StatementsOf(all) : st.op = "delete" \/ st.rows # {}}
  BY <1>1, <1>6, StatementsSent
<1>8. \A st \in StatementsOf(d) : st.op = "delete" /\ <<>> \in st.paths /\ st.sparing = {}
  BY <1>2 DEF Subgraphs, StreamSubgraph, ScheduleSubgraph, Subgraph
<1>9. {JobNode(JobId(j)) : j \in Jobs(unit)} \subseteq NodesOf(sent)
  BY PlanOrder DEF sent
<1>10. ASSUME NEW st \in StatementsOf(sent), st.op = "edges", NEW x \in st.rows, x.type = "CONTAINS_JOB"
       PROVE  x.from.label \in Containers /\ x.to \in NodesOf(sent)
  <2>1. st \in StatementsOf(e)
    BY <1>3, <1>5, <1>6, <1>7, <1>8, <1>10
  <2>2. PICK i \in 1..13 : st = EdgeSteps(unit)[i]
    BY <2>1, <1>3
  <2>3. x.from.label \in Containers /\ x.to \in {JobNode(JobId(j)) : j \in Jobs(unit)}
    BY <2>2, <1>10, ContainsRows
  <2> QED
    BY <2>3, <1>9
<1>11. ASSUME NEW st \in StatementsOf(sent), st.op = "delete"
       PROVE  <<>> \in st.paths /\ st.sparing = {}
  <2>1. st \in StatementsOf(d)
    BY <1>3, <1>5, <1>6, <1>7, <1>11
  <2> QED
    BY <2>1, <1>8
<1>12. ASSUME overwrite, NEW x \in NodesOf(sent), x.label \in Containers
       PROVE  \E st \in StatementsOf(sent) : st.op = "delete" /\ st.root = x
  <2>1. PICK st \in StatementsOf(sent) : st.op = "nodes" /\ x \in st.rows
    BY <1>12 DEF NodesOf, StatementsOf
  <2>2. x # FileNode(path)
    BY <1>12 DEF FileNode, NameNode, Node, Containers
  <2>3. st \in StatementsOf(n)
    BY <2>1, <2>2, <1>3, <1>5, <1>6, <1>7, <1>8
  <2>4. PICK i \in 1..10 : st = NodeSteps(unit)[i]
    BY <2>3, <1>3
  <2>5. PICK s \in Streams(unit) : x \in {StreamNode(StreamId(s)), ScheduleNode(StreamId(s))}
    BY <2>1, <2>4, <1>12, ContainerRows
  <2>6. PICK k \in DOMAIN unit.streams : s = unit.streams[k]
    BY DEF Streams, ToSet
  <2>7. StreamSubgraph(s) \in StatementsOf(sent) /\ ScheduleSubgraph(s) \in StatementsOf(sent)
    BY <2>6, <1>2, <1>6, <1>7, <1>8, <1>12
  <2> QED
    BY <2>5, <2>7 DEF StreamSubgraph, ScheduleSubgraph, Subgraph
<1> QED
  BY <1>10, <1>11, <1>12 DEF Replacing, sent

\* Of the edges in the graph from a container the first n - 1 statements have deleted,
\* all are rows of these statements.
Replaced(edges, steps, n) ==
  \A e \in edges : \A k \in 1..(n - 1) :
    e.type = "CONTAINS_JOB" /\ steps[k].op = "delete" /\ steps[k].root = e.from =>
      \E i \in 1..(n - 1) : steps[i].op = "edges" /\ e \in steps[i].rows

AloneInv ==
  /\ alone \subseteq Writers
  /\ \A w \in alone : pc[w] = "writing" => \A v \in Writers \ {w} : pc[v] # "writing"
  /\ \A w \in Writers : pc[w] = "idle" => at[w] = 1
  /\ \A e \in graph.edges : e.type = "CONTAINS_JOB" => e.from.label \in Containers
  /\ \A w \in alone : pc[w] = "writing" => Replaced(graph.edges, plan[w].steps, at[w])

LEMMA PlanIsReplacing ==
  ASSUME NEW p \in Plans
  PROVE  Replacing(p.steps, p.overwrite) /\ p.steps \in Seq(Statements)
<1>1. p = Plan(p.unit, p.path, p.overwrite) /\ p.unit.streams \in Seq(Streams(p.unit))
  BY ParsedAssumption
<1>2. p.steps = Steps(p.unit, p.path, p.overwrite)
  BY <1>1 DEF Plan
<1> QED
  BY <1>1, <1>2, PlanReplaces, PlansAssumption

\* A deletion leaves no edge at its root.
LEMMA RootGoes ==
  ASSUME NEW g, NEW st, st.op = "delete", <<>> \in st.paths, st.sparing = {}
  PROVE  /\ Applied(g, st).edges \subseteq g.edges
         /\ \A e \in Applied(g, st).edges : e.from # st.root
<1>1. PathEnds(g, st.root, <<>>) = {st.root}
  BY DEF PathEnds
<1>2. st.root \in Victims(g, st)
  BY <1>1 DEF Victims
<1> QED
  BY <1>2 DEF Applied, DetachDelete

\* The next statement of the only request writing keeps what it has replaced.
LEMMA SendReplaces ==
  ASSUME TypeOK, NEW w \in Writers, Send(w),
         Replaced(graph.edges, plan[w].steps, at[w])
  PROVE  Replaced(graph'.edges, plan[w].steps, at[w] + 1)
<1> DEFINE steps == plan[w].steps
           st == steps[at[w]]
<1>0. at[w] \in Nat /\ at[w] >= 1
  <2>1. at[w] \in DOMAIN steps /\ steps \in Seq(Statements)
    BY NextStatement, PlansAssumption
  <2> HIDE DEF steps
  <2> QED
    BY <2>1
<1>1. /\ at[w] \in DOMAIN steps /\ plan[w] \in Plans /\ st.op \in {"nodes", "edges", "delete"}
      /\ graph' = Applied(graph, st)
  BY NextStatement DEF Send
<1>2. Replacing(steps, plan[w].overwrite) /\ st \in StatementsOf(steps)
  BY <1>0, <1>1, PlanIsReplacing DEF StatementsOf
<1> HIDE DEF steps
<1>3. CASE st.op = "nodes"
  <2>1. graph'.edges = graph.edges
    BY <1>0, <1>1, <1>3 DEF Applied, MergeNodes
  <2>2. ASSUME NEW e \in graph.edges, NEW k \in 1..((at[w] + 1) - 1),
               e.type = "CONTAINS_JOB", steps[k].op = "delete", steps[k].root = e.from
        PROVE  \E i \in 1..((at[w] + 1) - 1) : steps[i].op = "edges" /\ e \in steps[i].rows
    <3>1. k \in 1..(at[w] - 1)
      BY <1>0, <1>1, <1>3, <2>2
    <3>2. PICK i \in 1..(at[w] - 1) : steps[i].op = "edges" /\ e \in steps[i].rows
      BY <2>2, <3>1 DEF Replaced, steps
    <3>3. i \in 1..((at[w] + 1) - 1)
      BY <1>0, <1>1
    <3> QED
      BY <3>2, <3>3
  <2> QED
    BY <2>1, <2>2 DEF Replaced, steps
<1>4. CASE st.op = "edges"
  <2>1. graph'.edges \subseteq graph.edges \cup st.rows
    BY <1>0, <1>1, <1>4 DEF Applied, MatchMergeEdges
  <2>3. ASSUME NEW e \in graph'.edges, NEW k \in 1..((at[w] + 1) - 1),
               e.type = "CONTAINS_JOB", steps[k].op = "delete", steps[k].root = e.from
        PROVE  \E i \in 1..((at[w] + 1) - 1) : steps[i].op = "edges" /\ e \in steps[i].rows
    <3>1. k \in 1..(at[w] - 1)
      BY <1>0, <1>1, <1>4, <2>3
    <3>2. CASE e \in st.rows
      <4>1. at[w] \in 1..((at[w] + 1) - 1)
        BY <1>0, <1>1
      <4> QED
        BY <1>4, <3>2, <4>1
    <3>3. CASE e \in graph.edges
      <4>1. PICK i \in 1..(at[w] - 1) : steps[i].op = "edges" /\ e \in steps[i].rows
        BY <2>3, <3>1, <3>3 DEF Replaced, steps
      <4>2. i \in 1..((at[w] + 1) - 1)
        BY <1>0, <1>1
      <4> QED
        BY <4>1, <4>2
    <3> QED
      BY <2>1, <3>2, <3>3
  <2> QED
    BY <2>3 DEF Replaced, steps
<1>5. CASE st.op = "delete"
  <2>1. graph'.edges \subseteq graph.edges /\ \A e \in graph'.edges : e.from # st.root
    BY <1>0, <1>1, <1>2, <1>5, RootGoes DEF Replacing
  <2>2. ASSUME NEW e \in graph'.edges, NEW k \in 1..((at[w] + 1) - 1),
               e.type = "CONTAINS_JOB", steps[k].op = "delete", steps[k].root = e.from
        PROVE  \E i \in 1..((at[w] + 1) - 1) : steps[i].op = "edges" /\ e \in steps[i].rows
    <3>1. k # at[w]
      BY <2>1, <2>2
    <3>2. k \in 1..(at[w] - 1)
      BY <1>0, <1>1, <3>1
    <3>3. PICK i \in 1..(at[w] - 1) : steps[i].op = "edges" /\ e \in steps[i].rows
      BY <2>1, <2>2, <3>2 DEF Replaced, steps
    <3>4. i \in 1..((at[w] + 1) - 1)
      BY <1>0, <1>1
    <3> QED
      BY <3>3, <3>4
  <2> QED
    BY <2>1, <2>2 DEF Replaced, steps
<1> QED
  BY <1>0, <1>1, <1>3, <1>4, <1>5

\* Whoever sends a statement, only streams and schedules contain jobs.
LEMMA SendContains ==
  ASSUME TypeOK, NEW w \in Writers, Send(w),
         \A e \in graph.edges : e.type = "CONTAINS_JOB" => e.from.label \in Containers
  PROVE  \A e \in graph'.edges : e.type = "CONTAINS_JOB" => e.from.label \in Containers
<1> DEFINE st == plan[w].steps[at[w]]
<1>1. /\ at[w] \in DOMAIN plan[w].steps /\ plan[w] \in Plans /\ st.op \in {"nodes", "edges", "delete"}
      /\ graph' = Applied(graph, st)
  BY NextStatement DEF Send
<1>2. Replacing(plan[w].steps, plan[w].overwrite) /\ st \in StatementsOf(plan[w].steps)
  BY <1>1, PlanIsReplacing DEF StatementsOf
<1>3. st.op = "edges" => \A e \in st.rows : e.type = "CONTAINS_JOB" => e.from.label \in Containers
  BY <1>2 DEF Replacing
<1>4. graph'.edges \subseteq graph.edges \cup (IF st.op = "edges" THEN st.rows ELSE {})
  BY <1>1 DEF Applied, MergeNodes, MatchMergeEdges, DetachDelete
<1> QED
  BY <1>3, <1>4

LEMMA StepAlone ==
  ASSUME TypeOK, AloneInv, [NextParse]_allvars
  PROVE  AloneInv'
<1>1. CASE UNCHANGED allvars
  BY <1>1 DEF AloneInv, allvars, vars
<1>2. ASSUME NextParse PROVE AloneInv'
  <2>1. /\ alone' = {w \in alone : pc'[w] = "writing" => \A v \in Writers \ {w} : pc'[v] # "writing"}
        /\ alone' \subseteq alone /\ alone' \subseteq Writers
    BY <1>2 DEF NextParse, AloneInv
  <2>2. ASSUME NEW w \in Writers, Send(w) PROVE AloneInv'
    <3>1. /\ plan' = plan /\ pc' = pc /\ pc[w] = "writing"
          /\ at' = [at EXCEPT ![w] = at[w] + 1] /\ at \in [Writers -> Nat]
      BY <2>2 DEF Send, TypeOK
    <3>2. \A v \in Writers : pc'[v] = "idle" => at'[v] = 1
      BY <3>1 DEF AloneInv
    <3>3. ASSUME NEW v \in alone', pc'[v] = "writing"
          PROVE  Replaced(graph'.edges, plan'[v].steps, at'[v])
      <4>1. v = w
        BY <2>1, <3>1, <3>3
      <4>2. Replaced(graph.edges, plan[w].steps, at[w])
        BY <2>1, <3>1, <3>3, <4>1 DEF AloneInv
      <4> QED
        BY <2>2, <3>1, <4>1, <4>2, SendReplaces DEF AloneInv
    <3>4. \A e \in graph'.edges : e.type = "CONTAINS_JOB" => e.from.label \in Containers
      BY <2>2, SendContains DEF AloneInv
    <3> QED
      BY <2>1, <3>2, <3>3, <3>4 DEF AloneInv
  <2>3. ASSUME NEW w \in Writers, Start(w) PROVE AloneInv'
    <3>1. /\ plan' = plan /\ graph' = graph /\ at' = at /\ pc[w] = "idle"
          /\ pc' = [pc EXCEPT ![w] = "writing"]
      BY <2>3 DEF Start
    <3>2. \A v \in Writers : v # w => pc'[v] = pc[v]
      BY <3>1 DEF TypeOK
    <3>3. Replaced(graph.edges, plan[w].steps, 1)
      BY DEF Replaced
    <3>4. at[w] = 1
      BY <3>1 DEF AloneInv
    <3>5. \A v \in alone' : pc'[v] = "writing" => Replaced(graph'.edges, plan'[v].steps, at'[v])
      BY <2>1, <3>1, <3>2, <3>3, <3>4 DEF AloneInv
    <3>6. \A v \in Writers : pc'[v] = "idle" => at'[v] = 1
      BY <3>1 DEF AloneInv, TypeOK
    <3> QED
      BY <2>1, <3>1, <3>5, <3>6 DEF AloneInv
  <2>4. ASSUME NEW w \in Writers, Finish(w) \/ Fail(w) PROVE AloneInv'
    <3>1. /\ plan' = plan /\ graph' = graph /\ at' = at
          /\ \A v \in Writers : pc'[v] \in {"writing", "idle"} => pc'[v] = pc[v]
      BY <2>4 DEF Finish, Fail, TypeOK
    <3> QED
      BY <2>1, <3>1 DEF AloneInv
  <2> QED
    BY <1>2, <2>2, <2>3, <2>4 DEF NextParse, Commit
<1> QED
  BY <1>1, <1>2

\* A request that overwrites, and beside which nobody wrote, leaves in the streams and
\* schedules it declares exactly the jobs it declares, whatever an older version of the
\* file had in them and wherever an earlier request failed.
THEOREM OverwritingReplacesJobs == SpecParse => OverwriteReplacesJobs
<1> DEFINE Replaces ==
      \A w \in Writers :
        pc[w] = "writing" /\ pc'[w] = "done" /\ plan[w].overwrite /\ w \in alone
        => \A e \in graph.edges :
             e.type = "CONTAINS_JOB" /\ e.from \in NodesOf(plan[w].steps) => e \in EdgesOf(plan[w].steps)
<1>1. InitParse => AloneInv
  BY DEF InitParse, Init, EmptyGraph, AloneInv
<1>2. TypeOK /\ AloneInv /\ [NextParse]_allvars => AloneInv'
  BY StepAlone
<1>3. TypeOK /\ AloneInv /\ [NextParse]_allvars => [Replaces]_allvars
  <2> SUFFICES ASSUME TypeOK, AloneInv, NextParse, NEW w \in Writers,
                      pc[w] = "writing", pc'[w] = "done", plan[w].overwrite, w \in alone,
                      NEW e \in graph.edges,
                      e.type = "CONTAINS_JOB", e.from \in NodesOf(plan[w].steps)
               PROVE  e \in EdgesOf(plan[w].steps)
    OBVIOUS
  <2> DEFINE steps == plan[w].steps
  <2>1. at[w] > Len(steps)
    <3>1. ASSUME NEW v \in Writers, Commit(v) PROVE at[w] > Len(steps)
      BY <3>1 DEF Commit, Finish, TypeOK
    <3>2. ASSUME NEW v \in Writers, Start(v) \/ Send(v) \/ Fail(v) PROVE FALSE
      BY <3>2 DEF Start, Send, Fail, TypeOK
    <3> QED
      BY <3>1, <3>2 DEF NextParse
  <2>2. plan[w] \in Plans
    BY DEF TypeOK
  <2>3. Replacing(steps, plan[w].overwrite) /\ steps \in Seq(Statements)
    BY <2>2, PlanIsReplacing
  <2>a. at[w] \in 1..(Len(steps) + 1)
    BY DEF TypeOK
  <2>5. Replaced(graph.edges, steps, at[w]) /\ e.from.label \in Containers
    BY DEF AloneInv
  <2> HIDE DEF steps
  <2>4. at[w] = Len(steps) + 1 /\ Len(steps) \in Nat /\ DOMAIN steps = 1..Len(steps)
    BY <2>1, <2>3, <2>a
  <2>6. PICK k \in DOMAIN steps : steps[k].op = "delete" /\ steps[k].root = e.from
    BY <2>3, <2>5 DEF Replacing, StatementsOf, steps
  <2>7. 1..(at[w] - 1) = DOMAIN steps
    BY <2>4
  <2>8. PICK i \in DOMAIN steps : steps[i].op = "edges" /\ e \in steps[i].rows
    BY <2>5, <2>6, <2>7 DEF Replaced
  <2>9. e.to \in NodesOf(steps)
    BY <2>3, <2>8 DEF Replacing, StatementsOf
  <2> QED
    BY <2>8, <2>9 DEF EdgesOf, steps
<1> QED
  BY <1>1, <1>2, <1>3, TypeCorrect, ImplementsGraphWriter, PTL DEF SpecParse, OverwriteReplacesJobs
=============================================================================
