--------------------------- MODULE Uploads_proofs ---------------------------
(***************************************************************************)
(* For any files, caps and endpoints: what is reported parsed, and what is *)
(* handed to the project, is in the graph where the parser vouches for its *)
(* writes, and a multi upload the gateway refuses leaves nothing on disk.  *)
(*                                                                         *)
(* None of these is inductive.  What carries them is what each phase of    *)
(* the handler knows of the disk (Ready), and that a call answered without *)
(* rejection by a parser that swallows nothing has left its files in the   *)
(* graph (Replied), whichever of the racing calls the report is taken from. *)
(***************************************************************************)
EXTENDS Uploads, TLAPS, WellFoundedInduction

Early == {"check", "saving", "dispatch"}
Idle == \A k \in Keys : call[k] = "none" /\ job[k] = "none"

\* File i is saved, under its name or a namesake's bytes.
Good(i) == /\ Content(i) \in Items
           /\ batch[Content(i)].verdict # "oversize"
           /\ batch[Content(i)].name = batch[i].name

\* The positions of a batch are 1 to n.
Shape == /\ \E n \in 0..MaxLen : Items = 1..n
         /\ mode = "upload" => Items = {1}

\* What the handler knows before it has sent anything.
Before ==
  /\ phase \in Early => Idle /\ http = 0 /\ \A i \in Items : result[i] = "none"
  /\ http # 0 => phase = "answered"
  /\ phase = "check" => next = 1 /\ \A f \in FileNames : disk[f] = 0
  /\ phase = "saving" => /\ \A i \in Items : i < next => Good(i) /\ Suits(i)
                         /\ \A f \in FileNames : disk[f] # 0 => f \in Saved

\* Once the files are saved, every one has bytes at its path; so has what is reported.
Ready ==
  /\ phase \in {"dispatch", "waiting"} => \A i \in Items : Good(i) /\ Suits(i)
  /\ ~ Idle => \A i \in Items : Good(i)
  /\ \A i \in Items : result[i] # "none" => Good(i)

\* Which calls there are, and what an answered one has done: the multi call is to
\* the TWS parser, which vouches for all of its files.
Called ==
  /\ \A k \in Keys : job[k] # "none" \/ call[k] # "none" => k = 0 \/ k \in Items
  /\ phase = "waiting" =>
       /\ MultiGroup # {} => call[0] # "none"
       /\ \A i \in Supported \ MultiGroup : call[i] # "none"
Replied ==
  \A k \in Keys : call[k] = "replied" /\ ~ Rejected(k) /\ (k = 0 \/ k \in Vouched) =>
    \A c \in Parsed(k) : batch[c].verdict # "failed" => c \in graph

IInv == /\ TypeOK /\ Shape /\ Before /\ Ready /\ Called /\ Replied
        /\ ReportedFilesInGraph /\ RefusedMultiLeavesNothing

-----------------------------------------------------------------------------
(* Facts about the operators.                                              *)

\* A file's last namesake is a file of the batch under the same name: of the
\* positions of one name there is a greatest.
LEMMA LastNamesakeSaved ==
  ASSUME TypeOK, Shape, NEW i \in Items
  PROVE  /\ LastNamesake(i) \in Items
         /\ batch[LastNamesake(i)].name = batch[i].name
<1>1. PICK n \in 0..MaxLen : Items = 1..n
  BY DEF Shape
<1>2. n \in Nat
  BY ConstantsAssumption
<1> DEFINE Distances == {n - l : l \in {j \in Items : batch[j].name = batch[i].name}}
<1>3. Distances \subseteq Nat /\ Distances # {}
  BY <1>1, <1>2
<1>4. PICK d \in Distances : \A e \in Distances : <<e, d>> \notin OpToRel(<, Nat)
  BY <1>3, NatLessThanWellFounded, WFMin
<1>5. PICK j \in Items : batch[j].name = batch[i].name /\ d = n - j
  OBVIOUS
<1>6. ASSUME NEW l \in Items, l > j PROVE batch[l].name # batch[i].name
  <2>1. SUFFICES ASSUME batch[l].name = batch[i].name PROVE FALSE
    OBVIOUS
  <2>2. n - l \in Distances
    BY <2>1
  <2>3. n - l \in Nat /\ d \in Nat /\ n - l < d
    BY <1>1, <1>2, <1>5, <1>6, <2>2, <1>3
  <2>4. <<n - l, d>> \in OpToRel(<, Nat)
    BY <2>3 DEF OpToRel
  <2> QED
    BY <1>4, <2>2, <2>4
<1> QED
  BY <1>5, <1>6 DEF LastNamesake

\* What depends on the batch and the disk only.
LEMMA SameFiles ==
  ASSUME mode' = mode, batch' = batch, disk' = disk
  PROVE  /\ Items' = Items /\ Supported' = Supported /\ MultiGroup' = MultiGroup
         /\ Vouched' = Vouched
         /\ \A i : Content(i)' = Content(i) /\ Good(i)' = Good(i) /\ Suits(i)' = Suits(i)
         /\ \A k : Parsed(k)' = Parsed(k) /\ Rejected(k)' = Rejected(k)
BY DEF Items, Supported, MultiGroup, Vouched, TwsFiles, Content, Good, Suits, Target, Parsed, Rejected

\* The group is made of files, and so is what a call sent for any of them reads.
LEMMA ParsedAreFiles ==
  ASSUME IInv, ~ Idle, NEW k \in Keys, k = 0 \/ k \in Items
  PROVE  /\ MultiGroup \subseteq Items /\ Parsed(k) \subseteq Items
         /\ \A c \in Parsed(k) : batch[c].verdict # "oversize"
BY DEF IInv, Ready, Good, Parsed, MultiGroup, TwsFiles

-----------------------------------------------------------------------------
(* The invariant holds, action by action.                                  *)

\* It holds of an upload that has just arrived.
LEMMA InitInv == Init => IInv
<1> SUFFICES ASSUME Init PROVE IInv
  OBVIOUS
<1>1. PICK names \in NameLists :
        /\ mode = "upload" => DOMAIN names = {1}
        /\ \E v \in [DOMAIN names -> Verdicts] :
             batch = [i \in DOMAIN names |-> [name |-> names[i], verdict |-> v[i]]]
  BY DEF Init
<1>2. PICK n \in 0..MaxLen : names \in [1..n -> FileNames]
  BY ConstantsAssumption
<1>3. PICK v \in [1..n -> Verdicts] :
        batch = [i \in 1..n |-> [name |-> names[i], verdict |-> v[i]]]
  BY <1>1, <1>2
<1>4. Items = 1..n /\ 1..n \subseteq 1..MaxLen /\ batch \in [Items -> File] /\ MaxLen \in Nat
  BY <1>2, <1>3, ConstantsAssumption DEF Items, File
<1>5. TypeOK
  BY <1>4, ConstantsAssumption DEF Init, TypeOK, Phases, Statuses, Keys
<1>6. Shape
  BY <1>1, <1>2, <1>4 DEF Shape
<1>7. Idle /\ Before
  BY DEF Init, Before, Idle, Early
<1>8. Ready /\ Called /\ Replied
  BY <1>7 DEF Init, Ready, Called, Replied, Idle
<1>9. ReportedFilesInGraph /\ RefusedMultiLeavesNothing
  BY DEF Init, ReportedFilesInGraph, Vouched, RefusedMultiLeavesNothing
<1> QED
  BY <1>5, <1>6, <1>7, <1>8, <1>9 DEF IInv

\* Nothing has been sent yet, nothing parsed, nothing reported.
LEMMA CheckInv == ASSUME IInv, Check PROVE IInv'
<1> USE DEF IInv, Check, Answer
<1>1. TypeOK'
  BY DEF TypeOK, Phases, Items
<1>2. Shape'
  BY DEF Shape, Items
<1>3. Before'
  <2>1. Items' = Items /\ Idle' /\ next' = 1 /\ \A i \in Items : ~ (i < 1)
    BY DEF Before, Early, Idle, TypeOK, Items
  <2>2. (\A i \in Items' : result'[i] = "none") /\ \A f \in FileNames : disk'[f] = 0
    BY <2>1 DEF Before, Early
  <2>3. phase' \in {"answered", "saving"} /\ (phase' = "saving" => http' = 0)
        /\ (http' # 0 => phase' = "answered")
    BY DEF Before, Early
  <2> QED
    BY <2>1, <2>2, <2>3 DEF Before, Early
<1>4. Ready'
  <2>1. (\A i \in Items : result'[i] = "none") /\ Idle' /\ Items' = Items
    BY DEF Before, Early, Idle, Items
  <2> QED
    BY <2>1 DEF Ready
<1>5. Called' /\ Replied' /\ ReportedFilesInGraph'
  BY SameFiles DEF Called, Replied, ReportedFilesInGraph, Vouched
<1>6. RefusedMultiLeavesNothing'
  BY DEF Before, Early, RefusedMultiLeavesNothing
<1> QED
  BY <1>1, <1>2, <1>3, <1>4, <1>5, <1>6

\* Before anything is sent, calls and reports do not mind the disk.
LEMMA UnsentInv ==
  ASSUME IInv, phase \in Early, UNCHANGED <<mode, batch, call, job, graph, result, linked>>
  PROVE  /\ Idle' /\ Shape' /\ Replied' /\ ReportedFilesInGraph' /\ (phase' # "waiting" => Called')
         /\ \A i \in Items' : result'[i] = "none"
<1>1. Idle' /\ (\A i \in Items : result[i] = "none")
  BY DEF IInv, Before, Idle
<1>2. Items' = Items
  BY DEF Items
<1> QED
  BY <1>1, <1>2 DEF IInv, Idle, Shape, Replied, Called, ReportedFilesInGraph, Vouched

\* A file joins those at their paths, or a refusal takes /upload/multi's files away.
LEMMA SaveNextInv == ASSUME IInv, SaveNext PROVE IInv'
<1> DEFINE f == batch[next]
<1>0. /\ phase = "saving" /\ phase \in Early /\ next \in Items /\ f \in File
      /\ next \in 1..MaxLen /\ Items' = Items /\ MaxLen \in Nat
      /\ Idle /\ http = 0 /\ (\A i \in Items : result[i] = "none")
  BY ConstantsAssumption DEF IInv, SaveNext, Before, TypeOK, Early, Items
<1>1. /\ Idle' /\ Shape' /\ Replied' /\ ReportedFilesInGraph' /\ Called'
      /\ \A i \in Items' : result'[i] = "none"
  BY <1>0, UnsentInv DEF SaveNext, Answer
<1>2. CASE ~ Suits(next) /\ Answer(400) /\ UNCHANGED next
             /\ disk' = IF mode = "multi" THEN RolledBack(f.name) ELSE disk
  <2>1. TypeOK'
    BY <1>0, <1>2 DEF IInv, SaveNext, TypeOK, Answer, Phases, RolledBack, Keys, Items
  <2>2. Before' /\ Ready'
    BY <1>0, <1>1, <1>2 DEF SaveNext, Before, Ready, Answer, Early
  <2>3. RefusedMultiLeavesNothing'
    BY <1>0, <1>2 DEF IInv, SaveNext, Before, RolledBack, RefusedMultiLeavesNothing
  <2> QED
    BY <1>1, <2>1, <2>2, <2>3 DEF IInv
<1>3. CASE Suits(next) /\ f.verdict = "oversize" /\ Answer(413) /\ UNCHANGED next
             /\ disk' = RolledBack(f.name)
  <2>1. TypeOK'
    BY <1>0, <1>3 DEF IInv, SaveNext, TypeOK, Answer, Phases, RolledBack, Keys, Items
  <2>2. Before' /\ Ready'
    BY <1>0, <1>1, <1>3 DEF SaveNext, Before, Ready, Answer, Early
  <2>3. RefusedMultiLeavesNothing'
    BY <1>0, <1>3 DEF IInv, SaveNext, Before, RolledBack, RefusedMultiLeavesNothing
  <2> QED
    BY <1>1, <2>1, <2>2, <2>3 DEF IInv
<1>4. CASE Suits(next) /\ f.verdict # "oversize" /\ next' = next + 1
             /\ disk' = [disk EXCEPT ![f.name] = next]
             /\ phase' = (IF next + 1 \in Items THEN "saving" ELSE "dispatch")
             /\ UNCHANGED http
  <2>1. TypeOK'
    BY <1>0, <1>4 DEF IInv, SaveNext, TypeOK, Phases, Keys, Items, File
  <2>2. ASSUME NEW i \in Items, i < next + 1 PROVE Good(i)' /\ Suits(i)'
    <3>1. Suits(i) /\ Suits(i)' = Suits(i) /\ (i = next \/ (i < next /\ Good(i)))
      BY <1>0, <1>4, <2>2 DEF IInv, Before, TypeOK, SaveNext, Suits, Target
    <3>2. Content(i)' = (IF batch[i].name = f.name THEN next ELSE Content(i))
      BY <1>0, <1>4 DEF IInv, TypeOK, SaveNext, Content, File
    <3>3. batch' = batch /\ (i = next => Content(i)' = next)
      BY <1>4, <3>2 DEF SaveNext
    <3>4. /\ Content(i)' \in Items /\ batch[Content(i)'].verdict # "oversize"
          /\ batch[Content(i)'].name = batch[i].name
      BY <1>0, <1>4, <3>1, <3>2, <3>3 DEF Good
    <3> QED
      BY <1>0, <3>1, <3>3, <3>4 DEF Good
  <2>3. ASSUME NEW g \in FileNames, disk'[g] # 0 PROVE g \in Saved'
    <3>1. g = f.name \/ disk[g] # 0
      BY <1>0, <1>4, <2>3 DEF IInv, TypeOK
    <3>2. Saved' = Saved \cup {f.name}
      <4>1. {j \in Items : j < next + 1} = {j \in Items : j < next} \cup {next}
        <5>1. \A j \in Items : j \in Nat /\ (j < next + 1 <=> j < next \/ j = next)
          BY <1>0 DEF IInv, TypeOK
        <5> QED
          BY <1>0, <5>1
      <4> QED
        BY <1>0, <1>4, <4>1 DEF SaveNext, Saved
    <3> QED
      BY <1>0, <3>1, <3>2 DEF IInv, Before
  <2>4. Before'
    BY <1>0, <1>1, <1>4, <2>2, <2>3 DEF SaveNext, Before, Early
  <2>5. Ready'
    <3>1. CASE next + 1 \in Items
      BY <1>1, <1>4, <3>1 DEF Ready
    <3>2. CASE next + 1 \notin Items
      <4>1. PICK n \in 0..MaxLen : Items = 1..n
        BY DEF IInv, Shape
      <4>2. \A i \in Items : i < next + 1
        BY <1>0, <3>2, <4>1
      <4> QED
        BY <1>0, <1>1, <2>2, <4>2 DEF Ready
    <3> QED
      BY <3>1, <3>2
  <2>6. RefusedMultiLeavesNothing'
    BY <1>0, <1>4 DEF RefusedMultiLeavesNothing
  <2> QED
    BY <1>1, <2>1, <2>4, <2>5, <2>6 DEF IInv
<1> QED
  BY <1>2, <1>3, <1>4 DEF SaveNext

\* What the client that went away leaves on disk is not an answer's.
LEMMA ClientGoneInv == ASSUME IInv, ClientGone PROVE IInv'
<1>0. phase \in Early /\ next \in Items /\ batch[next] \in File /\ next \in 1..MaxLen
  BY DEF IInv, ClientGone, TypeOK, Early
<1>1. /\ Idle' /\ Shape' /\ Replied' /\ ReportedFilesInGraph' /\ Called'
      /\ \A i \in Items' : result'[i] = "none"
  BY <1>0, UnsentInv DEF ClientGone, Answer
<1>2. TypeOK'
  BY <1>0 DEF IInv, ClientGone, TypeOK, Answer, Phases, File, Items
<1>3. Before' /\ Ready' /\ RefusedMultiLeavesNothing'
  BY <1>1 DEF ClientGone, Answer, Before, Ready, RefusedMultiLeavesNothing, Early
<1> QED
  BY <1>1, <1>2, <1>3 DEF IInv

\* Past the save loop nothing touches the disk: what is left to an action is to
\* keep the types, what there is of calls, and the truth of the reports.
LEMMA AfterSavingInv ==
  ASSUME IInv, phase \notin {"check", "saving"}, phase' \notin Early,
         UNCHANGED <<mode, batch, next, disk>>, graph \subseteq graph',
         TypeOK', Called', Replied', ReportedFilesInGraph',
         http' # 0 => phase' = "answered",
         mode = "multi" /\ http' \in {400, 413} /\ call'[0] = "none" =>
           http' = http /\ call[0] = "none",
         result' = result \/ phase = "waiting",
         ~ Idle' \/ phase' = "waiting" => ~ Idle \/ phase \in {"dispatch", "waiting"},
         phase' = "waiting" => phase \in {"dispatch", "waiting"}
  PROVE  IInv'
<1>1. Shape'
  BY DEF IInv, Shape, Items
<1>2. Before'
  BY DEF Before, Early
<1>3. Ready'
  <2>1. Items' = Items /\ \A i : Good(i)' = Good(i) /\ Suits(i)' = Suits(i)
    BY SameFiles
  <2>2. phase' # "dispatch"
    BY DEF Early
  <2>3. ASSUME NEW i \in Items', phase' = "waiting" PROVE Good(i)' /\ Suits(i)'
    BY <2>1, <2>3 DEF IInv, Ready
  <2>4. ASSUME NEW i \in Items', ~ Idle' PROVE Good(i)'
    BY <2>1, <2>4 DEF IInv, Ready
  <2>5. ASSUME NEW i \in Items', result'[i] # "none" PROVE Good(i)'
    BY <2>1, <2>5 DEF IInv, Ready
  <2> QED
    BY <2>2, <2>3, <2>4, <2>5 DEF Ready
<1>4. RefusedMultiLeavesNothing'
  BY DEF IInv, RefusedMultiLeavesNothing
<1> QED
  BY <1>1, <1>2, <1>3, <1>4 DEF IInv

\* The gather sends every group, and what is left over to /parse, at once.
LEMMA DispatchInv == ASSUME IInv, Dispatch PROVE IInv'
<1>0. /\ phase = "dispatch" /\ phase' = "waiting" /\ Idle /\ http = 0 /\ http' = 0
      /\ \A i \in Items : result[i] = "none"
  BY DEF IInv, Dispatch, Before, Early
<1>1. TypeOK'
  BY <1>0 DEF IInv, Dispatch, TypeOK, Send, Phases, Items
<1>2. /\ Items \subseteq Keys /\ 0 \in Keys /\ 0 \notin Items
      /\ MultiGroup \subseteq Items /\ Supported \subseteq Items
  BY ConstantsAssumption DEF IInv, TypeOK, Keys, MultiGroup, TwsFiles, Supported
<1>3. Called'
  <2>1. MultiGroup' = MultiGroup /\ Supported' = Supported /\ Items' = Items
    BY SameFiles DEF Dispatch
  <2>2. ASSUME NEW k \in Keys, job'[k] # "none" \/ call'[k] # "none" PROVE k = 0 \/ k \in Items
    BY <1>0, <1>2, <2>2 DEF Dispatch, Send, Idle
  <2>3. (MultiGroup # {} => call'[0] # "none")
        /\ \A i \in Supported \ MultiGroup : call'[i] # "none"
    BY <1>2 DEF Dispatch, Send
  <2> QED
    BY <2>1, <2>2, <2>3 DEF Called
<1>4. Replied'
  <2>1. \A k \in Keys : call'[k] # "replied"
    BY <1>0 DEF Dispatch, Send, Idle
  <2> QED
    BY <2>1 DEF Replied
<1>5. ReportedFilesInGraph'
  BY <1>0 DEF Dispatch, ReportedFilesInGraph, Vouched, Items
<1> QED
  BY <1>0, <1>1, <1>3, <1>4, <1>5, AfterSavingInv DEF Dispatch, Early

\* A parser's writes are in the graph before its answer is out; the graph only grows.
LEMMA ParseInv == ASSUME IInv, NEW k \in Keys, Parse(k) PROVE IInv'
<1>0. /\ ~ Idle /\ phase \notin Early /\ (k = 0 \/ k \in Items)
      /\ UNCHANGED <<mode, batch, phase, next, disk, result, linked, http>>
  BY DEF IInv, Parse, Before, Called, Idle
<1>1. graph \subseteq graph' /\ graph' \subseteq graph \cup Parsed(k)
  BY DEF Parse
<1>2. ~ Rejected(k) /\ (k = 0 \/ k \in Vouched) =>
        \A c \in Parsed(k) : batch[c].verdict # "failed" => c \in graph'
  BY DEF Parse, Vouched, Swallowing
<1>3. TypeOK'
  <2>1. Parsed(k) \subseteq Items
    BY <1>0, ParsedAreFiles
  <2> QED
    BY <1>0, <1>1, <2>1 DEF IInv, Parse, TypeOK, Items
<1>4. Called'
  <2>1. MultiGroup' = MultiGroup /\ Supported' = Supported /\ Items' = Items
    BY <1>0, SameFiles
  <2>2. \A l \in Keys : /\ call'[l] = "none" <=> call[l] = "none"
                        /\ job'[l] # "none" => job[l] # "none"
    BY DEF IInv, TypeOK, Parse
  <2>3. 0 \in Keys /\ Items \subseteq Keys /\ Supported \subseteq Items
    BY ConstantsAssumption DEF IInv, TypeOK, Keys, Supported
  <2> QED
    BY <1>0, <2>1, <2>2, <2>3 DEF IInv, Called
<1>5. Replied'
  <2>1. (\A l : Parsed(l)' = Parsed(l) /\ Rejected(l)' = Rejected(l)) /\ Vouched' = Vouched
    BY <1>0, SameFiles
  <2>2. SUFFICES ASSUME NEW l \in Keys, call'[l] = "replied", ~ Rejected(l), l = 0 \/ l \in Vouched,
                        NEW c \in Parsed(l), batch[c].verdict # "failed"
                 PROVE c \in graph'
    BY <1>0, <2>1 DEF Replied
  <2>3. CASE l = k
    BY <1>2, <2>2, <2>3
  <2>4. CASE l # k
    BY <1>1, <2>2, <2>4 DEF IInv, TypeOK, Parse, Replied
  <2> QED
    BY <2>3, <2>4
<1>6. ReportedFilesInGraph'
  BY <1>0, <1>1, SameFiles DEF IInv, ReportedFilesInGraph
<1>7. (http' # 0 => phase' = "answered") /\ phase \notin {"check", "saving"} /\ phase' \notin Early
  BY <1>0 DEF IInv, Before, Early
<1>8. call'[0] = "none" => call[0] = "none"
  BY ConstantsAssumption DEF IInv, TypeOK, Keys, Parse
<1> QED
  BY <1>0, <1>1, <1>3, <1>4, <1>5, <1>6, <1>7, <1>8, AfterSavingInv

\* A call given up is neither replied nor none.
LEMMA GiveUpInv == ASSUME IInv, NEW k \in Keys, GiveUp(k) PROVE IInv'
<1>0. /\ ~ Idle /\ phase \notin Early /\ (k = 0 \/ k \in Items)
      /\ UNCHANGED <<mode, batch, phase, next, disk, graph, result, linked, http>>
  BY DEF IInv, GiveUp, Before, Called, Idle
<1>1. TypeOK'
  BY <1>0 DEF IInv, GiveUp, TypeOK, Items
<1>2. Called'
  <2>1. MultiGroup' = MultiGroup /\ Supported' = Supported /\ Items' = Items
    BY <1>0, SameFiles
  <2>2. \A l \in Keys : /\ call'[l] = "none" <=> call[l] = "none"
                        /\ job'[l] # "none" => job[l] # "none" \/ l = k
    BY DEF IInv, TypeOK, GiveUp
  <2>3. 0 \in Keys /\ Items \subseteq Keys /\ Supported \subseteq Items
    BY ConstantsAssumption DEF IInv, TypeOK, Keys, Supported
  <2> QED
    BY <1>0, <2>1, <2>2, <2>3 DEF IInv, Called
<1>3. Replied'
  <2>1. (\A l : Parsed(l)' = Parsed(l) /\ Rejected(l)' = Rejected(l)) /\ Vouched' = Vouched
    BY <1>0, SameFiles
  <2>2. \A l \in Keys : call'[l] = "replied" => call[l] = "replied"
    BY DEF IInv, TypeOK, GiveUp
  <2> QED
    BY <1>0, <2>1, <2>2 DEF IInv, Replied
<1>4. ReportedFilesInGraph'
  BY <1>0, SameFiles DEF IInv, ReportedFilesInGraph
<1>5. (http' # 0 => phase' = "answered") /\ phase \notin {"check", "saving"} /\ phase' \notin Early
  BY <1>0 DEF IInv, Before, Early
<1>6. call'[0] = "none" => call[0] = "none"
  BY ConstantsAssumption DEF IInv, TypeOK, Keys, GiveUp
<1> QED
  BY <1>0, <1>1, <1>2, <1>3, <1>4, <1>5, <1>6, AfterSavingInv

\* The files of a multi call that failed in transport are sent again, one by one.
LEMMA FallbackInv == ASSUME IInv, Fallback PROVE IInv'
<1>0. /\ phase = "waiting" /\ phase' = "waiting"
      /\ UNCHANGED <<mode, batch, next, disk, graph, result, linked, http>>
  BY DEF Fallback
<1>1. TypeOK'
  BY <1>0 DEF IInv, Fallback, TypeOK, Send, Items
<1>2. MultiGroup \subseteq Items /\ Supported \subseteq Items /\ Items \subseteq Keys /\ 0 \in Keys
  BY ConstantsAssumption DEF IInv, TypeOK, Keys, Supported, MultiGroup, TwsFiles
<1>3. \A l \in Keys : IF l \in MultiGroup THEN call'[l] = "waiting"
                      ELSE call'[l] = call[l] /\ job'[l] = job[l]
  BY DEF Fallback, Send
<1>4. Called'
  <2>1. MultiGroup' = MultiGroup /\ Supported' = Supported /\ Items' = Items
    BY <1>0, SameFiles
  <2> QED
    BY <1>0, <1>2, <1>3, <2>1 DEF IInv, Called
<1>5. Replied'
  <2>1. (\A l : Parsed(l)' = Parsed(l) /\ Rejected(l)' = Rejected(l)) /\ Vouched' = Vouched
    BY <1>0, SameFiles
  <2>2. \A l \in Keys : call'[l] = "replied" => call[l] = "replied"
    BY <1>3
  <2> QED
    BY <1>0, <2>1, <2>2 DEF IInv, Replied
<1>6. ReportedFilesInGraph'
  BY <1>0, SameFiles DEF IInv, ReportedFilesInGraph
<1>7. http' = 0
  BY <1>0 DEF IInv, Before
<1> QED
  BY <1>0, <1>1, <1>4, <1>5, <1>6, <1>7, AfterSavingInv DEF Early

\* The outcome of a file whose calls have settled: ok or partial only if the
\* answered call it is taken from wrote the content at the file's path.
LEMMA OutcomeTrue ==
  ASSUME IInv, phase = "waiting", mode = "auto", Settled, NEW i \in Items
  PROVE  /\ Outcome(i) \in Statuses
         /\ Outcome(i) \in {"ok", "partial"} /\ i \in Vouched => Content(i) \in graph
<1> DEFINE k == IF i \in MultiGroup /\ call[0] = "replied" THEN 0 ELSE i
<1>1. SUFFICES ASSUME i \in Supported, call[k] # "error", ~ Rejected(k)
               PROVE  /\ Verdict(i) \in Statuses
                      /\ Verdict(i) \in {"ok", "partial"} /\ i \in Vouched => Content(i) \in graph
  BY DEF Outcome, Statuses
<1>2. i \in Keys /\ 0 \in Keys /\ i # 0
  BY ConstantsAssumption DEF IInv, TypeOK, Keys
<1>3. call[k] = "replied"
  <2>1. CASE i \in MultiGroup /\ call[0] = "replied"
    BY <2>1
  <2>2. CASE i \in MultiGroup /\ call[0] # "replied"
    <3>1. call[0] # "none" /\ call[0] # "waiting"
      BY <1>2, <2>2 DEF IInv, Called, Settled
    <3>2. call[0] = "error"
      BY <1>2, <2>2, <3>1 DEF IInv, TypeOK
    <3>3. k = i /\ call[i] # "none" /\ call[i] # "waiting" /\ call[i] # "error"
      BY <1>1, <1>2, <2>2, <3>2 DEF Settled
    <3> QED
      BY <1>2, <3>3 DEF IInv, TypeOK
  <2>3. CASE i \notin MultiGroup
    BY <1>1, <1>2, <2>3 DEF IInv, TypeOK, Called, Settled
  <2> QED
    BY <2>1, <2>2, <2>3
<1>4. Content(i) \in Parsed(k)
  BY <1>2 DEF Parsed
<1>5. Verdict(i) \in {"ok", "partial", "failed"}
  <2>1. Good(i) /\ batch \in [Items -> File] /\ Verdicts \subseteq AllVerdicts
    BY ConstantsAssumption DEF IInv, Ready, TypeOK
  <2>2. Verdict(i) \in AllVerdicts /\ Verdict(i) # "oversize"
    BY <2>1 DEF Good, Verdict, File
  <2>3. Verdict(i) # "reject"
    BY <1>1, <1>4 DEF Rejected, Verdict
  <2> QED
    BY <2>2, <2>3 DEF AllVerdicts
<1> QED
  <2>1. k \in Keys
    BY <1>2
  <2>2. Verdict(i) # "failed" /\ i \in Vouched => Content(i) \in graph
    BY <1>1, <1>3, <1>4, <2>1 DEF IInv, Replied, Verdict
  <2> QED
    BY <1>5, <2>2 DEF Statuses

\* The reports are drawn up: in /upload/auto by name, elsewhere from the one call.
LEMMA GatherInv == ASSUME IInv, Gather PROVE IInv'
<1>0. /\ phase = "waiting" /\ Settled
      /\ UNCHANGED <<mode, batch, next, disk, call, job, graph, linked>>
      /\ Items' = Items /\ http = 0
  BY DEF IInv, Gather, Before, Items
<1>1. /\ Called' /\ Replied' /\ Vouched' = Vouched /\ Vouched \subseteq Items
      /\ \A i : Content(i)' = Content(i)
  <2>1. /\ MultiGroup' = MultiGroup /\ Supported' = Supported /\ Vouched' = Vouched
        /\ \A k : Parsed(k)' = Parsed(k) /\ Rejected(k)' = Rejected(k)
        /\ \A i : Content(i)' = Content(i)
    BY <1>0, SameFiles
  <2>2. Called'
    BY <1>0, <2>1 DEF IInv, Called
  <2>3. Replied'
    BY <1>0, <2>1 DEF IInv, Replied
  <2> QED
    BY <2>1, <2>2, <2>3 DEF Vouched
<1>2. CASE /\ mode = "auto"
           /\ result' = [i \in Items |-> Outcome(LastNamesake(i))]
           /\ phase' = "grouping" /\ UNCHANGED http
  <2>1. ASSUME NEW i \in Items
        PROVE  /\ result'[i] \in Statuses
               /\ result'[i] \in {"ok", "partial"} /\ i \in Vouched => Content(i) \in graph
    <3> DEFINE j == LastNamesake(i)
    <3>1. j \in Items /\ Content(j) = Content(i) /\ (i \in Vouched => j \in Vouched)
      BY LastNamesakeSaved DEF IInv, Content, Vouched
    <3>2. /\ Outcome(j) \in Statuses
          /\ Outcome(j) \in {"ok", "partial"} /\ j \in Vouched => Content(j) \in graph
      BY <1>0, <1>2, <3>1, OutcomeTrue
    <3> QED
      BY <1>2, <3>1, <3>2
  <2>2. result' \in [Items -> Statuses]
    BY <1>2, <2>1
  <2>3. TypeOK'
    BY <1>0, <1>2, <2>2 DEF IInv, TypeOK, Phases
  <2>4. ReportedFilesInGraph'
    BY <1>0, <1>1, <2>1 DEF ReportedFilesInGraph
  <2> QED
    BY <1>0, <1>1, <1>2, <2>3, <2>4, AfterSavingInv DEF Early
<1>3. CASE /\ mode # "auto"
           /\ LET k == IF mode = "multi" THEN 0 ELSE 1 IN
              IF call[k] = "error" THEN Answer(502) /\ UNCHANGED result
              ELSE IF Rejected(k) THEN (\E code \in Relayed : Answer(code)) /\ UNCHANGED result
              ELSE Answer(200) /\ result' = [i \in Items |-> Verdict(i)]
  <2> DEFINE k == IF mode = "multi" THEN 0 ELSE 1
  <2>1. phase' = "answered" /\ http' \in {200, 400, 413, 500, 502}
    BY <1>3 DEF Answer, Relayed
  <2>0. ASSUME mode = "multi", http' \in {400, 413} PROVE call'[0] # "none"
    <3>1. Rejected(0)
      BY <1>3, <2>0 DEF Answer
    <3>2. MultiGroup # {}
      BY <3>1 DEF Rejected, Parsed
    <3> QED
      BY <1>0, <3>2 DEF IInv, Called
  <2>2. \/ result' = result
        \/ call[k] # "error" /\ ~ Rejected(k) /\ result' = [i \in Items |-> Verdict(i)]
    BY <1>3 DEF Answer
  <2>3. ASSUME NEW i \in Items, call[k] # "error", ~ Rejected(k)
        PROVE  /\ Verdict(i) \in {"ok", "partial", "failed"}
               /\ Verdict(i) \in {"ok", "partial"} /\ i \in Vouched => Content(i) \in graph
    <3>1. i \in Keys /\ 0 \in Keys
      BY ConstantsAssumption DEF IInv, TypeOK, Keys
    <3>2. k \in Keys /\ call[k] # "none" /\ Content(i) \in Parsed(k)
      <4>1. CASE mode = "multi"
        BY <1>0, <3>1, <4>1 DEF IInv, Called, MultiGroup, Parsed
      <4>2. CASE mode # "multi"
        <5>0. mode = "upload" /\ k = 1
          BY <1>3, <4>2 DEF IInv, TypeOK, AllModes
        <5>1. mode = "upload" /\ k = 1 /\ i = 1
          BY <5>0 DEF IInv, Shape
        <5>2. SourceOf[batch[1].name] \in {"tws", "tableau", "qlikview", "spark"}
          BY <1>0, <5>1 DEF IInv, Ready, Suits, Target
        <5>3. 1 \in Supported \ MultiGroup
          BY <5>1, <5>2, ConstantsAssumption DEF Supported, MultiGroup
        <5> QED
          BY <1>0, <3>1, <5>1, <5>3 DEF IInv, Called, Parsed
      <4> QED
        BY <4>1, <4>2
    <3>3. call[k] = "replied"
      BY <1>0, <2>3, <3>2 DEF IInv, TypeOK, Settled
    <3>4. Verdict(i) # "reject"
      BY <2>3, <3>2 DEF Rejected, Verdict
    <3>5. Good(i) /\ batch \in [Items -> File] /\ Verdicts \subseteq AllVerdicts
      BY <1>0, ConstantsAssumption DEF IInv, Ready, TypeOK
    <3>6. Verdict(i) \in {"ok", "partial", "failed"}
      BY <3>4, <3>5 DEF Good, Verdict, File, AllVerdicts
    <3>7. Verdict(i) # "failed" /\ i \in Vouched => Content(i) \in graph
      <4>1. k = 0 \/ k = i
        <5>1. mode # "multi" => mode = "upload"
          BY <1>3 DEF IInv, TypeOK, AllModes
        <5>2. mode = "upload" => i = 1
          BY DEF IInv, Shape
        <5> QED
          BY <5>1, <5>2
      <4> QED
        BY <2>3, <3>2, <3>3, <4>1 DEF IInv, Replied, Verdict
    <3> QED
      BY <3>6, <3>7
  <2>4. result' \in [Items -> Statuses]
    BY <2>2, <2>3 DEF IInv, TypeOK, Statuses
  <2>5. TypeOK'
    BY <1>0, <2>1, <2>4 DEF IInv, TypeOK, Phases
  <2>6. ReportedFilesInGraph'
    BY <1>0, <1>1, <2>2, <2>3 DEF IInv, ReportedFilesInGraph
  <2> QED
    BY <1>0, <1>1, <2>0, <2>1, <2>5, <2>6, AfterSavingInv DEF Early
<1> QED
  BY <1>2, <1>3 DEF Gather

\* The project block and the stitch add nothing to what is reported or on disk.
LEMMA TailInv ==
  ASSUME IInv, Stitch \/ \E how \in GroupOutcomes : Group(how)
  PROVE  IInv'
<1>0. /\ phase \in {"grouping", "stitch"} /\ phase' \in {"stitch", "answered"}
      /\ UNCHANGED <<mode, batch, next, disk, call, job, graph, result>>
      /\ linked' \in {graph, linked}
      /\ http' = http \/ (http' \in {200, 500} /\ phase' = "answered")
  BY DEF Stitch, Group, Answer
<1>1. /\ Items' = Items /\ MultiGroup' = MultiGroup /\ Supported' = Supported /\ Vouched' = Vouched
      /\ \A k : Parsed(k)' = Parsed(k) /\ Rejected(k)' = Rejected(k)
      /\ \A i : Content(i)' = Content(i)
  BY <1>0, SameFiles
<1>2. TypeOK'
  BY <1>0, <1>1 DEF IInv, TypeOK, Phases
<1>3. Called'
  BY <1>0, <1>1 DEF IInv, Called
<1>4. Replied'
  BY <1>0, <1>1 DEF IInv, Replied
<1>5. ReportedFilesInGraph'
  BY <1>0, <1>1 DEF IInv, ReportedFilesInGraph
<1>6. http' # 0 => phase' = "answered"
  BY <1>0 DEF IInv, Before
<1>7. (http' \in {400, 413} => http' = http) /\ call' = call
  BY <1>0
<1>8. (~ Idle' => ~ Idle) /\ phase \notin {"check", "saving"}
      /\ phase' \notin Early /\ phase' # "waiting" /\ graph \subseteq graph'
  BY <1>0 DEF Idle, Early
<1> QED
  BY <1>0, <1>2, <1>3, <1>4, <1>5, <1>6, <1>7, <1>8, AfterSavingInv

\* Every step of the system keeps the invariant.
LEMMA NextInv == IInv /\ [Next]_vars => IInv'
<1> SUFFICES ASSUME IInv, [Next]_vars PROVE IInv'
  OBVIOUS
<1>1. CASE Handler
  BY <1>1, CheckInv, SaveNextInv, DispatchInv, FallbackInv, GatherInv, TailInv DEF Handler
<1>2. CASE ClientGone
  BY <1>2, ClientGoneInv
<1>3. CASE Parser
  BY <1>3, ParseInv, GiveUpInv DEF Parser
<1>4. CASE \E how \in GroupOutcomes : Group(how)
  BY <1>4, TailInv
<1>5. CASE UNCHANGED vars
  <2> USE <1>5 DEF vars
  <2>1. /\ Items' = Items /\ MultiGroup' = MultiGroup /\ Supported' = Supported /\ Vouched' = Vouched
        /\ \A k : Parsed(k)' = Parsed(k) /\ Rejected(k)' = Rejected(k)
        /\ \A i : Content(i)' = Content(i) /\ Good(i)' = Good(i) /\ Suits(i)' = Suits(i)
    BY SameFiles
  <2>2. TypeOK' /\ Shape' /\ ReportedFilesInGraph' /\ RefusedMultiLeavesNothing'
    BY <2>1 DEF IInv, TypeOK, Shape, ReportedFilesInGraph, RefusedMultiLeavesNothing
  <2>3. Idle' = Idle /\ Saved' = Saved
    BY <2>1 DEF Idle, Saved
  <2>4. Before'
    BY <2>1, <2>3 DEF IInv, Before
  <2>5. Ready'
    BY <2>1, <2>3 DEF IInv, Ready
  <2>6. Called' /\ Replied'
    BY <2>1 DEF IInv, Called, Replied
  <2> QED
    BY <2>2, <2>4, <2>5, <2>6 DEF IInv
<1> QED
  BY <1>1, <1>2, <1>3, <1>4, <1>5 DEF Next

-----------------------------------------------------------------------------
(* The theorems.                                                           *)

\* The invariant, in every reachable state.
THEOREM Invariant == Spec => []IInv
BY InitInv, NextInv, PTL DEF Spec

\* The state keeps its types: the cursor of the save loop never leaves the batch,
\* and nothing enters the graph or a report that is not of this batch.
THEOREM TypeCorrect == Spec => []TypeOK
<1>1. IInv => TypeOK
  BY DEF IInv
<1> QED
  BY <1>1, Invariant, PTL

\* A TWS or Tableau file reported ok or partial has its content in the graph, for
\* every batch and every race of the gateway's timeouts with the parsers.
THEOREM ReportedInGraph == Spec => []ReportedFilesInGraph
<1>1. IInv => ReportedFilesInGraph
  BY DEF IInv
<1> QED
  BY <1>1, Invariant, PTL

\* What the project is given is in the graph if its parser vouches for its writes,
\* and a failed batch gives it nothing.
THEOREM RefsAreParsed == Spec => []RefsParsed
<1>1. IInv => RefsParsed
  <2> SUFFICES ASSUME IInv PROVE RefsParsed
    OBVIOUS
  <2>1. Refs \cap Vouched \subseteq graph
    BY DEF IInv, ReportedFilesInGraph, Refs, Ready, Good, Vouched
  <2>2. Overall = "failed" => Refs = {}
    BY DEF Overall, Refs
  <2> QED
    BY <2>1, <2>2 DEF RefsParsed
<1> QED
  BY <1>1, Invariant, PTL

\* A multi upload that the gateway itself refuses leaves none of its files on disk,
\* whatever their names and wherever in the batch the refused one stands.
THEOREM RefusedLeavesNothing == Spec => []RefusedMultiLeavesNothing
<1>1. IInv => RefusedMultiLeavesNothing
  BY DEF IInv
<1> QED
  BY <1>1, Invariant, PTL
=============================================================================
