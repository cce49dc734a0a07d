------------------------------ MODULE MCTwsMulti ------------------------------
(* Up to three paths, given in any order and also twice, over files that share *)
(* a stream and jobs of it, agree or differ on them, and have errors or not.   *)
EXTENDS TwsMulti, TwsFiles

Content(unit, errors) == [unit |-> unit, errors |-> errors]

\* LOAD of Daily again, with another script and with other predecessors.
Redeclared(jobs) == [NoUnit EXCEPT !.streams = <<Stream("Daily", jobs, {}, {})>>]
OtherScript == Redeclared({[Load EXCEPT !.attrs = "b"]})
OtherFollows == Redeclared({[Load EXCEPT !.follows = {Internal("CHECK")}], Check})
JustNightly == [NoUnit EXCEPT !.workstations = {"W1"}, !.streams = <<Nightly>>]
NightlyAlone == [NoUnit EXCEPT !.streams = <<[Nightly EXCEPT !.follows = {}]>>]
CheckAlone == [NoUnit EXCEPT !.resources = {"slots"}, !.streams = <<Stream("Daily", {Check}, {}, {})>>]
\* A file of two blocks for one stream, the second of which has LOAD again.
TwoBlocks == [NoUnit EXCEPT !.streams = <<Stream("Daily", {Load}, {}, {}),
                                          Stream("Daily", {Mail, [Load EXCEPT !.attrs = "b"]}, {}, {})>>]

Units == {Main, Extra, OtherScript, JustNightly, CheckAlone, TwoBlocks, NoUnit}
AgreeingFiles ==
  {[p1 |-> Content(a, FALSE), p2 |-> Content(b, e), p3 |-> Content(c, FALSE)] :
     a, b, c \in Units, e \in BOOLEAN}
DifferingFiles ==
  {[p1 |-> Content(a, FALSE), p2 |-> Content(b, FALSE)] : a \in {Main, Extra}, b \in {OtherFollows, NightlyAlone}}

SomePaths == {<<"p1", "p2">>, <<"p2", "p1">>, <<"p1", "p1">>, <<"p2", "p3", "p1">>, <<"p1", "p2", "p1">>}
SomeRequests == [paths : SomePaths, strict : BOOLEAN]
AllCorpora == AgreeingFiles \cup DifferingFiles
=============================================================================
