------------------------------- MODULE TwsFiles -------------------------------
(* Small composer files, for the instances of the modules that read them.      *)
(* Daily and Nightly run on workstation W1; the jobs of Daily follow one       *)
(* another inside the stream and across to Nightly.                            *)
EXTENDS TwsTopology

Job(s, n, follows, recovers, needs) ==
  [ws |-> "W1", stream |-> s, name |-> n, attrs |-> "a", scripts |-> {"run.sh"},
   follows |-> follows, recovers |-> recovers, needs |-> needs,
   prompts |-> {"inline1"}, opens |-> {}]
Stream(n, jobs, cals, follows) ==
  [ws |-> "W1", name |-> n, jobs |-> jobs, cals |-> cals, follows |-> follows]

Load == Job("Daily", "LOAD", {}, {}, {"slots"})
Check == Job("Daily", "CHECK", {Internal("LOAD"), External("W1", "Nightly", "CHECK")},
             {Internal("LOAD")}, {})
Mail == Job("Daily", "MAIL", {Internal("LOAD")}, {}, {})
Daily == Stream("Daily", {Load, Check}, {"cal"}, {})
Nightly == Stream("Nightly", {Job("Nightly", "CHECK", {}, {}, {"slots"})}, {}, {"Daily"})

Main == [NoUnit EXCEPT !.workstations = {"W1"}, !.calendars = {"cal"},
           !.rules = {[name |-> "rule", target |-> <<"Daily">>]}, !.streams = <<Daily, Nightly>>]
\* The same file after the stream Nightly, or the job CHECK, was taken out of it.
MainLessStream == [Main EXCEPT !.streams = <<Daily>>]
MainLessJob == [Main EXCEPT !.streams = <<Stream("Daily", {Load}, {}, {}), Nightly>>]
\* Another file that adds a job to Daily, on a workstation it does not declare.
Extra == [NoUnit EXCEPT !.streams = <<Stream("Daily", {Mail}, {}, {})>>]
\* A file of one job that needs nothing, and after the job was renamed.
Bare(n) == [Load EXCEPT !.name = n, !.scripts = {}, !.needs = {}, !.prompts = {}]
Solo == [NoUnit EXCEPT !.streams = <<Stream("Daily", {Bare("LOAD")}, {}, {})>>]
SoloRenamed == [NoUnit EXCEPT !.streams = <<Stream("Daily", {Bare("FETCH")}, {}, {})>>]

\* The graph a sequence of statements leaves of an empty one.
GraphOf(steps) == FoldLeft(Applied, EmptyGraph, steps)
=============================================================================
