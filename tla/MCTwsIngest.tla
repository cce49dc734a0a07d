----------------------------- MODULE MCTwsIngest -----------------------------
(* Requests for two files of one stream, overwriting requests for one file, and *)
(* for two versions of one.                                                     *)
EXTENDS TwsIngest, TwsFiles

Symmetry == Permutations(Writers)

MergeMix == {Plan(Main, "p1", FALSE), Plan(Extra, "p2", FALSE)}
OverwriteMix == {Plan(Solo, "p1", TRUE)}
VersionMix == {Plan(Solo, "p1", FALSE), Plan(SoloRenamed, "p1", TRUE)}

SafeMixes == {MergeMix, OverwriteMix, VersionMix}
=============================================================================
