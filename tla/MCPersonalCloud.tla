---------------------------- MODULE MCPersonalCloud ----------------------------
(* Instances of PersonalCloud for TLC: files of one unit.                   *)
EXTENDS PersonalCloud, TLC

OneUnit == [u \in Uploads |-> 1]

Symmetry == Permutations(Uploads) \cup Permutations(Workers)
=============================================================================
