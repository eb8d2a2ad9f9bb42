------------------------------ MODULE MCPolls -------------------------------
(***************************************************************************)
(* Model-checking instance of Polls.  The added options are                *)
(* interchangeable; so are the first ones.                                 *)
(***************************************************************************)
EXTENDS Polls, TLC

Symmetry == Permutations(Options) \cup Permutations(Extra)
=============================================================================
