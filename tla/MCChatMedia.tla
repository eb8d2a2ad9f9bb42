---------------------------- MODULE MCChatMedia ----------------------------
(***************************************************************************)
(* Model-checking instance of ChatMedia.  Workers are interchangeable.     *)
(***************************************************************************)
EXTENDS ChatMedia, TLC

Symmetry == Permutations(Workers)
=============================================================================
