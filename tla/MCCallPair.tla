------------------------------ MODULE MCCallPair ------------------------------
(* Instances of CallPair for TLC. *)
EXTENDS CallPair, TLC

=============================================================================
