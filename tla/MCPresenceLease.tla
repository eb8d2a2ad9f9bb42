-------------------------- MODULE MCPresenceLease --------------------------
(* Instances of PresenceLease for TLC: one tab of one account.              *)
EXTENDS PresenceLease, TLC

CONSTANTS t1, a1

OneAccount == [t \in Tabs |-> a1]

=============================================================================
