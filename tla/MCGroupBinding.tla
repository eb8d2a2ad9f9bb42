--------------------------- MODULE MCGroupBinding ---------------------------
(* Instances of GroupBinding for TLC: one tab of the group's owner, the     *)
(* other tabs of a member.                                                  *)
EXTENDS GroupBinding, TLC

CONSTANTS t1, t2, u1, u2, p1, p2

OneOwner == [t \in Tabs |-> IF t = t1 THEN u1 ELSE u2]

=============================================================================
