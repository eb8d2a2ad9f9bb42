-------------------------- MODULE MCGroupMembership --------------------------
(* Instances of GroupMembership for TLC: the owner and two other accounts.  *)
EXTENDS GroupMembership, TLC

CONSTANTS u1, u2, u3, s1, s2

Symmetry == Permutations({u2, u3}) \cup Permutations({s1, s2})

=============================================================================
