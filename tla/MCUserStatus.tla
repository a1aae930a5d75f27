---------------------------- MODULE MCUserStatus ----------------------------
(* UserStatus for TLC: nothing tells roles, checks or updates apart.        *)
EXTENDS UserStatus, TLC

Symmetry == Permutations(Roles) \cup Permutations(Checks) \cup Permutations(Updates)
=============================================================================
