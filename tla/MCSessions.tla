----------------------------- MODULE MCSessions -----------------------------
(* Instances of Sessions for TLC: the .cfg files name the members of each   *)
(* set.  Members of one set are interchangeable, as the model never tells   *)
(* two of them apart; only runs without liveness properties say SYMMETRY.   *)
EXTENDS Sessions, TLC

Symmetry == Permutations(Tokens) \cup Permutations(Requests) \cup Permutations(Syncs)
=============================================================================
