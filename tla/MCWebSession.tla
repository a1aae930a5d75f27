---------------------------- MODULE MCWebSession ----------------------------
(* WebSession for TLC: nothing tells requests, users or tokens apart.       *)
EXTENDS WebSession, TLC

Symmetry == Permutations(Requests) \cup Permutations(Users) \cup Permutations(Tokens)
=============================================================================
