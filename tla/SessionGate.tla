---------------------------- MODULE SessionGate -----------------------------
(***************************************************************************)
(* What the session machinery promises at the door, without saying how:    *)
(* some tokens open it; a logout shuts it to its token in one step and for *)
(* good; apart from that tokens come and go as logins, refreshes, expiry   *)
(* and restarts have it.                                                   *)
(***************************************************************************)
CONSTANT Tokens

VARIABLES
    usable,   \* tokens AuthMiddleware lets through
    ended     \* tokens whose logout was answered

vars == <<usable, ended>>

Init == usable = {} /\ ended = {}

(* Tokens may start or stop to be usable, in any number; ended ones cannot  *)
(* start.                                                                   *)
Change(S) ==
    /\ S \cap ended = {}
    /\ usable' = S
    /\ UNCHANGED ended

Logout(t) ==
    /\ usable' = usable \ {t}
    /\ ended' = ended \cup {t}

Next == (\E S \in SUBSET Tokens : Change(S)) \/ (\E t \in Tokens : Logout(t))

Spec == Init /\ [][Next]_vars
=============================================================================
