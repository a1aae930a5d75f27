---------------------------- MODULE RecentEvents ----------------------------
(***************************************************************************)
(* What a ring buffer of events promises: a log of the latest ones, in the *)
(* order they were recorded and without a gap.  Only a full log forgets,   *)
(* and only its oldest event.                                              *)
(***************************************************************************)
EXTENDS Naturals, Sequences

CONSTANT Capacity

VARIABLES
    log,
    recorded    \* how many events were ever recorded; the events are 1, 2, ...

Init == log = <<>> /\ recorded = 0

Record ==
    /\ Len(log) < Capacity
    /\ recorded' = recorded + 1
    /\ log' = Append(log, recorded')

Forget ==
    /\ Len(log) = Capacity
    /\ log' = Tail(log)
    /\ UNCHANGED recorded

Spec == Init /\ [][Record \/ Forget]_<<log, recorded>>
=============================================================================
