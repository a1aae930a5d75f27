----------------------------- MODULE RingBuffer -----------------------------
(***************************************************************************)
(* LockFreeRingBuffer, in which MetricsRegistry keeps the latest events of *)
(* authentication: push and snapshot, one access to shared memory at a     *)
(* time.  An element is an object of several words, so writing and copying *)
(* one take time, and a copy that overlaps a write is torn.                *)
(*                                                                         *)
(* A login records an event right after a statement, on the thread of the  *)
(* connection that ran it; the producers are these threads.  pop has no    *)
(* caller.                                                                 *)
(***************************************************************************)
EXTENDS Naturals, Sequences

CONSTANTS
    Producers,
    Size,
    MaxEvents   \* bound on the events that are recorded

ASSUME RingAssumption ==
    /\ Size \in Nat \ {0, 1}
    /\ MaxEvents \in Nat

VARIABLES
    head, tail,
    buffer,     \* the number of the event in each slot
    push,       \* the run of push of each producer
    pushed,     \* how many events producers have stored and published
    snap,       \* the run of snapshot
    first, last \* the oldest event at its load of head, the newest at its load of tail

vars == <<head, tail, buffer, push, pushed, snap, first, last>>

Slots == 0..(Size - 1)
Empty == 0
Torn == MaxEvents + 1
Elements == 0..Torn

Resting == [pc |-> "rest", at |-> 0]
NoSnap == [pc |-> "none", idx |-> 0, end |-> 0, torn |-> FALSE, result |-> <<>>]

TypeOK ==
    /\ head \in Slots
    /\ tail \in Slots
    /\ buffer \in [Slots -> Elements]
    /\ push \in [Producers -> [pc : {"rest", "check", "room", "write", "writing", "publish"},
                               at : Slots]]
    /\ pushed \in 0..MaxEvents
    /\ snap \in [pc : {"none", "tail", "next", "copy"}, idx : Slots, end : Slots,
                 torn : BOOLEAN, result : Seq(Elements)]
    /\ first \in 0..(MaxEvents + 1)
    /\ last \in 0..MaxEvents

Init ==
    /\ head = 0
    /\ tail = 0
    /\ buffer = [i \in Slots |-> Empty]
    /\ push = [p \in Producers |-> Resting]
    /\ pushed = 0
    /\ snap = NoSnap
    /\ first = 0
    /\ last = 0

(* Faulty: no wrap-around *)
Straight(i) == i + 1

Succ(i) == (i + 1) % Size

(* How far apart two positions are, as snapshot computes it *)
Count(h, t) == IF t >= h THEN t - h ELSE Size - h + t

-----------------------------------------------------------------------------
(* push *)

Step(p, from, to) ==
    /\ push[p].pc = from
    /\ push' = [push EXCEPT ![p].pc = to]

record_auth_event(p) ==
    /\ push[p].pc = "rest"
    /\ pushed < MaxEvents
    /\ push' = [push EXCEPT ![p] = [pc |-> "check", at |-> tail]]
    /\ UNCHANGED <<head, tail, buffer, pushed, snap, first, last>>

(* Faulty: a full buffer is written over and its oldest element kept. *)
CheckNothing(p) ==
    /\ Step(p, "check", "write")
    /\ UNCHANGED <<head, tail, buffer, pushed, snap, first, last>>

CheckRoom(p) ==
    /\ Step(p, "check", IF Succ(push[p].at) = head THEN "room" ELSE "write")
    /\ UNCHANGED <<head, tail, buffer, pushed, snap, first, last>>

(* head_ is loaded again and stored; the producers are its only writers. *)
MakeRoom(p) ==
    /\ Step(p, "room", "write")
    /\ head' = Succ(head)
    /\ UNCHANGED <<tail, buffer, pushed, snap, first, last>>

(* Faulty: the slot after the loaded tail *)
NextSlot(p) == Succ(push[p].at)

Slot(p) == push[p].at

BeginWrite(p) ==
    LET i == Slot(p)
    IN  /\ Step(p, "write", "writing")
        /\ buffer' = [buffer EXCEPT ![i] = Torn]
        /\ snap' = [snap EXCEPT !.torn = @ \/ (snap.pc = "copy" /\ snap.idx = i)]
        /\ UNCHANGED <<head, tail, pushed, first, last>>

EndWrite(p) ==
    /\ Step(p, "writing", "publish")
    /\ buffer' = [buffer EXCEPT ![Slot(p)] = pushed + 1]
    /\ UNCHANGED <<head, tail, pushed, snap, first, last>>

Publish(p) ==
    /\ Step(p, "publish", "rest")
    /\ tail' = Succ(push[p].at)
    /\ pushed' = pushed + 1
    /\ UNCHANGED <<head, buffer, snap, first, last>>

-----------------------------------------------------------------------------
(* snapshot *)

LoadHead ==
    /\ snap.pc = "none"
    /\ snap' = [NoSnap EXCEPT !.pc = "tail", !.idx = head]
    /\ first' = pushed + 1 - Count(head, tail)
    /\ UNCHANGED <<head, tail, buffer, push, pushed, last>>

LoadTail ==
    /\ snap.pc = "tail"
    /\ snap' = [snap EXCEPT !.pc = "next", !.end = tail]
    /\ last' = pushed
    /\ UNCHANGED <<head, tail, buffer, push, pushed, first>>

BeginCopy ==
    /\ snap.pc = "next"
    /\ snap.idx # snap.end
    /\ snap' = [snap EXCEPT !.pc = "copy", !.torn = (buffer[snap.idx] = Torn)]
    /\ UNCHANGED <<head, tail, buffer, push, pushed, first, last>>

EndCopy ==
    /\ snap.pc = "copy"
    /\ snap' = [snap EXCEPT !.pc = "next", !.idx = Succ(@),
                   !.result = Append(@, IF snap.torn THEN Torn ELSE buffer[snap.idx])]
    /\ UNCHANGED <<head, tail, buffer, push, pushed, first, last>>

Complete == snap.pc = "next" /\ snap.idx = snap.end

(* The vector is returned. *)
get_recent_auth_events ==
    /\ Complete
    /\ snap' = NoSnap
    /\ UNCHANGED <<head, tail, buffer, push, pushed, first, last>>

Next ==
    \/ \E p \in Producers :
          \/ record_auth_event(p) \/ CheckRoom(p) \/ MakeRoom(p)
          \/ BeginWrite(p) \/ EndWrite(p) \/ Publish(p)
    \/ LoadHead \/ LoadTail \/ BeginCopy \/ EndCopy \/ get_recent_auth_events

Spec == Init /\ [][Next]_vars

-----------------------------------------------------------------------------
(* The promise *)

Contents == [k \in 1..Count(head, tail) |-> buffer[(head + k - 1) % Size]]

Recent == INSTANCE RecentEvents WITH Capacity <- Size - 1, log <- Contents,
                                     recorded <- pushed

(* With one producer the elements from head to tail are at every moment the *)
(* latest events, each once, in order and completely written; an event is   *)
(* given up only when Size - 1 newer ones leave it no room                  *)
(* (ring_buffer.hpp push).                                                  *)
RecentSpec == Recent!Spec

(* The newest event of which anything is in the buffer *)
Newest == IF \E p \in Producers : push[p].pc \in {"writing", "publish"}
          THEN pushed + 1 ELSE pushed

(* A snapshot is exactly the events from the oldest at its load of head to  *)
(* the newest at its load of tail, torn by nobody, as long as these fit in  *)
(* the buffer and the producer has not come round to the oldest while they  *)
(* were copied (ring_buffer.hpp snapshot).                                  *)
SnapshotExact ==
    LET count == last + 1 - first
    IN  Complete /\ count < Size /\ Newest < first + Size =>
           snap.result = [k \in 1..count |-> first + k - 1]
=============================================================================
