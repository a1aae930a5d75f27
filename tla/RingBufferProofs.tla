-------------------------- MODULE RingBufferProofs --------------------------
(***************************************************************************)
(* Theorems about RingBuffer, for a buffer of any size, any number of      *)
(* events and one producer.  The argument counts backwards from the tail:  *)
(* the event d before the next one is in the slot d before the tail, for   *)
(* as many d as the buffer has slots, except for the slot that is just     *)
(* being written.                                                          *)
(***************************************************************************)
EXTENDS RingBuffer, TLAPS

(* All pushes come from one thread.                                         *)
OneProducer == \E p : Producers = {p}

(* The slot d before the tail *)
Back(d) == IF tail >= d THEN tail - d ELSE tail + Size - d

Busy(p) == push[p].pc \in {"writing", "publish"}

Window(p) ==
    /\ push[p].pc # "rest" => push[p].at = tail /\ pushed < MaxEvents
    /\ push[p].pc = "room" => Succ(tail) = head
    /\ push[p].pc \in {"write", "writing", "publish"} => Succ(tail) # head
    /\ push[p].pc = "publish" => buffer[tail] = pushed + 1
    /\ Count(head, tail) <= pushed
    /\ \A d \in 1..Size : d <= pushed /\ (d = Size => ~Busy(p)) => buffer[Back(d)] = pushed + 1 - d

(* The events a + 1, ..., a + n *)
Run(a, n) == [k \in 1..n |-> a + k]

-----------------------------------------------------------------------------
(* Positions *)

LEMMA SizeType == Size \in Nat /\ Size > 1 /\ MaxEvents \in Nat
  BY RingAssumption

LEMMA Wrap ==
    ASSUME NEW i \in 0..(2 * Size - 1)
    PROVE  i % Size = IF i < Size THEN i ELSE i - Size
  BY SizeType

LEMMA SuccIs ==
    ASSUME NEW i \in Slots
    PROVE  Succ(i) = (IF i + 1 = Size THEN 0 ELSE i + 1) /\ Succ(i) \in Slots
  BY SizeType, Wrap DEF Succ, Slots

LEMMA CountIs ==
    ASSUME NEW h \in Slots, NEW t \in Slots
    PROVE  /\ Count(h, t) \in 0..(Size - 1)
           /\ Count(h, t) = Size - 1 <=> Succ(t) = h
           /\ Succ(t) # h => Count(h, Succ(t)) = Count(h, t) + 1
           /\ h # t => Count(Succ(h), t) = Count(h, t) - 1
  BY SizeType, SuccIs DEF Count, Slots

LEMMA BackIs ==
    ASSUME tail \in Slots, NEW d \in 0..Size
    PROVE  /\ Back(d) \in Slots
           /\ Back(0) = tail /\ Back(Size) = tail
           /\ Back(d) = tail => d = 0 \/ d = Size
           /\ d > 0 => Succ(Back(d)) = Back(d - 1)
           /\ tail' = Succ(tail) /\ d < Size => Back(d + 1)' = Back(d)
  BY SizeType, SuccIs DEF Back, Slots

LEMMA BackInjective ==
    ASSUME tail \in Slots, NEW d \in 0..Size, NEW e \in 0..Size, Back(d) = Back(e),
           d - e < Size, e - d < Size
    PROVE  d = e
  BY SizeType DEF Back, Slots

-----------------------------------------------------------------------------
(* Types and the contents of the buffer *)

Pushes == [pc : {"rest", "check", "room", "write", "writing", "publish"}, at : Slots]
Snaps == [pc : {"none", "tail", "next", "copy"}, idx : Slots, end : Slots, torn : BOOLEAN,
          result : Seq(Elements)]

Inv(p) == TypeOK /\ Window(p)

LEMMA StartInv ==
    ASSUME NEW p, Producers = {p}, Init
    PROVE  Inv(p)
  <1>1. 0 \in Slots /\ Empty \in Elements /\ Count(0, 0) = 0
    BY SizeType DEF Slots, Empty, Elements, Torn, Count
  <1>2. <<>> \in Seq(Elements)
    OBVIOUS
  <1>3. TypeOK
    BY <1>1, <1>2, SizeType DEF Init, TypeOK, Resting, NoSnap
  <1>4. Window(p)
    BY <1>1, SizeType DEF Init, Window, Resting
  <1> QED  BY <1>3, <1>4 DEF Inv

(* What a step of push leaves: the other variables *)
LEMMA StepIs ==
    ASSUME TypeOK, NEW p \in Producers, NEW from, NEW to \in {"room", "write", "writing",
           "publish", "rest"}, Step(p, from, to)
    PROVE  /\ push[p].pc = from /\ push'[p].pc = to /\ push'[p].at = push[p].at
           /\ push' \in [Producers -> Pushes]
  BY DEF Step, TypeOK, Pushes

LEMMA RecordInv ==
    ASSUME NEW p, Producers = {p}, Inv(p), record_auth_event(p)
    PROVE  Inv(p)'
  <1>1. push'[p] = [pc |-> "check", at |-> tail]
    BY DEF record_auth_event, Inv, TypeOK
  <1>2. TypeOK'
    BY DEF record_auth_event, Inv, TypeOK
  <1>3. Window(p)'
    BY <1>1 DEF record_auth_event, Inv, Window, Busy, Back
  <1> QED  BY <1>2, <1>3 DEF Inv

LEMMA CheckInv ==
    ASSUME NEW p, Producers = {p}, Inv(p), CheckRoom(p)
    PROVE  Inv(p)'
  <1> DEFINE to == IF Succ(push[p].at) = head THEN "room" ELSE "write"
  <1>1. /\ push[p].pc = "check" /\ push'[p].pc = to /\ push'[p].at = push[p].at
        /\ push' \in [Producers -> Pushes]
    BY StepIs DEF CheckRoom, Inv
  <1>2. TypeOK'
    BY <1>1 DEF CheckRoom, Inv, TypeOK, Pushes
  <1>3. Window(p)'
    BY <1>1 DEF CheckRoom, Inv, Window, Busy, Back
  <1> QED  BY <1>2, <1>3 DEF Inv

LEMMA RoomInv ==
    ASSUME NEW p, Producers = {p}, Inv(p), MakeRoom(p)
    PROVE  Inv(p)' /\ Count(head, tail) = Size - 1 /\ Count(head, tail)' = Size - 2
  <1>1. /\ push[p].pc = "room" /\ push'[p].pc = "write" /\ push'[p].at = push[p].at
        /\ push' \in [Producers -> Pushes]
    BY StepIs DEF MakeRoom, Inv
  <1>2. head \in Slots /\ tail \in Slots /\ Succ(tail) = head
    BY <1>1 DEF Inv, TypeOK, Window
  <1>3. Count(head, tail) = Size - 1 /\ Count(Succ(head), tail) = Size - 2
    <2>1. head # tail  BY <1>2, SuccIs, SizeType DEF Slots
    <2> QED  BY <1>2, <2>1, CountIs, SizeType
  <1>4. head' = Succ(head) /\ Count(head, tail)' = Size - 2
    BY <1>3 DEF MakeRoom, Count
  <1>5. Succ(head) \in Slots /\ Succ(tail) # Succ(head)
    BY <1>2, SuccIs, SizeType DEF Slots
  <1>6. TypeOK'
    BY <1>1, <1>4, <1>5 DEF MakeRoom, Inv, TypeOK, Pushes
  <1>7. Window(p)'
    <2>1. Count(head, tail)' <= pushed'
      BY <1>3, <1>4, SizeType DEF Inv, Window, MakeRoom, TypeOK
    <2> QED  BY <1>1, <1>4, <1>5, <2>1 DEF MakeRoom, Inv, Window, Busy, Back, Succ
  <1> QED  BY <1>3, <1>4, <1>6, <1>7 DEF Inv

LEMMA BeginWriteInv ==
    ASSUME NEW p, Producers = {p}, Inv(p), BeginWrite(p)
    PROVE  Inv(p)'
  <1>1. /\ push[p].pc = "write" /\ push'[p].pc = "writing" /\ push'[p].at = push[p].at
        /\ push' \in [Producers -> Pushes]
    BY StepIs DEF BeginWrite, Inv
  <1>2. buffer' = [buffer EXCEPT ![tail] = Torn] /\ tail \in Slots
    BY <1>1 DEF BeginWrite, Slot, Inv, Window, TypeOK
  <1>3. snap' \in Snaps
    <2>1. snap \in Snaps  BY DEF Inv, TypeOK, Snaps
    <2>2. PICK b \in BOOLEAN : snap' = [snap EXCEPT !.torn = b]
      BY <2>1 DEF BeginWrite, Snaps
    <2> QED  BY <2>1, <2>2 DEF Snaps
  <1>4. TypeOK'
    <2>1. Torn \in Elements  BY SizeType DEF Elements, Torn
    <2>2. buffer' \in [Slots -> Elements]  BY <1>2, <2>1 DEF Inv, TypeOK
    <2> QED  BY <1>1, <1>3, <2>2 DEF BeginWrite, Inv, TypeOK, Pushes, Snaps
  <1>5. ASSUME NEW d \in 1..Size, d <= pushed', d = Size => ~Busy(p)'
        PROVE  buffer'[Back(d)'] = pushed' + 1 - d
    <2>1. d # Size  BY <1>1, <1>5 DEF Busy
    <2>2. Back(d) # tail /\ Back(d) \in Slots  BY <1>2, <2>1, BackIs
    <2>3. Back(d)' = Back(d) /\ pushed' = pushed  BY DEF BeginWrite, Back
    <2> QED  BY <1>2, <1>5, <2>1, <2>2, <2>3 DEF Inv, TypeOK, Window
  <1>6. Window(p)'
    BY <1>1, <1>5 DEF BeginWrite, Inv, Window
  <1> QED  BY <1>4, <1>6 DEF Inv

LEMMA EndWriteInv ==
    ASSUME NEW p, Producers = {p}, Inv(p), EndWrite(p)
    PROVE  Inv(p)'
  <1>1. /\ push[p].pc = "writing" /\ push'[p].pc = "publish" /\ push'[p].at = push[p].at
        /\ push' \in [Producers -> Pushes]
    BY StepIs DEF EndWrite, Inv
  <1>2. /\ buffer' = [buffer EXCEPT ![tail] = pushed + 1]
        /\ tail \in Slots /\ pushed + 1 \in Elements
    <2>1. push[p].at = tail /\ pushed < MaxEvents  BY <1>1 DEF Inv, Window
    <2>2. pushed \in Nat /\ tail \in Slots  BY DEF Inv, TypeOK
    <2>3. pushed + 1 \in Elements  BY <2>1, <2>2, SizeType DEF Elements, Torn
    <2> QED  BY <2>1, <2>2, <2>3 DEF EndWrite, Slot
  <1>3. TypeOK'
    <2>1. buffer' \in [Slots -> Elements]  BY <1>2 DEF Inv, TypeOK
    <2> QED  BY <1>1, <2>1 DEF EndWrite, Inv, TypeOK, Pushes
  <1>4. ASSUME NEW d \in 1..Size, d <= pushed', d = Size => ~Busy(p)'
        PROVE  buffer'[Back(d)'] = pushed' + 1 - d
    <2>1. d # Size  BY <1>1, <1>4 DEF Busy
    <2>2. Back(d) # tail /\ Back(d) \in Slots  BY <1>2, <2>1, BackIs
    <2>3. Back(d)' = Back(d) /\ pushed' = pushed  BY DEF EndWrite, Back
    <2> QED  BY <1>2, <1>4, <2>1, <2>2, <2>3 DEF Inv, TypeOK, Window
  <1>5. Window(p)'
    BY <1>1, <1>2, <1>4 DEF EndWrite, Inv, Window, TypeOK
  <1> QED  BY <1>3, <1>5 DEF Inv

LEMMA PublishInv ==
    ASSUME NEW p, Producers = {p}, Inv(p), Publish(p)
    PROVE  /\ Inv(p)' /\ tail' = Succ(tail)
           /\ Count(head, tail)' = Count(head, tail) + 1 /\ Count(head, tail) < Size - 1
  <1>1. /\ push[p].pc = "publish" /\ push'[p].pc = "rest" /\ push'[p].at = push[p].at
        /\ push' \in [Producers -> Pushes]
    BY StepIs DEF Publish, Inv
  <1>2. /\ head \in Slots /\ tail \in Slots /\ Succ(tail) # head /\ buffer[tail] = pushed + 1
        /\ tail' = Succ(tail) /\ pushed' = pushed + 1 /\ head' = head /\ buffer' = buffer
        /\ pushed < MaxEvents /\ pushed \in Nat
    BY <1>1 DEF Publish, Inv, Window, TypeOK
  <1>3. Count(head, Succ(tail)) = Count(head, tail) + 1 /\ Count(head, tail) \in 0..(Size - 1)
        /\ Count(head, tail) # Size - 1
    BY <1>2, CountIs
  <1>4. Count(head, tail)' = Count(head, tail) + 1
    BY <1>2, <1>3 DEF Count
  <1>5. TypeOK'
    BY <1>1, <1>2, SuccIs, SizeType DEF Publish, Inv, TypeOK, Pushes
  <1>6. ASSUME NEW d \in 1..Size, d <= pushed'
        PROVE  buffer'[Back(d)'] = pushed' + 1 - d
    <2>1. d - 1 \in 0..Size /\ d - 1 < Size
      BY SizeType
    <2>2. Back((d - 1) + 1)' = Back(d - 1)
      BY <1>2, <2>1, BackIs
    <2>3. Back(d)' = Back(d - 1)
      BY <2>2, SizeType
    <2>4. CASE d = 1
      BY <1>2, <2>3, <2>4, BackIs, SizeType
    <2>5. CASE d # 1
      <3>1. d - 1 \in 1..Size /\ d - 1 <= pushed /\ d - 1 # Size
        BY <1>2, <1>6, <2>5, SizeType
      <3>2. buffer[Back(d - 1)] = pushed + 1 - (d - 1)
        BY <3>1 DEF Inv, Window
      <3> QED  BY <1>2, <2>3, <3>2
    <2> QED  BY <2>4, <2>5
  <1>7. Count(head, tail)' <= pushed'
    BY <1>2, <1>3, <1>4 DEF Inv, Window
  <1>8. Window(p)'
    BY <1>1, <1>6, <1>7 DEF Window
  <1> QED  BY <1>2, <1>3, <1>4, <1>5, <1>8, SizeType DEF Inv

(* The steps of snapshot change nothing the producer sees.                  *)
LEMMA ReaderInv ==
    ASSUME NEW p, Producers = {p}, Inv(p),
           LoadHead \/ LoadTail \/ BeginCopy \/ EndCopy \/ get_recent_auth_events
    PROVE  Inv(p)'
  <1>1. UNCHANGED <<head, tail, buffer, push, pushed>>
    BY DEF LoadHead, LoadTail, BeginCopy, EndCopy, get_recent_auth_events
  <1>2. Window(p)'
    BY <1>1 DEF Inv, Window, Busy, Back, Count, Succ
  <1>3. snap \in Snaps /\ NoSnap \in Snaps
    BY SizeType DEF Inv, TypeOK, Snaps, NoSnap, Slots
  <1>4. snap' \in Snaps /\ first' \in 0..(MaxEvents + 1) /\ last' \in 0..MaxEvents
    <2>1. CASE LoadHead
      <3>1. head \in Slots /\ tail \in Slots /\ pushed \in 0..MaxEvents
            /\ last \in 0..MaxEvents /\ Count(head, tail) <= pushed
        BY DEF Inv, TypeOK, Window
      <3>2. Count(head, tail) \in Nat
        BY <3>1, CountIs, SizeType
      <3>3. snap' = [pc |-> "tail", idx |-> head, end |-> 0, torn |-> FALSE, result |-> <<>>]
        BY <2>1 DEF LoadHead, NoSnap
      <3>4. snap' \in Snaps
        BY <3>1, <3>3, SizeType DEF Snaps, Slots
      <3>5. first' = pushed + 1 - Count(head, tail) /\ last' = last
        BY <2>1 DEF LoadHead
      <3> QED  BY <3>1, <3>2, <3>4, <3>5, SizeType
    <2>2. CASE LoadTail
      BY <1>3, <2>2 DEF LoadTail, Snaps, Inv, TypeOK
    <2>3. CASE BeginCopy
      BY <1>3, <2>3 DEF BeginCopy, Snaps, Inv, TypeOK
    <2>4. CASE EndCopy
      <3> DEFINE e == IF snap.torn THEN Torn ELSE buffer[snap.idx]
      <3>1. e \in Elements
        BY <1>3, SizeType DEF Inv, TypeOK, Snaps, Elements, Torn
      <3> HIDE DEF e
      <3>2. Append(snap.result, e) \in Seq(Elements) /\ Succ(snap.idx) \in Slots
        BY <1>3, <3>1, SuccIs DEF Snaps
      <3>3. snap' = [snap EXCEPT !.pc = "next", !.idx = Succ(snap.idx),
                                 !.result = Append(snap.result, e)]
        BY <2>4 DEF EndCopy, e
      <3>4. snap' = [pc |-> "next", idx |-> Succ(snap.idx), end |-> snap.end,
                     torn |-> snap.torn, result |-> Append(snap.result, e)]
        BY <1>3, <3>3 DEF Snaps
      <3>5. snap' \in Snaps
        BY <1>3, <3>2, <3>4 DEF Snaps
      <3>6. first' = first /\ last' = last
        BY <2>4 DEF EndCopy
      <3> QED  BY <3>5, <3>6 DEF Inv, TypeOK
    <2>5. CASE get_recent_auth_events
      BY <1>3, <2>5 DEF get_recent_auth_events, Inv, TypeOK
    <2> QED  BY <2>1, <2>2, <2>3, <2>4, <2>5
  <1>5. TypeOK'
    BY <1>1, <1>4 DEF Inv, TypeOK, Snaps
  <1> QED  BY <1>2, <1>5 DEF Inv

LEMMA NextInv ==
    ASSUME NEW p, Producers = {p}, Inv(p), [Next]_vars
    PROVE  Inv(p)'
  <1>1. CASE UNCHANGED vars
    BY <1>1 DEF vars, Inv, TypeOK, Window, Busy, Back, Count, Succ
  <1> QED
    BY <1>1, RecordInv, CheckInv, RoomInv, BeginWriteInv, EndWriteInv, PublishInv, ReaderInv
       DEF Next

LEMMA InvAlways ==
    ASSUME NEW p, Producers = {p}
    PROVE  Spec => []Inv(p)
  <1>1. Init => Inv(p)
    BY StartInv
  <1>2. Inv(p) /\ [Next]_vars => Inv(p)'
    BY NextInv
  <1> QED  BY <1>1, <1>2, PTL DEF Spec

(* Every variable keeps its type; positions stay in the buffer.             *)
THEOREM TypeCorrect == ASSUME OneProducer PROVE Spec => []TypeOK
  <1>1. PICK p : Producers = {p}
    BY DEF OneProducer
  <1>2. Inv(p) => TypeOK
    BY DEF Inv
  <1>3. Spec => []Inv(p)
    BY <1>1, InvAlways
  <1> QED  BY <1>2, <1>3, PTL

-----------------------------------------------------------------------------
(* The buffer keeps the promise of RecentEvents *)

LEMMA RunIs ==
    ASSUME NEW a \in Nat, NEW n \in Nat
    PROVE  /\ Run(a, n) \in Seq(Nat) /\ Len(Run(a, n)) = n
           /\ Append(Run(a, n), a + n + 1) = Run(a, n + 1)
           /\ n > 0 => Tail(Run(a, n)) = Run(a + 1, n - 1)
  <1>1. Run(a, n) \in Seq(Nat) /\ Len(Run(a, n)) = n
    BY DEF Run
  <1>2. Append(Run(a, n), a + n + 1) = Run(a, n + 1)
    BY <1>1 DEF Run
  <1>3. ASSUME n > 0 PROVE Tail(Run(a, n)) = Run(a + 1, n - 1)
    BY <1>1, <1>3 DEF Run
  <1> QED  BY <1>1, <1>2, <1>3

LatestInOrder ==
    /\ Count(head, tail) \in 0..(Size - 1)
    /\ pushed - Count(head, tail) \in Nat
    /\ Contents = Run(pushed - Count(head, tail), Count(head, tail))

LEMMA ContentsIs ==
    ASSUME NEW p, Producers = {p}, Inv(p)
    PROVE  LatestInOrder
  <1> DEFINE n == Count(head, tail)
  <1>1. /\ head \in Slots /\ tail \in Slots /\ pushed \in Nat /\ n <= pushed
        /\ \A d \in 1..Size : d <= pushed /\ d # Size => buffer[Back(d)] = pushed + 1 - d
    BY SizeType DEF Inv, TypeOK, Window
  <1>2. n \in 0..(Size - 1)
    BY <1>1, CountIs
  <1>3. ASSUME NEW k \in 1..n
        PROVE  buffer[(head + k - 1) % Size] = pushed - n + k
    <2>1. head + k - 1 \in 0..(2 * Size - 1)
      BY <1>1, <1>2, SizeType DEF Slots
    <2>2. (head + k - 1) % Size = IF head + k - 1 < Size THEN head + k - 1
                                  ELSE head + k - 1 - Size
      <3>1. PICK i \in 0..(2 * Size - 1) : i = head + k - 1  BY <2>1
      <3>2. i % Size = IF i < Size THEN i ELSE i - Size  BY Wrap
      <3> QED  BY <1>1, <1>2, <3>1, <3>2, SizeType DEF Slots
    <2>3. (head + k - 1) % Size = Back(n - k + 1)
      BY <1>1, <1>2, <2>2, SizeType DEF Back, Count, Slots
    <2>4. n - k + 1 \in 1..Size /\ n - k + 1 <= pushed /\ n - k + 1 # Size
      BY <1>1, <1>2, SizeType
    <2> HIDE DEF n
    <2> QED  BY <1>1, <1>2, <2>3, <2>4, SizeType
  <1>4. Contents = [k \in 1..n |-> pushed - n + k]
    BY <1>3 DEF Contents
  <1> HIDE DEF n
  <1>5. n \in 0..(Size - 1) /\ pushed - n \in Nat /\ Contents = Run(pushed - n, n)
    BY <1>1, <1>2, <1>4, SizeType DEF Run
  <1> QED  BY <1>5 DEF n, LatestInOrder

LEMMA RecentStep ==
    ASSUME NEW p, Producers = {p}, Inv(p), LatestInOrder, LatestInOrder', [Next]_vars
    PROVE  [Recent!Record \/ Recent!Forget]_<<Contents, pushed>>
  <1> DEFINE n == Count(head, tail)
  <1>1. n \in Nat /\ n < Size /\ pushed - n \in Nat /\ pushed \in Nat
        /\ Contents = Run(pushed - n, n) /\ Contents' = Run(pushed' - n', n')
    BY SizeType DEF LatestInOrder, Inv, TypeOK, Run
  <1>2. ASSUME MakeRoom(p)
        PROVE  Recent!Forget
    <2>1. n = Size - 1 /\ n' = n - 1 /\ pushed' = pushed
      BY <1>2, RoomInv, SizeType DEF MakeRoom
    <2> HIDE DEF n
    <2>2. Len(Contents) = n /\ Tail(Contents) = Run(pushed - n + 1, n - 1)
      <3> DEFINE a == pushed - n
      <3>1. a \in Nat /\ n \in Nat /\ n > 0 /\ Contents = Run(a, n)
        BY <1>1, <2>1, SizeType
      <3> HIDE DEF a
      <3>2. Len(Run(a, n)) = n /\ Tail(Run(a, n)) = Run(a + 1, n - 1)
        BY <3>1, RunIs
      <3> QED  BY <3>1, <3>2 DEF a
    <2>3. Contents' = Run(pushed - n + 1, n - 1)
      <3>1. pushed' - n' = pushed - n + 1  BY <1>1, <2>1, SizeType
      <3> QED  BY <1>1, <2>1, <3>1
    <2> QED  BY <2>1, <2>2, <2>3 DEF Recent!Forget
  <1>3. ASSUME Publish(p)
        PROVE  Recent!Record
    <2>1. n < Size - 1 /\ n' = n + 1 /\ pushed' = pushed + 1
      BY <1>3, PublishInv DEF Publish
    <2> HIDE DEF n
    <2>2. Len(Contents) = n /\ Append(Contents, pushed + 1) = Run(pushed - n, n + 1)
      <3>1. pushed - n + n + 1 = pushed + 1  BY <1>1
      <3> QED  BY <1>1, <3>1, RunIs
    <2>3. Contents' = Run(pushed - n, n + 1)
      <3>1. pushed' - n' = pushed - n  BY <1>1, <2>1
      <3> QED  BY <1>1, <2>1, <3>1
    <2> QED  BY <2>1, <2>2, <2>3 DEF Recent!Record
  <1>4. ASSUME n' = n, pushed' = pushed
        PROVE  UNCHANGED <<Contents, pushed>>
    <2> HIDE DEF n
    <2> QED  BY <1>1, <1>4
  <1>5. MakeRoom(p) \/ Publish(p) \/ UNCHANGED <<n, pushed>>
    BY DEF Next, vars, Count, record_auth_event, CheckRoom, BeginWrite, EndWrite, LoadHead,
           LoadTail, BeginCopy, EndCopy, get_recent_auth_events
  <1> HIDE DEF n
  <1> QED  BY <1>2, <1>3, <1>4, <1>5

(* With one producer the elements from head to tail are at every moment the *)
(* latest events, in order and completely written, and an event is given up *)
(* only when Size - 1 newer ones leave it no room.                          *)
THEOREM KeepsTheLatest == ASSUME OneProducer PROVE Spec => RecentSpec
  <1>1. PICK p : Producers = {p}
    BY DEF OneProducer
  <1>2. Spec => []Inv(p)
    BY <1>1, InvAlways
  <1>3. Inv(p) => LatestInOrder
    BY <1>1, ContentsIs
  <1>4. Inv(p) /\ LatestInOrder /\ LatestInOrder' /\ [Next]_vars
          => [Recent!Record \/ Recent!Forget]_<<Contents, pushed>>
    BY <1>1, RecentStep
  <1>5. Init => Recent!Init
    BY DEF Init, Recent!Init, Contents, Count
  <1> QED  BY <1>2, <1>3, <1>4, <1>5, PTL DEF Spec, RecentSpec, Recent!Spec

-----------------------------------------------------------------------------
(* A snapshot is exact *)

(* The event that is copied next *)
Due == first + Len(snap.result)

(* As in SnapshotExact, while the snapshot is under way *)
Fits == Newest < first + Size /\ (snap.pc = "tail" \/ last + 1 - first < Size)

Copied ==
    /\ Due <= pushed + 1
    /\ snap.result = Run(first - 1, Len(snap.result))
    /\ snap.idx = Back(pushed + 1 - Due)
    /\ snap.pc # "tail" => Due <= last + 1 /\ snap.end = Back(pushed - last)
    /\ snap.pc = "copy" => ~snap.torn /\ Due <= last

Copying ==
    snap.pc # "none" =>
        /\ first \in 1..(pushed + 1)
        /\ snap.pc = "tail" => snap.result = <<>>
        /\ snap.pc # "tail" => last <= pushed /\ first <= last + 1
        /\ Fits => Copied

LEMMA NewestIs ==
    ASSUME NEW p, Producers = {p}
    PROVE  Newest = IF Busy(p) THEN pushed + 1 ELSE pushed
  BY DEF Newest, Busy

LEMMA CopyTypes ==
    ASSUME TypeOK
    PROVE  /\ Len(snap.result) \in Nat /\ first \in Nat /\ last \in Nat /\ pushed \in Nat
           /\ tail \in Slots /\ head \in Slots /\ snap \in Snaps /\ Size \in Nat
  BY SizeType DEF TypeOK, Snaps

(* What the producer does between its loads and stores does not matter.     *)
LEMMA QuietCopying ==
    ASSUME NEW p, Producers = {p}, Inv(p), Copying, UNCHANGED <<tail, pushed, snap, first, last>>,
           Busy(p) => Busy(p)'
    PROVE  Copying'
  <1>1. Fits' => Fits
    <2>1. Newest = (IF Busy(p) THEN pushed + 1 ELSE pushed)
          /\ Newest' = (IF Busy(p)' THEN pushed + 1 ELSE pushed)
      BY DEF Newest, Busy
    <2> QED  BY <2>1, CopyTypes DEF Fits, Inv
  <1> QED  BY <1>1 DEF Copying, Copied, Due, Back

LEMMA BeginWriteCopying ==
    ASSUME NEW p, Producers = {p}, Inv(p), Copying, BeginWrite(p)
    PROVE  Copying'
  <1>1. /\ push[p].pc = "write" /\ push'[p].pc = "writing" /\ push[p].at = tail
        /\ tail' = tail /\ pushed' = pushed /\ first' = first /\ last' = last
        /\ snap' = [snap EXCEPT !.torn = snap.torn \/ (snap.pc = "copy" /\ snap.idx = tail)]
    BY StepIs DEF BeginWrite, Inv, Window, Slot
  <1>2. /\ snap'.pc = snap.pc /\ snap'.idx = snap.idx /\ snap'.end = snap.end
        /\ snap'.result = snap.result
        /\ snap'.torn = (snap.torn \/ (snap.pc = "copy" /\ snap.idx = tail))
    BY <1>1, CopyTypes DEF Inv, Snaps
  <1>3. Newest = pushed /\ Newest' = pushed + 1
    <2>1. ~Busy(p) /\ Busy(p)'  BY <1>1 DEF Busy
    <2> QED  BY <1>1, <2>1 DEF Newest, Busy
  <1>4. Fits' => Fits /\ pushed + 1 < first + Size
    BY <1>1, <1>2, <1>3, CopyTypes DEF Fits, Inv
  <1>5. ASSUME snap.pc = "copy", Fits, Copied, first \in 1..(pushed + 1), last <= pushed,
               pushed + 1 < first + Size
        PROVE  snap.idx # tail
    <2>1. Due \in Nat /\ Due <= last /\ Due >= first /\ snap.idx = Back(pushed + 1 - Due)
      BY <1>5, CopyTypes DEF Copied, Due, Inv
    <2>2. pushed + 1 - Due \in 1..Size /\ pushed + 1 - Due # Size
      BY <1>5, <2>1, CopyTypes DEF Inv
    <2> QED  BY <2>1, <2>2, BackIs, CopyTypes DEF Inv
  <1> QED  BY <1>1, <1>2, <1>4, <1>5 DEF Copying, Copied, Due, Back

LEMMA PublishCopying ==
    ASSUME NEW p, Producers = {p}, Inv(p), Copying, Publish(p)
    PROVE  Copying'
  <1>1. /\ push[p].pc = "publish" /\ push'[p].pc = "rest" /\ snap' = snap
        /\ tail' = Succ(tail) /\ pushed' = pushed + 1 /\ first' = first /\ last' = last
    BY StepIs, PublishInv DEF Publish, Inv
  <1>2. Newest = pushed + 1 /\ Newest' = pushed + 1
    <2>1. Busy(p) /\ ~Busy(p)'  BY <1>1 DEF Busy
    <2> QED  BY <1>1, <2>1 DEF Newest, Busy
  <1>3. Fits' => Fits /\ pushed + 1 < first + Size
    BY <1>1, <1>2 DEF Fits
  <1>4. ASSUME Fits, Copied, first \in 1..(pushed + 1), pushed + 1 < first + Size,
               snap.pc # "tail" => last <= pushed /\ first <= last + 1
        PROVE  Copied'
    <2>1. Due' = Due /\ Due \in Nat /\ Due >= first /\ Due <= pushed + 1
      BY <1>1, <1>4, CopyTypes DEF Due, Inv, Copied
    <2>2. pushed + 1 - Due \in 0..Size /\ pushed + 1 - Due < Size
      BY <1>4, <2>1, CopyTypes DEF Inv
    <2>4. snap'.idx = Back(pushed + 1 - Due)'
      <3>1. PICK d \in 0..Size : d = pushed + 1 - Due  BY <2>2
      <3>2. Back(d + 1)' = Back(d)
        BY <1>1, <2>2, <3>1, BackIs, CopyTypes DEF Inv
      <3>3. d + 1 = pushed' + 1 - Due'
        BY <1>1, <2>1, <3>1, CopyTypes DEF Inv
      <3>4. Back(pushed + 1 - Due)' = Back(d + 1)'
        BY <3>3 DEF Back
      <3> QED  BY <1>1, <1>4, <3>1, <3>2, <3>4 DEF Copied
    <2>5. ASSUME snap.pc # "tail"
          PROVE  snap'.end = Back(pushed - last)'
      <3>1. pushed - last \in 0..Size /\ pushed - last < Size
        BY <1>4, <2>5, CopyTypes DEF Inv
      <3>2. PICK d \in 0..Size : d = pushed - last  BY <3>1
      <3>3. Back(d + 1)' = Back(d)
        BY <1>1, <3>1, <3>2, BackIs, CopyTypes DEF Inv
      <3>4. d + 1 = pushed' - last'
        BY <1>1, <3>2, CopyTypes DEF Inv
      <3>5. Back(pushed - last)' = Back(d + 1)'
        BY <3>4 DEF Back
      <3> QED  BY <1>1, <1>4, <2>5, <3>2, <3>3, <3>5 DEF Copied
    <2> QED  BY <1>1, <1>4, <2>1, <2>4, <2>5, CopyTypes DEF Copied, Inv
  <1> QED  BY <1>1, <1>3, <1>4, CopyTypes DEF Copying, Inv

LEMMA LoadHeadCopying ==
    ASSUME NEW p, Producers = {p}, Inv(p), LoadHead
    PROVE  Copying'
  <1>1. /\ snap'.pc = "tail" /\ snap'.idx = head /\ snap'.result = <<>>
        /\ first' = pushed + 1 - Count(head, tail)
        /\ tail' = tail /\ pushed' = pushed
    BY DEF LoadHead, NoSnap
  <1>2. Count(head, tail) \in 0..(Size - 1) /\ Count(head, tail) <= pushed
    BY CountIs, CopyTypes DEF Inv, Window
  <1>3. first' \in 1..(pushed + 1) /\ Due' = first'
    <2>1. Due' = first' + Len(<<>>)  BY <1>1 DEF Due
    <2> QED  BY <1>1, <1>2, <2>1, CopyTypes DEF Inv
  <1>4. snap'.result = Run(first - 1, Len(snap.result))'
    BY <1>1 DEF Run
  <1>5. snap'.idx = Back(pushed + 1 - Due)'
    <2>1. pushed' + 1 - Due' = Count(head, tail)
      BY <1>1, <1>2, <1>3, CopyTypes DEF Inv
    <2>2. head = IF tail >= Count(head, tail) THEN tail - Count(head, tail)
                 ELSE tail + Size - Count(head, tail)
      BY <1>2, CopyTypes DEF Inv, Count, Slots
    <2> QED  BY <1>1, <2>1, <2>2 DEF Back
  <1> QED  BY <1>1, <1>3, <1>4, <1>5, CopyTypes DEF Copying, Copied, Inv

LEMMA LoadTailCopying ==
    ASSUME NEW p, Producers = {p}, Inv(p), Copying, LoadTail
    PROVE  Copying'
  <1>1. /\ snap.pc = "tail" /\ snap'.pc = "next" /\ snap'.idx = snap.idx /\ snap'.end = tail
        /\ snap'.result = snap.result /\ last' = pushed
        /\ UNCHANGED <<tail, pushed, first, push>>
    BY CopyTypes DEF LoadTail, Inv, Snaps
  <1>2. Newest' = Newest /\ (Fits' => Fits) /\ Due' = Due
    BY <1>1 DEF Fits, Newest, Due
  <1>3. tail = Back(pushed - last)'
    <2>1. pushed' - last' = 0  BY <1>1, CopyTypes DEF Inv
    <2> QED  BY <1>1, <2>1, CopyTypes DEF Back, Inv, Slots
  <1> QED  BY <1>1, <1>2, <1>3, CopyTypes DEF Copying, Copied, Inv, Back

(* What a copy reads when nobody has come round                             *)
LEMMA DueIsThere ==
    ASSUME NEW p, Producers = {p}, Inv(p), Copying, Fits, snap.pc \in {"next", "copy"},
           Due <= last
    PROVE  /\ buffer[snap.idx] = Due /\ Due # Torn /\ Due \in Nat
           /\ Succ(snap.idx) = Back(pushed - Due)
  <1>1. /\ Copied /\ first \in 1..(pushed + 1) /\ last <= pushed
    BY DEF Copying
  <1>2. Due \in Nat /\ Due >= first
    BY <1>1, CopyTypes DEF Due, Inv
  <1>3. PICK d \in 1..(pushed + 1) : d = pushed + 1 - Due
    <2>1. Due >= 1 /\ Due <= pushed  BY <1>1, <1>2, CopyTypes DEF Inv
    <2> QED  BY <1>2, <2>1, CopyTypes DEF Inv
  <1>4. d \in 1..Size /\ d <= pushed /\ (d = Size => ~Busy(p))
    <2>1. Newest = (IF Busy(p) THEN pushed + 1 ELSE pushed) /\ Newest < first + Size
      BY NewestIs DEF Fits
    <2>2. d <= pushed + 1 - first
      BY <1>1, <1>2, <1>3, CopyTypes DEF Inv
    <2>3. Due >= 1  BY <1>1, <1>2, CopyTypes DEF Inv
    <2> QED  BY <1>1, <1>2, <1>3, <2>1, <2>2, <2>3, CopyTypes DEF Inv
  <1>5. buffer[Back(d)] = pushed + 1 - d
    BY <1>4 DEF Inv, Window
  <1>6. Succ(Back(d)) = Back(d - 1)
    BY <1>4, BackIs, CopyTypes DEF Inv
  <1>7. pushed + 1 - d = Due /\ d - 1 = pushed - Due
    BY <1>2, <1>3, CopyTypes DEF Inv
  <1>8. Due # Torn
    BY <1>1, <1>2, CopyTypes, SizeType DEF Inv, TypeOK, Torn
  <1> QED  BY <1>1, <1>2, <1>3, <1>5, <1>6, <1>7, <1>8 DEF Copied

(* A copy that is at the end has copied all that it should.                 *)
LEMMA EndIsReached ==
    ASSUME NEW p, Producers = {p}, Inv(p), Copying, Fits, snap.pc = "next"
    PROVE  snap.idx = snap.end <=> Due = last + 1
  <1>1. /\ Copied /\ first \in 1..(pushed + 1) /\ last <= pushed /\ first <= last + 1
        /\ Newest < first + Size /\ last + 1 - first < Size
    BY DEF Copying, Fits
  <1>2. Due \in Nat /\ Due >= first /\ Due <= last + 1
    BY <1>1, CopyTypes DEF Due, Inv, Copied
  <1>3. Newest = pushed \/ Newest = pushed + 1
    BY NewestIs
  <1>4. /\ pushed + 1 - Due \in 0..Size /\ pushed - last \in 0..Size
        /\ (pushed + 1 - Due) - (pushed - last) < Size
        /\ (pushed - last) - (pushed + 1 - Due) < Size
    <2> DEFINE due == Due
    <2>1. pushed < first + Size  BY <1>1, <1>3, CopyTypes DEF Inv
    <2>2. /\ due \in Nat /\ due >= first /\ due <= last + 1 /\ last <= pushed
          /\ last + 1 - first < Size /\ last \in Nat /\ pushed \in Nat /\ first \in Nat
          /\ Size \in Nat
      BY <1>1, <1>2, CopyTypes DEF Inv
    <2> HIDE DEF due
    <2>3. /\ pushed + 1 - due \in 0..Size /\ pushed - last \in 0..Size
          /\ (pushed + 1 - due) - (pushed - last) < Size
          /\ (pushed - last) - (pushed + 1 - due) < Size
      BY <2>1, <2>2
    <2> QED  BY <2>3 DEF due
  <1>5. snap.idx = Back(pushed + 1 - Due) /\ snap.end = Back(pushed - last)
    BY <1>1 DEF Copied
  <1>6. snap.idx = snap.end => pushed + 1 - Due = pushed - last
    <2>1. tail \in Slots  BY CopyTypes DEF Inv
    <2>2. PICK d \in 0..Size : d = pushed + 1 - Due  BY <1>4
    <2>3. PICK e \in 0..Size : e = pushed - last  BY <1>4
    <2>4. d - e < Size /\ e - d < Size  BY <1>4, <2>2, <2>3
    <2>5. Back(d) = Back(e) => d = e  BY <2>1, <2>4, BackInjective
    <2> QED  BY <1>5, <2>2, <2>3, <2>5
  <1>7. Due = last + 1 => pushed + 1 - Due = pushed - last
    BY <1>2, CopyTypes DEF Inv
  <1> QED  BY <1>2, <1>5, <1>6, <1>7, CopyTypes DEF Inv

LEMMA BeginCopyCopying ==
    ASSUME NEW p, Producers = {p}, Inv(p), Copying, BeginCopy
    PROVE  Copying'
  <1>1. /\ snap.pc = "next" /\ snap.idx # snap.end /\ snap'.pc = "copy" /\ snap'.idx = snap.idx
        /\ snap'.end = snap.end /\ snap'.result = snap.result
        /\ snap'.torn = (buffer[snap.idx] = Torn)
        /\ UNCHANGED <<tail, pushed, push, first, last>>
    BY CopyTypes DEF BeginCopy, Inv, Snaps
  <1>2. (Fits' => Fits) /\ Due' = Due
    BY <1>1 DEF Fits, Newest, Due
  <1>3. ASSUME Fits
        PROVE  Due <= last /\ ~snap'.torn
    <2>1. Due <= last + 1 /\ Due # last + 1
      BY <1>1, <1>3, EndIsReached DEF Copying, Copied
    <2>2. Due \in Nat /\ last \in Nat
      BY CopyTypes DEF Due, Inv
    <2>3. Due <= last
      BY <2>1, <2>2
    <2> QED  BY <1>1, <1>3, <2>3, DueIsThere
  <1> QED  BY <1>1, <1>2, <1>3 DEF Copying, Copied, Back

LEMMA EndCopyCopying ==
    ASSUME NEW p, Producers = {p}, Inv(p), Copying, EndCopy
    PROVE  Copying'
  <1> DEFINE e == IF snap.torn THEN Torn ELSE buffer[snap.idx]
  <1>1. /\ snap.pc = "copy" /\ snap'.pc = "next" /\ snap'.idx = Succ(snap.idx)
        /\ snap'.end = snap.end /\ snap'.result = Append(snap.result, e)
        /\ UNCHANGED <<tail, pushed, push, first, last>>
    BY CopyTypes DEF EndCopy, Inv, Snaps
  <1> HIDE DEF e
  <1>2. Fits' => Fits
    BY <1>1 DEF Fits, Newest
  <1>3. snap.result \in Seq(Elements) /\ Len(snap'.result) = Len(snap.result) + 1
    BY <1>1, CopyTypes DEF Inv, Snaps
  <1>4. Due \in Nat /\ Due' = Due + 1
    <2>1. Due = first + Len(snap.result) /\ Due' = first' + Len(snap'.result) /\ first' = first
      BY <1>1 DEF Due
    <2>2. first \in Nat /\ Len(snap.result) \in Nat
      BY CopyTypes DEF Inv
    <2> QED  BY <1>3, <2>1, <2>2
  <1>5. ASSUME Fits
        PROVE  Copied'
    <2>1. /\ Copied /\ Due <= last /\ ~snap.torn /\ last <= pushed /\ first \in 1..(pushed + 1)
      BY <1>1, <1>5 DEF Copying, Copied
    <2>2. e = Due /\ snap'.idx = Back(pushed - Due)
      BY <1>1, <1>5, <2>1, DueIsThere DEF e
    <2>3. snap'.result = Run(first - 1, Len(snap.result) + 1)
      <3>1. PICK n \in Nat, a \in Nat : n = Len(snap.result) /\ a = first - 1
        BY <2>1, CopyTypes DEF Inv
      <3>2. Append(Run(a, n), a + n + 1) = Run(a, n + 1)
        BY RunIs
      <3>3. a + n + 1 = Due
        BY <2>1, <3>1, CopyTypes DEF Due, Inv
      <3> QED  BY <1>1, <2>1, <2>2, <3>1, <3>2, <3>3 DEF Copied
    <2>4. snap'.idx = Back(pushed + 1 - Due)'
      <3>1. pushed' + 1 - Due' = pushed - Due
        BY <1>1, <1>4, CopyTypes DEF Inv
      <3> QED  BY <1>1, <2>2, <3>1 DEF Back
    <2>5. snap'.end = Back(pushed - last)'
      BY <1>1, <2>1 DEF Copied, Back
    <2>6. snap'.result = Run(first - 1, Len(snap.result))'
      BY <1>1, <1>3, <2>3
    <2>7. Due' <= pushed' + 1 /\ Due' <= last' + 1
      BY <1>1, <1>4, <2>1, CopyTypes DEF Inv
    <2> QED  BY <1>1, <2>4, <2>5, <2>6, <2>7 DEF Copied
  <1>6. /\ first' \in 1..(pushed' + 1) /\ last' <= pushed' /\ first' <= last' + 1
    BY <1>1 DEF Copying
  <1> QED  BY <1>1, <1>2, <1>5, <1>6 DEF Copying

LEMMA CopyingNext ==
    ASSUME NEW p, Producers = {p}, Inv(p), Copying, [Next]_vars
    PROVE  Copying'
  <1>1. ASSUME record_auth_event(p) \/ CheckRoom(p) \/ MakeRoom(p) \/ EndWrite(p)
        PROVE  Copying'
    <2>1. UNCHANGED <<tail, pushed, snap, first, last>>
      BY <1>1 DEF record_auth_event, CheckRoom, MakeRoom, EndWrite
    <2>2. Busy(p) => Busy(p)'
      <3>1. EndWrite(p) => Busy(p)'
        BY StepIs DEF EndWrite, Busy, Inv
      <3> QED  BY <1>1, <3>1 DEF record_auth_event, CheckRoom, MakeRoom, Step, Busy
    <2> QED  BY <2>1, <2>2, QuietCopying
  <1>2. ASSUME get_recent_auth_events
        PROVE  Copying'
    BY <1>2 DEF get_recent_auth_events, NoSnap, Copying
  <1>3. CASE UNCHANGED vars
    BY <1>3 DEF vars, Copying, Copied, Fits, Newest, Due, Back
  <1> QED
    BY <1>1, <1>2, <1>3, BeginWriteCopying, PublishCopying, LoadHeadCopying, LoadTailCopying,
       BeginCopyCopying, EndCopyCopying DEF Next

LEMMA CopyingExact ==
    ASSUME NEW p, Producers = {p}, Inv(p), Copying
    PROVE  SnapshotExact
  <1> SUFFICES ASSUME Complete, last + 1 - first < Size, Newest < first + Size
               PROVE  snap.result = [k \in 1..(last + 1 - first) |-> first + k - 1]
    BY DEF SnapshotExact
  <1>1. Fits /\ Copied /\ snap.pc = "next" /\ first \in 1..(pushed + 1) /\ Due = last + 1
    BY EndIsReached DEF Complete, Fits, Copying
  <1>2. Len(snap.result) = last + 1 - first
    BY <1>1, CopyTypes DEF Inv, Due
  <1>3. snap.result = [k \in 1..(last + 1 - first) |-> first - 1 + k]
    BY <1>1, <1>2 DEF Copied, Run
  <1>4. \A k \in 1..(last + 1 - first) : first - 1 + k = first + k - 1
    BY CopyTypes DEF Inv
  <1> QED  BY <1>3, <1>4

(* A snapshot, in whatever steps of the producer it falls, is exactly the   *)
(* events that were in the buffer when it began and those that were         *)
(* published until its load of tail, unless these are more than fit or the  *)
(* producer comes round to the oldest of them meanwhile.                    *)
THEOREM SnapshotIsExact == ASSUME OneProducer PROVE Spec => []SnapshotExact
  <1>1. PICK p : Producers = {p}
    BY DEF OneProducer
  <1>2. Spec => []Inv(p)
    BY <1>1, InvAlways
  <1>3. Init => Copying
    BY DEF Init, Copying, NoSnap
  <1>4. Inv(p) /\ Copying /\ [Next]_vars => Copying'
    BY <1>1, CopyingNext
  <1>5. Inv(p) /\ Copying => SnapshotExact
    BY <1>1, CopyingExact
  <1> QED  BY <1>2, <1>3, <1>4, <1>5, PTL DEF Spec
=============================================================================
