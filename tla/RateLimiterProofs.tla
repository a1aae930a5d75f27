------------------------- MODULE RateLimiterProofs -------------------------
(***************************************************************************)
(* Theorems about RateLimiter, for any endpoints, limits and windows.  The *)
(* argument for the limit: no call drops a time that is within the         *)
(* shortest window, so what an endpoint with that window counts is all     *)
(* there is to count, its own grants among it.                             *)
(***************************************************************************)
EXTENDS RateLimiter, FiniteSetTheorems, SequenceTheorems, TLAPS

(* What the record has lost is older than every shortest window.            *)
Kept ==
    \A g \in DOMAIN grants \ record, e \in Endpoints :
        Shortest(e) => Age(grants[g].at) > Window[e]

LimitInv == TypeOK /\ Kept /\ LoginLimit

-----------------------------------------------------------------------------
(* Ages *)

LEMMA Division ==
    ASSUME NEW x \in Nat, NEW d \in Nat \ {0}
    PROVE  x \div d \in Nat /\ x % d \in 0..(d - 1) /\ x = d * (x \div d) + (x % d)
  OBVIOUS

(* A time in the window is not too old.                                     *)
LEMMA InWindow ==
    ASSUME NEW x \in Nat, NEW d \in Nat \ {0}, NEW w \in Nat, x <= w * d
    PROVE  x \div d <= w
  <1> DEFINE q == x \div d
             r == x % d
  <1>1. q \in Nat /\ r \in Nat /\ x = d * q + r
    BY Division
  <1> HIDE DEF q, r
  <1>2. d * q <= d * w
    BY <1>1
  <1>3. ASSUME q > w
        PROVE  FALSE
    <2>1. PICK k \in Nat : q = w + 1 + k
      <3>1. q - w - 1 \in Nat /\ q = w + 1 + (q - w - 1)
        BY <1>1, <1>3
      <3> QED  BY <3>1
    <2>2. d * q = d * w + d + d * k /\ d * k \in Nat
      BY <2>1
    <2> QED  BY <1>2, <2>2
  <1> QED  BY <1>1, <1>3 DEF q

(* Times only grow older.                                                   *)
LEMMA OlderLater ==
    ASSUME NEW x \in Nat, NEW d \in Nat \ {0}
    PROVE  (x + 1) \div d >= x \div d
  <1> DEFINE q == x \div d
             p == (x + 1) \div d
             r == x % d
             s == (x + 1) % d
  <1>1. q \in Nat /\ r \in 0..(d - 1) /\ x = d * q + r
    BY Division
  <1>2. p \in Nat /\ s \in 0..(d - 1) /\ x + 1 = d * p + s
    BY Division, x + 1 \in Nat
  <1> HIDE DEF p, q, r, s
  <1>3. ASSUME p < q
        PROVE  FALSE
    <2>1. PICK k \in Nat : q = p + 1 + k
      <3>1. q - p - 1 \in Nat /\ q = p + 1 + (q - p - 1)
        BY <1>1, <1>2, <1>3
      <3> QED  BY <3>1
    <2>2. d * q = d * p + d + d * k /\ d * k \in Nat
      BY <1>2, <2>1
    <2> QED  BY <1>1, <1>2, <2>2
  <1> QED  BY <1>1, <1>2, <1>3 DEF p, q

-----------------------------------------------------------------------------
(* Type correctness *)

LEMMA TypeInit == Init => TypeOK
  BY RateLimiterAssumption DEF Init, TypeOK, Times

LEMMA AllowTypes ==
    ASSUME TypeOK, NEW e \in Endpoints, NEW kept \in SUBSET record, Allow(e, kept),
           UNCHANGED now
    PROVE  /\ TypeOK'
           /\ DOMAIN grants = 1..Len(grants) /\ DOMAIN grants' = 1..(Len(grants) + 1)
           /\ \A g \in DOMAIN grants : grants'[g] = grants[g]
           /\ grants'[Len(grants) + 1] = [by |-> e, at |-> now]
  <1>1. [by |-> e, at |-> now] \in [by : Endpoints, at : 0..now]
    BY RateLimiterAssumption DEF TypeOK, Times
  <1>2. grants \in Seq([by : Endpoints, at : 0..now])
    BY DEF TypeOK
  <1>3. /\ grants' \in Seq([by : Endpoints, at : 0..now])
        /\ DOMAIN grants = 1..Len(grants) /\ DOMAIN grants' = 1..(Len(grants) + 1)
        /\ \A g \in DOMAIN grants : grants'[g] = grants[g]
        /\ grants'[Len(grants) + 1] = [by |-> e, at |-> now]
    BY <1>1, <1>2 DEF Allow
  <1>4. record' \subseteq DOMAIN grants'
    BY <1>2, <1>3 DEF Allow, TypeOK
  <1> QED  BY <1>3, <1>4 DEF TypeOK

LEMMA TypeNext == ASSUME TypeOK, [Next]_vars PROVE TypeOK'
  <1>1. ASSUME NEW e \in Endpoints, is_allowed(e)
        PROVE  TypeOK'
    <2>1. Recent(e) \in SUBSET record
      BY DEF Recent
    <2>2. CASE Cardinality(Recent(e)) >= Limit[e]
      BY <1>1, <2>1, <2>2 DEF is_allowed, TypeOK
    <2>3. CASE ~(Cardinality(Recent(e)) >= Limit[e])
      BY <1>1, <2>1, <2>3, AllowTypes DEF is_allowed
    <2> QED  BY <2>2, <2>3
  <1>2. CASE Tick
    <2>1. now' \in Times /\ 0..now \subseteq 0..now'
      BY <1>2, RateLimiterAssumption DEF Tick, TypeOK, Times
    <2>2. [by : Endpoints, at : 0..now] \subseteq [by : Endpoints, at : 0..now']
      BY <2>1
    <2>3. grants \in Seq([by : Endpoints, at : 0..now'])
      BY <2>2, SeqMonotonic DEF TypeOK
    <2> QED  BY <1>2, <2>1, <2>3 DEF Tick, TypeOK
  <1>3. CASE UNCHANGED vars
    BY <1>3 DEF vars, TypeOK
  <1> QED  BY <1>1, <1>2, <1>3 DEF Next

(* Type correctness of RateLimiter: no grant lies in the future, and the    *)
(* record holds nothing but times of grants (rate_limiter.hpp is_allowed).  *)
THEOREM TypeCorrect == Spec => []TypeOK
  BY TypeInit, TypeNext, PTL DEF Spec

-----------------------------------------------------------------------------
(* The shortest windows *)

LEMMA Sizes ==
    ASSUME TypeOK, NEW S \in SUBSET DOMAIN grants
    PROVE  IsFiniteSet(S) /\ Cardinality(S) \in Nat
  <1>1. DOMAIN grants = 1..Len(grants) /\ Len(grants) \in Nat
    BY LenProperties DEF TypeOK
  <1>2. IsFiniteSet(DOMAIN grants)
    BY <1>1, FS_Interval
  <1> QED  BY <1>2, FS_Subset, FS_CardinalityType

LEMMA AddOne ==
    ASSUME NEW S, IsFiniteSet(S), NEW x
    PROVE  /\ IsFiniteSet(S \cup {x})
           /\ Cardinality(S \cup {x}) <= Cardinality(S) + 1
           /\ Cardinality(S \cup {x}) \in Nat
  <1>1. IsFiniteSet(S \cup {x})
        /\ Cardinality(S \cup {x}) = IF x \in S THEN Cardinality(S) ELSE Cardinality(S) + 1
    BY FS_AddElement
  <1>2. Cardinality(S) \in Nat /\ Cardinality(S \cup {x}) \in Nat
    BY <1>1, FS_CardinalityType
  <1> QED  BY <1>1, <1>2

LEMMA GrantTypes ==
    ASSUME TypeOK, NEW g \in DOMAIN grants
    PROVE  /\ grants[g].by \in Endpoints
           /\ grants[g].at \in Nat /\ now - grants[g].at \in Nat
           /\ Age(grants[g].at) \in Nat
  <1>1. grants[g] \in [by : Endpoints, at : 0..now] /\ now \in Nat
    <2>1. grants \in Seq([by : Endpoints, at : 0..now])
      BY DEF TypeOK
    <2>2. g \in 1..Len(grants)
      BY <2>1, LenProperties
    <2>3. now \in Nat
      BY RateLimiterAssumption DEF TypeOK, Times
    <2> QED  BY <2>1, <2>2, <2>3, ElementOfSeq
  <1>2. grants[g].at \in Nat /\ now - grants[g].at \in Nat
    BY <1>1
  <1> QED  BY <1>1, <1>2, Division, RateLimiterAssumption DEF Age

LEMMA KeptNext ==
    ASSUME TypeOK, Kept, [Next]_vars
    PROVE  Kept'
  <1>1. ASSUME NEW e \in Endpoints, is_allowed(e)
        PROVE  Kept'
    <2>1. SUFFICES ASSUME NEW g \in DOMAIN grants' \ record', NEW f \in Endpoints, Shortest(f)
                   PROVE  Age(grants'[g].at) > Window[f]
      BY <1>1 DEF Kept, is_allowed, Age, Shortest
    <2>2. Recent(e) \in SUBSET record
      BY DEF Recent
    <2>3. g \in DOMAIN grants \ Recent(e) /\ grants'[g] = grants[g]
      <3>1. CASE Cardinality(Recent(e)) >= Limit[e]
        BY <1>1, <2>1, <3>1 DEF is_allowed
      <3>2. CASE ~(Cardinality(Recent(e)) >= Limit[e])
        <4>1. Allow(e, Recent(e)) /\ UNCHANGED now
          BY <1>1, <3>2 DEF is_allowed
        <4>2. g # Len(grants) + 1 /\ g \notin Recent(e)
          BY <2>1, <4>1 DEF Allow
        <4>3. g \in DOMAIN grants
          <5>1. DOMAIN grants = 1..Len(grants) /\ DOMAIN grants' = 1..(Len(grants) + 1)
            BY <2>2, <4>1, AllowTypes
          <5>2. Len(grants) \in Nat
            BY LenProperties DEF TypeOK
          <5> QED  BY <2>1, <4>2, <5>1, <5>2
        <4> QED  BY <2>2, <4>1, <4>2, <4>3, AllowTypes
      <3> QED  BY <3>1, <3>2
    <2>4. CASE g \notin record
      BY <2>1, <2>3, <2>4 DEF Kept
    <2>5. CASE g \in record
      <3>1. ~(Age(grants[g].at) <= Window[e])
        BY <2>3, <2>5 DEF Recent
      <3>2. Window[f] <= Window[e] /\ Window[f] \in Nat /\ Window[e] \in Nat
        BY <2>1, RateLimiterAssumption DEF Shortest
      <3> QED  BY <2>3, <3>1, <3>2, GrantTypes
    <2> QED  BY <2>4, <2>5
  <1>2. CASE Tick
    <2>1. SUFFICES ASSUME NEW g \in DOMAIN grants' \ record', NEW f \in Endpoints, Shortest(f)
                   PROVE  (now' - grants'[g].at) \div Second > Window[f]
      BY DEF Kept, Age, Shortest
    <2>2. now' = now + 1 /\ grants' = grants /\ g \in DOMAIN grants \ record
      BY <1>2, <2>1 DEF Tick
    <2>3. PICK x \in Nat : x = now - grants[g].at
      BY <2>2, GrantTypes
    <2>4. now \in Nat /\ grants[g].at \in Nat
      <3>1. now \in Nat
        BY RateLimiterAssumption DEF TypeOK, Times
      <3> QED  BY <2>2, <3>1, GrantTypes
    <2>5. now' - grants'[g].at = x + 1
      <3>1. now + 1 - grants[g].at = x + 1
        BY <2>3, <2>4
      <3> QED  BY <2>2, <2>4, <3>1
    <2>6. x \div Second > Window[f]
      BY <2>1, <2>2, <2>3 DEF Kept, Age
    <2>7. (x + 1) \div Second >= x \div Second
      BY OlderLater, RateLimiterAssumption
    <2>8. x \div Second \in Nat /\ (x + 1) \div Second \in Nat
      BY Division, RateLimiterAssumption, x + 1 \in Nat
    <2>9. (x + 1) \div Second > Window[f]
      BY <2>6, <2>7, <2>8, RateLimiterAssumption
    <2> QED  BY <2>5, <2>9, Zenon
  <1>3. CASE UNCHANGED vars
    BY <1>3 DEF vars, Kept, Age, Shortest
  <1> QED  BY <1>1, <1>2, <1>3 DEF Next

(* What a call counts is at least what its endpoint was allowed of late.    *)
LEMMA LateAreRecent ==
    ASSUME TypeOK, Kept, NEW e \in Endpoints, Shortest(e), NEW t \in Times,
           now <= t + Window[e] * Second
    PROVE  Allowed(e, t) \subseteq Recent(e)
  <1>1. SUFFICES ASSUME NEW g \in Allowed(e, t)
                 PROVE  g \in Recent(e)
    OBVIOUS
  <1>2. g \in DOMAIN grants /\ t <= grants[g].at
    BY DEF Allowed
  <1>3. Window[e] \in Nat /\ Second \in Nat \ {0} /\ Window[e] * Second \in Nat
    BY RateLimiterAssumption
  <1>4. grants[g].at \in Nat /\ now - grants[g].at \in Nat /\ t \in Nat /\ now \in Nat
    <2>1. t \in Nat /\ now \in Nat
      BY RateLimiterAssumption DEF Times, TypeOK
    <2>2. grants[g].at \in Nat /\ now - grants[g].at \in Nat
      BY <1>2, GrantTypes
    <2> QED  BY <2>1, <2>2
  <1>5. now - grants[g].at <= Window[e] * Second
    BY <1>2, <1>3, <1>4
  <1>6. Age(grants[g].at) <= Window[e]
    BY <1>3, <1>4, <1>5, InWindow DEF Age
  <1>7. g \in record
    BY <1>2, <1>3, <1>6, GrantTypes DEF Kept
  <1> QED  BY <1>6, <1>7 DEF Recent

LEMMA GrantKeepsLimit ==
    ASSUME LimitInv, NEW e \in Endpoints, Cardinality(Recent(e)) < Limit[e],
           Allow(e, Recent(e)), UNCHANGED now, NEW f \in Endpoints, Shortest(f), NEW t \in Times
    PROVE  Cardinality(Allowed(f, t)') <= Limit[f]
  <1> DEFINE new == Len(grants) + 1
  <1>1. TypeOK /\ Kept /\ Recent(e) \in SUBSET record /\ record \subseteq DOMAIN grants
    BY DEF LimitInv, TypeOK, Recent
  <1>2. /\ DOMAIN grants' = DOMAIN grants \cup {new}
        /\ \A g \in DOMAIN grants : grants'[g] = grants[g]
        /\ grants'[new] = [by |-> e, at |-> now]
        /\ TypeOK'
    <2>1. Len(grants) \in Nat
      BY <1>1, LenProperties DEF TypeOK
    <2>2. /\ TypeOK' /\ DOMAIN grants = 1..Len(grants) /\ DOMAIN grants' = 1..(Len(grants) + 1)
          /\ \A g \in DOMAIN grants : grants'[g] = grants[g]
          /\ grants'[Len(grants) + 1] = [by |-> e, at |-> now]
      BY <1>1, AllowTypes
    <2>3. DOMAIN grants' = DOMAIN grants \cup {new}
      BY <2>1, <2>2
    <2> QED  BY <2>2, <2>3
  <1>3. Limit[f] \in Nat /\ Cardinality(Allowed(f, t)) <= Limit[f]
    BY RateLimiterAssumption DEF LimitInv, LoginLimit, WithinLimit
  <1>4. Allowed(f, t) \in SUBSET DOMAIN grants
    BY DEF Allowed
  <1>5. Allowed(f, t)' \subseteq Allowed(f, t) \cup {new}
    BY <1>2 DEF Allowed
  <1>6. IsFiniteSet(Allowed(f, t)) /\ Cardinality(Allowed(f, t)) \in Nat
    BY <1>1, <1>4, Sizes
  <1>7. CASE new \notin Allowed(f, t)'
    <2>1. Allowed(f, t)' \in SUBSET Allowed(f, t)
      BY <1>5, <1>7
    <2>2. Cardinality(Allowed(f, t)') <= Cardinality(Allowed(f, t))
          /\ Cardinality(Allowed(f, t)') \in Nat
      BY <1>6, <2>1, FS_Subset, FS_CardinalityType
    <2> QED  BY <1>3, <1>6, <2>2
  <1>8. CASE new \in Allowed(f, t)'
    <2>1. f = e /\ now <= t + Window[e] * Second
      BY <1>2, <1>8 DEF Allowed
    <2>2. Allowed(f, t) \subseteq Recent(e)
      BY <1>1, <2>1, LateAreRecent
    <2>3. IsFiniteSet(Recent(e)) /\ Cardinality(Recent(e)) \in Nat
      BY <1>1, Sizes
    <2>4. /\ IsFiniteSet(Recent(e) \cup {new})
          /\ Cardinality(Recent(e) \cup {new}) <= Cardinality(Recent(e)) + 1
          /\ Cardinality(Recent(e) \cup {new}) \in Nat
      BY <2>3, AddOne
    <2>5. Allowed(f, t)' \in SUBSET (Recent(e) \cup {new})
      BY <1>5, <2>2
    <2>6. Cardinality(Allowed(f, t)') <= Cardinality(Recent(e) \cup {new})
          /\ Cardinality(Allowed(f, t)') \in Nat
      BY <2>4, <2>5, FS_Subset, FS_CardinalityType
    <2> QED  BY <1>3, <2>1, <2>3, <2>4, <2>6
  <1> QED  BY <1>7, <1>8

LEMMA LimitInit == Init => LimitInv
  <1>1. ASSUME Init
        PROVE  LoginLimit
    <2>1. ASSUME NEW e \in Endpoints, NEW t \in Times
          PROVE  Cardinality(Allowed(e, t)) <= Limit[e]
      <3>1. Allowed(e, t) = {}
        BY <1>1 DEF Init, Allowed
      <3> QED  BY <3>1, FS_EmptySet, RateLimiterAssumption
    <2> QED  BY <2>1 DEF LoginLimit, WithinLimit
  <1>2. Init => Kept
    BY DEF Init, Kept
  <1> QED  BY <1>1, <1>2, TypeInit DEF LimitInv

LEMMA LimitNext == ASSUME LimitInv, [Next]_vars PROVE LimitInv'
  <1>1. TypeOK' /\ Kept'
    BY TypeNext, KeptNext DEF LimitInv
  <1>2. SUFFICES ASSUME NEW f \in Endpoints, Shortest(f), NEW t \in Times
                 PROVE  Cardinality(Allowed(f, t)') <= Limit[f]
    BY <1>1 DEF LimitInv, LoginLimit, WithinLimit, Shortest
  <1>3. Limit[f] \in Nat /\ Cardinality(Allowed(f, t)) <= Limit[f]
    BY <1>2, RateLimiterAssumption DEF LimitInv, LoginLimit, WithinLimit
  <1>4. CASE UNCHANGED grants
    BY <1>3, <1>4 DEF Allowed
  <1>5. ASSUME NEW e \in Endpoints, is_allowed(e), ~UNCHANGED grants
        PROVE  Cardinality(Allowed(f, t)') <= Limit[f]
    <2>1. Recent(e) \in SUBSET DOMAIN grants
      BY DEF Recent, LimitInv, TypeOK
    <2>2. Cardinality(Recent(e)) \in Nat /\ Limit[e] \in Nat
      BY <2>1, Sizes, RateLimiterAssumption DEF LimitInv
    <2>3. /\ Cardinality(Recent(e)) < Limit[e]
          /\ Allow(e, Recent(e)) /\ UNCHANGED now
      BY <1>5, <2>2 DEF is_allowed
    <2> QED  BY <1>2, <2>3, GrantKeepsLimit
  <1> QED  BY <1>4, <1>5 DEF Next, Tick, vars

(* An endpoint with the shortest window keeps its limit in every stretch of *)
(* that length, whatever the other endpoints ask of the shared record       *)
(* (auth_ctrl.cpp login, login_totp).                                       *)
THEOREM LimitKept == Spec => []LoginLimit
  <1>1. LimitInv => LoginLimit
    BY DEF LimitInv
  <1> QED  BY <1>1, LimitInit, LimitNext, PTL DEF Spec

-----------------------------------------------------------------------------
(* The size of the record *)

LEMMA BoundNext ==
    ASSUME TypeOK, RecordBounded, [Next]_vars
    PROVE  RecordBounded'
  <1>1. CASE UNCHANGED record
    BY <1>1 DEF RecordBounded
  <1>2. ASSUME NEW e \in Endpoints, is_allowed(e)
        PROVE  RecordBounded'
    <2>1. Recent(e) \in SUBSET record /\ record \in SUBSET DOMAIN grants
      BY DEF Recent, TypeOK
    <2>2. /\ IsFiniteSet(Recent(e)) /\ Cardinality(Recent(e)) \in Nat
          /\ IsFiniteSet(record) /\ Cardinality(record) \in Nat
      BY <2>1, Sizes
    <2>3. Limit \in [Endpoints -> Nat \ {0}]
      BY RateLimiterAssumption
    <2>4. CASE Cardinality(Recent(e)) >= Limit[e]
      <3>1. record' = Recent(e)
        BY <1>2, <2>4 DEF is_allowed
      <3>2. Cardinality(record') <= Cardinality(record)
        BY <2>1, <2>2, <3>1, FS_Subset
      <3>3. PICK f \in Endpoints : Cardinality(record) <= Limit[f]
        BY DEF RecordBounded
      <3>4. Cardinality(record') <= Limit[f]
        BY <2>2, <2>3, <3>1, <3>2, <3>3
      <3> QED  BY <3>4 DEF RecordBounded
    <2>5. CASE ~(Cardinality(Recent(e)) >= Limit[e])
      <3>1. record' = Recent(e) \cup {Len(grants) + 1}
        BY <1>2, <2>5 DEF is_allowed, Allow
      <3>2. Cardinality(record') <= Cardinality(Recent(e)) + 1 /\ Cardinality(record') \in Nat
        BY <2>2, <3>1, AddOne
      <3>3. Cardinality(record') <= Limit[e]
        BY <2>2, <2>3, <2>5, <3>2
      <3> QED  BY <3>3 DEF RecordBounded
    <2> QED  BY <2>4, <2>5
  <1> QED  BY <1>1, <1>2 DEF Next, Tick, vars

(* The record of an address never grows beyond the largest limit, however   *)
(* often it is asked (rate_limiter.hpp is_allowed).                         *)
THEOREM RecordIsBounded == Spec => []RecordBounded
  <1>1. Init => RecordBounded
    <2>1. PICK e \in Endpoints : TRUE
      BY RateLimiterAssumption
    <2>2. Cardinality({}) <= Limit[e]
      BY FS_EmptySet, RateLimiterAssumption
    <2> QED  BY <2>2 DEF Init, RecordBounded
  <1>2. TypeOK /\ RecordBounded /\ [Next]_vars => RecordBounded'
    BY BoundNext
  <1> QED  BY <1>1, <1>2, TypeCorrect, PTL DEF Spec
=============================================================================
