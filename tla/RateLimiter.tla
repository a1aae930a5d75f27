----------------------------- MODULE RateLimiter ----------------------------
(***************************************************************************)
(* RateLimiter, as one client address meets it.  The limiter keeps one     *)
(* record of times per address, and every endpoint that asks it uses that  *)
(* record with a limit and a window of its own: it drops the times older   *)
(* than its window, refuses when too many are left, and appends the        *)
(* present time otherwise.  A mutex makes the call one step; addresses do  *)
(* not touch each other.  Time is counted in ticks, and the code truncates *)
(* an age to whole seconds.  The order of the times in a record is of no   *)
(* account to a call, which drops, counts and adds, so the record is the   *)
(* set of the numbers of the grants whose times it holds.  A restart       *)
(* forgets everything; the model follows one life of the process.          *)
(***************************************************************************)
EXTENDS Integers, Sequences, FiniteSets

CONSTANTS
    Endpoints,
    Limit,       \* max_requests of each endpoint
    Window,      \* window_seconds of each endpoint
    Second,      \* ticks in a second
    MaxTime      \* bound on the clock

ASSUME RateLimiterAssumption ==
    /\ Endpoints # {}
    /\ Limit \in [Endpoints -> Nat \ {0}]
    /\ Window \in [Endpoints -> Nat]
    /\ Second \in Nat \ {0}
    /\ MaxTime \in Nat

VARIABLES
    now,       \* steady_clock
    grants,    \* the calls that were allowed: whose and when
    record     \* requests_[ip], as the numbers of the grants whose times it holds

vars == <<now, grants, record>>

Times == 0..MaxTime

(* No grant lies in the future, and the record holds times of grants only.  *)
TypeOK ==
    /\ now \in Times
    /\ grants \in Seq([by : Endpoints, at : 0..now])
    /\ record \subseteq DOMAIN grants

Init ==
    /\ now = 0
    /\ grants = <<>>
    /\ record = {}

(* duration_cast<seconds>(now - time) *)
Age(time) == (now - time) \div Second

(* The times a call of endpoint e leaves in the record *)
Recent(e) == {g \in record : Age(grants[g].at) <= Window[e]}

Allow(e, kept) ==
    /\ grants' = Append(grants, [by |-> e, at |-> now])
    /\ record' = kept \cup {Len(grants) + 1}

(* Faulty: a time as old as the window is dropped. *)
RecentShort(e) == {g \in record : Age(grants[g].at) < Window[e]}

IsAllowedShort(e) ==
    /\ IF Cardinality(RecentShort(e)) >= Limit[e]
       THEN record' = RecentShort(e) /\ UNCHANGED grants
       ELSE Allow(e, RecentShort(e))
    /\ UNCHANGED now

(* Faulty: one more than the limit is allowed. *)
IsAllowedOneMore(e) ==
    /\ IF Cardinality(Recent(e)) > Limit[e]
       THEN record' = Recent(e) /\ UNCHANGED grants
       ELSE Allow(e, Recent(e))
    /\ UNCHANGED now

(* Faulty: the time is recorded before the call is refused. *)
IsAllowedAfter(e) ==
    /\ IF Cardinality(Recent(e)) >= Limit[e]
       THEN record' = Recent(e) \cup {Len(grants) + 1} /\ UNCHANGED grants
       ELSE Allow(e, Recent(e))
    /\ UNCHANGED now

(* is_allowed: a refused call is not recorded, but it has dropped the old   *)
(* times.                                                                   *)
is_allowed(e) ==
    /\ IF Cardinality(Recent(e)) >= Limit[e]
       THEN record' = Recent(e) /\ UNCHANGED grants
       ELSE Allow(e, Recent(e))
    /\ UNCHANGED now

Tick ==
    /\ now < MaxTime
    /\ now' = now + 1
    /\ UNCHANGED <<grants, record>>

Next == (\E e \in Endpoints : is_allowed(e)) \/ Tick

Spec == Init /\ [][Next]_vars

-----------------------------------------------------------------------------
(* Properties *)

(* The calls of e that were allowed in the Window[e] seconds that begin at  *)
(* time t                                                                   *)
Allowed(e, t) ==
    {g \in DOMAIN grants : /\ grants[g].by = e
                           /\ t <= grants[g].at
                           /\ grants[g].at <= t + Window[e] * Second}

WithinLimit(e) == \A t \in Times : Cardinality(Allowed(e, t)) <= Limit[e]

Shortest(e) == \A f \in Endpoints : Window[e] <= Window[f]

(* The endpoints with the shortest window, login and login_totp, are never  *)
(* allowed more often than their limit in any stretch as long as their      *)
(* window, wherever it begins and whatever the other endpoints drop from    *)
(* the shared record (auth_ctrl.cpp login, login_totp).                     *)
LoginLimit == \A e \in Endpoints : Shortest(e) => WithinLimit(e)

(* The record of an address stays as short as the largest limit, though     *)
(* three callers with different limits append to it.                        *)
RecordBounded == \E e \in Endpoints : Cardinality(record) <= Limit[e]

(* include/utils/rate_limiter.hpp:26: an endpoint is refused once its limit *)
(* is exceeded; CHANGELOG.md:23 names the password reset among those the    *)
(* limiter protects.                                                        *)
EveryLimit == \A e \in Endpoints : WithinLimit(e)
=============================================================================
