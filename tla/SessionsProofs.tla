--------------------------- MODULE SessionsProofs ---------------------------
(***************************************************************************)
(* Proofs about Sessions, for any sets of tokens, requests and             *)
(* synchronisations.                                                       *)
(***************************************************************************)
EXTENDS Sessions, TLAPS

(* Init and every step keep the types: what each request, synchronisation   *)
(* and connection holds is always a legal value, and the histories nest.    *)
LEMMA InitType == Init => TypeOK
<1> SUFFICES ASSUME Init PROVE TypeOK
  OBVIOUS
<1> USE DEF Init
<1>1. rows \in [Tokens -> {"absent", "live", "expired"}] /\ drawn \subseteq Tokens
  OBVIOUS
<1>2. req \in [Requests -> [at : {"idle"} \cup Waiting \cup Resumed,
                          tok : Tokens \cup {NoToken}]]
  BY DEF NoRequest
<1>3. \A r \in Requests : req[r].at # "idle" => req[r].tok \in drawn
  BY DEF NoRequest
<1>4. snap \in [Syncs -> [read : BOOLEAN, live : SUBSET Tokens]]
  BY DEF NoSnap
<1>5. conn \in [Connections -> Requests \cup Syncs \cup {Idle}]
  OBVIOUS
<1>6. crashes \in 0..MaxCrashes
  BY SessionsAssumption
<1>7. synced \in BOOLEAN /\ cache \subseteq Tokens /\ handed \subseteq drawn
      /\ ended \subseteq drawn /\ reauth \subseteq drawn
  OBVIOUS
<1> QED
  BY <1>1, <1>2, <1>3, <1>4, <1>5, <1>6, <1>7 DEF TypeOK

(* The two ways a request moves on keep the types of the requests. *)
LEMMA GotoKeeps ==
    ASSUME TypeOK, NEW r \in Requests, req[r].at # "idle",
           NEW at \in Waiting \cup Resumed, Goto(r, at)
    PROVE  /\ req' \in [Requests -> [at : {"idle"} \cup Waiting \cup Resumed,
                                     tok : Tokens \cup {NoToken}]]
           /\ \A q \in Requests : req'[q].at # "idle" => req'[q].tok \in drawn
BY DEF TypeOK, Goto

LEMMA FinishKeeps ==
    ASSUME TypeOK, NEW r \in Requests, Finish(r)
    PROVE  /\ req' \in [Requests -> [at : {"idle"} \cup Waiting \cup Resumed,
                                     tok : Tokens \cup {NoToken}]]
           /\ \A q \in Requests : req'[q].at # "idle" => req'[q].tok \in drawn
BY DEF TypeOK, Finish, NoRequest

LEMMA LoginType ==
    ASSUME TypeOK, NEW r \in Requests, NEW kind \in Kinds, NEW t \in Tokens,
           Login(r, kind, t)
    PROVE  TypeOK'
BY SessionsAssumption DEF TypeOK, Login, clients, Waiting, Resumed

LEMMA CreateType ==
    ASSUME TypeOK, NEW r \in Requests, create_session(r)
    PROVE  TypeOK'
BY SessionsAssumption
   DEF TypeOK, create_session, clients, Waiting, Resumed, Occupy, Goto, Finish, NoRequest

LEMMA AnswerLoginType ==
    ASSUME TypeOK, NEW r \in Requests, AnswerLogin(r)
    PROVE  TypeOK'
BY SessionsAssumption
   DEF TypeOK, AnswerLogin, put_session, Waiting, Resumed, Release, Finish, NoRequest

LEMMA AdmitType ==
    ASSUME TypeOK, NEW r \in Requests, NEW t \in Tokens,
           NEW to \in {"mismatch", "logout", "refresh"}, Admit(r, t, to)
    PROVE  TypeOK'
BY SessionsAssumption DEF TypeOK, Admit, clients, Waiting, Resumed

LEMMA MismatchType ==
    ASSUME TypeOK, NEW r \in Requests, Mismatch(r)
    PROVE  TypeOK'
BY SessionsAssumption
   DEF TypeOK, Mismatch, delete_row, Waiting, Resumed, Finish, NoRequest

LEMMA LogoutType ==
    ASSUME TypeOK, NEW r \in Requests, delete_session(r) \/ AnswerLogout(r)
    PROVE  TypeOK'
<1>1. CASE delete_session(r)
  BY <1>1, SessionsAssumption
     DEF TypeOK, delete_session, delete_row, clients, Waiting, Resumed, Occupy, Goto
<1>2. CASE AnswerLogout(r)
  BY <1>2, SessionsAssumption
     DEF TypeOK, AnswerLogout, remove_session, Waiting, Resumed, Release, Finish, NoRequest
<1> QED
  BY <1>1, <1>2

LEMMA RefreshType ==
    ASSUME TypeOK, NEW r \in Requests,
           RefreshLookup(r) \/ refresh_session(r) \/ AnswerRefresh(r)
    PROVE  TypeOK'
<1>1. CASE RefreshLookup(r)
  BY <1>1, GotoKeeps, FinishKeeps
     DEF TypeOK, RefreshLookup, clients, Waiting, Resumed
<1>2. CASE refresh_session(r)
  <2>1. Goto(r, "reput") \/ Finish(r)
    BY <1>2 DEF refresh_session
  <2>2. /\ rows' \in [Tokens -> {"absent", "live", "expired"}]
        /\ conn' \in [Connections -> Requests \cup Syncs \cup {Idle}]
    BY <1>2 DEF TypeOK, refresh_session, Occupy
  <2> QED
    BY <1>2, <2>1, <2>2, GotoKeeps, FinishKeeps
       DEF TypeOK, refresh_session, clients, Waiting, Resumed
<1>3. CASE AnswerRefresh(r)
  BY <1>3, SessionsAssumption
     DEF TypeOK, AnswerRefresh, put_session, clients, Waiting, Resumed, Release, Finish,
         NoRequest
<1> QED
  BY <1>1, <1>2, <1>3

LEMMA BackgroundType ==
    ASSUME TypeOK,
           \/ \E s \in Syncs : Sync(s)
           \/ Cleanup
           \/ \E t \in Tokens : Expire(t)
           \/ Crash
    PROVE  TypeOK'
<1>1. ASSUME NEW s \in Syncs, SyncSelect(s) PROVE TypeOK'
  BY <1>1 DEF TypeOK, SyncSelect, clients, Live, Occupy
<1>2. ASSUME NEW s \in Syncs, SyncInstall(s) PROVE TypeOK'
  BY <1>2 DEF TypeOK, SyncInstall, clients, NoSnap, Release
<1>3. CASE Cleanup
  BY <1>3 DEF TypeOK, Cleanup, clients
<1>4. ASSUME NEW t \in Tokens, Expire(t) PROVE TypeOK'
  BY <1>4 DEF TypeOK, Expire, clients
<1>5. CASE Crash
  <2>0. crashes' \in 0..MaxCrashes
    BY <1>5, SessionsAssumption DEF TypeOK, Crash
  <2>1. /\ cache' \subseteq Tokens
        /\ snap' \in [Syncs -> [read : BOOLEAN, live : SUBSET Tokens]]
        /\ conn' \in [Connections -> Requests \cup Syncs \cup {Idle}]
        /\ synced' \in BOOLEAN
    BY <1>5 DEF TypeOK, Crash, NoSnap
  <2>2. /\ req' \in [Requests -> [at : {"idle"} \cup Waiting \cup Resumed,
                                  tok : Tokens \cup {NoToken}]]
        /\ \A r \in Requests : req'[r].at = "idle"
    BY <1>5 DEF Crash, NoRequest
  <2> QED
    BY <1>5, <2>0, <2>1, <2>2 DEF TypeOK, Crash, clients, Waiting, Resumed
<1> QED
  BY <1>1, <1>2, <1>3, <1>4, <1>5 DEF Sync

LEMMA NextType == TypeOK /\ [Next]_vars => TypeOK'
<1> SUFFICES ASSUME TypeOK, [Next]_vars PROVE TypeOK'
  OBVIOUS
<1>1. ASSUME NEW r \in Requests, Step(r) PROVE TypeOK'
  BY <1>1, LoginType, CreateType, AnswerLoginType, AdmitType, MismatchType, LogoutType,
     RefreshType DEF Step, Resume
<1>2. CASE UNCHANGED vars
  BY <1>2 DEF TypeOK, vars, Waiting, Resumed
<1> QED
  BY <1>1, <1>2, BackgroundType DEF Next

(* Every state the service can reach is well typed.  In particular a        *)
(* request that is under way is always about a token that was drawn, and    *)
(* clients only hold tokens that were drawn.                                *)
THEOREM TypeCorrect == Spec => []TypeOK
<1>1. Init => TypeOK
  BY InitType
<1>2. TypeOK /\ [Next]_vars => TypeOK'
  BY NextType
<1> QED
  BY <1>1, <1>2, PTL DEF Spec

-----------------------------------------------------------------------------
(* The inductive invariant.  With one connection, whoever was called back   *)
(* by it is alone: no other statement runs until it is through.             *)

OneConnection == \E c : Connections = {c}
DeletesApply == "delete" \notin Refusable
NoLostWrites == {"insert", "update"} \cap Unacked = {}

Fresh == {"login", "login_totp", "answer"}   \* about a token no client holds yet

(* A request or synchronisation between its statement and its effect on the *)
(* cache occupies a connection.                                             *)
Occupied ==
    /\ \A r \in Requests : req[r].at \in Resumed => \E c \in Connections : conn[c] = r
    /\ \A s \in Syncs : snap[s].read => \E c \in Connections : conn[c] = s

(* A login's token is its own until it is handed out; any other request is  *)
(* about a token that was handed out, and only those can be logged out.     *)
Ownership ==
    /\ \A r \in Requests : req[r].at \in Fresh => req[r].tok \notin handed
    /\ \A q, r \in Requests :
          q # r /\ req[q].at \in Fresh /\ req[r].at \in Fresh => req[q].tok # req[r].tok
    /\ \A r \in Requests :
          req[r].at \notin Fresh \cup {"idle"} => req[r].tok \in handed
    /\ ended \subseteq handed

(* What a coroutine learnt from its statement is still true when it acts. *)
NotStale ==
    /\ \A r \in Requests : req[r].at = "reput" => rows[req[r].tok] # "absent"
    /\ \A s \in Syncs : snap[s].read => \A t \in snap[s].live : rows[t] # "absent"

EndedHaveNoRow ==
    /\ \A t \in ended : rows[t] = "absent"
    /\ \A r \in Requests : req[r].at = "remove" => rows[req[r].tok] = "absent"

LogoutInv ==
    TypeOK /\ Occupied /\ Ownership /\ NotStale /\ EndedHaveNoRow /\ LogoutIsFinal

(* A synchronisation that has read has read every row that is live now. *)
SnapshotsComplete == \A s \in Syncs : snap[s].read => Live \subseteq snap[s].live

CachedInv == LogoutInv /\ SnapshotsComplete /\ LiveSessionsAreCached

-----------------------------------------------------------------------------
(* Consequences of having one connection *)

LEMMA IdleMeansAlone ==
    ASSUME OneConnection, TypeOK, Occupied, HasIdle
    PROVE  /\ \A r \in Requests : req[r].at \notin Resumed
           /\ \A s \in Syncs : ~snap[s].read
BY SessionsAssumption DEF OneConnection, TypeOK, Occupied, HasIdle

LEMMA ResumedIsAlone ==
    ASSUME OneConnection, TypeOK, Occupied, NEW r \in Requests, req[r].at \in Resumed
    PROVE  /\ \A q \in Requests \ {r} : req[q].at \notin Resumed
           /\ \A s \in Syncs : ~snap[s].read
BY SessionsAssumption DEF OneConnection, TypeOK, Occupied

LEMMA SyncIsAlone ==
    ASSUME OneConnection, TypeOK, Occupied, NEW s \in Syncs, snap[s].read
    PROVE  /\ \A r \in Requests : req[r].at \notin Resumed
           /\ \A u \in Syncs \ {s} : ~snap[u].read
BY SessionsAssumption DEF OneConnection, TypeOK, Occupied

(* How each kind of step moves the request it belongs to *)
LEMMA GotoMoves ==
    ASSUME TypeOK, NEW r \in Requests, NEW at, Goto(r, at)
    PROVE  /\ req'[r].at = at /\ req'[r].tok = req[r].tok
           /\ \A q \in Requests \ {r} : req'[q] = req[q]
BY DEF TypeOK, Goto

LEMMA FinishMoves ==
    ASSUME TypeOK, NEW r \in Requests, Finish(r)
    PROVE  /\ req'[r].at = "idle"
           /\ \A q \in Requests \ {r} : req'[q] = req[q]
BY DEF TypeOK, Finish, NoRequest

LEMMA StartMoves ==
    ASSUME TypeOK, NEW r \in Requests, NEW at, NEW t,
           req' = [req EXCEPT ![r] = [at |-> at, tok |-> t]]
    PROVE  /\ req'[r].at = at /\ req'[r].tok = t
           /\ \A q \in Requests \ {r} : req'[q] = req[q]
BY DEF TypeOK

-----------------------------------------------------------------------------
LEMMA OccupiedKept ==
    ASSUME OneConnection, TypeOK, Occupied, [Next]_vars
    PROVE  Occupied'
<1>1. ASSUME NEW r \in Requests, NEW kind \in Kinds, NEW t \in Tokens, Login(r, kind, t)
      PROVE  Occupied'
  BY <1>1, StartMoves, SessionsAssumption DEF Login, Occupied, Resumed
<1>2. ASSUME NEW r \in Requests, create_session(r)
      PROVE  Occupied'
  BY <1>2, IdleMeansAlone, GotoMoves, FinishMoves
     DEF create_session, Occupied, Occupy, HasIdle, TypeOK, Resumed
<1>3. ASSUME NEW r \in Requests, Resume(r)
      PROVE  Occupied'
  BY <1>3, ResumedIsAlone, FinishMoves
     DEF Resume, AnswerLogin, AnswerLogout, AnswerRefresh, Occupied, Resumed, clients
<1>4. ASSUME NEW r \in Requests, NEW t \in Tokens,
             NEW to \in {"mismatch", "logout", "refresh"}, Admit(r, t, to)
      PROVE  Occupied'
  BY <1>4, StartMoves DEF Admit, Occupied, Resumed
<1>5. ASSUME NEW r \in Requests, Mismatch(r)
      PROVE  Occupied'
  BY <1>5, FinishMoves DEF Mismatch, Occupied, Resumed
<1>6. ASSUME NEW r \in Requests, delete_session(r)
      PROVE  Occupied'
  BY <1>6, IdleMeansAlone, GotoMoves
     DEF delete_session, Occupied, Occupy, HasIdle, TypeOK, Resumed
<1>7. ASSUME NEW r \in Requests, RefreshLookup(r)
      PROVE  Occupied'
  BY <1>7, GotoMoves, FinishMoves DEF RefreshLookup, Occupied, Resumed
<1>8. ASSUME NEW r \in Requests, refresh_session(r)
      PROVE  Occupied'
  BY <1>8, IdleMeansAlone, GotoMoves, FinishMoves
     DEF refresh_session, Occupied, Occupy, HasIdle, TypeOK, Resumed
<1>9. ASSUME NEW s \in Syncs, SyncSelect(s)
      PROVE  Occupied'
  BY <1>9, IdleMeansAlone DEF SyncSelect, Occupied, Occupy, HasIdle, TypeOK
<1>10. ASSUME NEW s \in Syncs, SyncInstall(s)
       PROVE  Occupied'
  BY <1>10, SyncIsAlone DEF SyncInstall, Occupied, TypeOK, NoSnap
<1>11. CASE Crash
  BY <1>11 DEF Crash, Occupied, Resumed, NoRequest, NoSnap
<1>12. CASE Cleanup \/ (\E t \in Tokens : Expire(t)) \/ UNCHANGED vars
  BY <1>12 DEF Cleanup, Expire, vars, Occupied
<1> QED
  BY <1>1, <1>2, <1>3, <1>4, <1>5, <1>6, <1>7, <1>8, <1>9, <1>10, <1>11, <1>12
     DEF Next, Step, Sync

LEMMA OwnershipKept ==
    ASSUME TypeOK, Ownership, [Next]_vars
    PROVE  Ownership'
<1>1. ASSUME NEW r \in Requests, NEW kind \in Kinds, NEW t \in Tokens, Login(r, kind, t)
      PROVE  Ownership'
  BY <1>1, StartMoves, SessionsAssumption DEF Login, Ownership, Fresh, TypeOK, clients
<1>2. ASSUME NEW r \in Requests, create_session(r)
      PROVE  Ownership'
  BY <1>2, GotoMoves, FinishMoves DEF create_session, Ownership, Fresh, clients
<1>3. ASSUME NEW r \in Requests, AnswerLogin(r)
      PROVE  Ownership'
  BY <1>3, FinishMoves DEF AnswerLogin, Ownership, Fresh
<1>4. ASSUME NEW r \in Requests, AnswerLogout(r)
      PROVE  Ownership'
  BY <1>4, FinishMoves DEF AnswerLogout, Ownership, Fresh
<1>5. ASSUME NEW r \in Requests, NEW t \in Tokens,
             NEW to \in {"mismatch", "logout", "refresh"}, Admit(r, t, to)
      PROVE  Ownership'
  BY <1>5, StartMoves DEF Admit, Ownership, Fresh, clients
<1>6. ASSUME NEW r \in Requests, Mismatch(r) \/ AnswerRefresh(r)
      PROVE  Ownership'
  BY <1>6, FinishMoves DEF Mismatch, AnswerRefresh, Ownership, Fresh, clients
<1>7. ASSUME NEW r \in Requests, delete_session(r)
      PROVE  Ownership'
  BY <1>7, GotoMoves DEF delete_session, Ownership, Fresh, clients
<1>8. ASSUME NEW r \in Requests, RefreshLookup(r) \/ refresh_session(r)
      PROVE  Ownership'
  BY <1>8, GotoMoves, FinishMoves
     DEF RefreshLookup, refresh_session, Ownership, Fresh, clients
<1>9. CASE Crash
  BY <1>9 DEF Crash, Ownership, Fresh, NoRequest, clients
<1>10. CASE (\E s \in Syncs : Sync(s)) \/ Cleanup \/ (\E t \in Tokens : Expire(t))
              \/ UNCHANGED vars
  BY <1>10 DEF Sync, SyncSelect, SyncInstall, Cleanup, Expire, vars, Ownership, clients
<1> QED
  BY <1>1, <1>2, <1>3, <1>4, <1>5, <1>6, <1>7, <1>8, <1>9, <1>10 DEF Next, Step, Resume

(* A statement that changes rows runs on an idle connection, when no        *)
(* coroutine is acting on what it learnt; the clock only expires rows.      *)
LEMMA NotStaleKept ==
    ASSUME OneConnection, TypeOK, Occupied, NotStale, [Next]_vars
    PROVE  NotStale'
<1>1. ASSUME NEW r \in Requests, NEW kind \in Kinds, NEW t \in Tokens, Login(r, kind, t)
      PROVE  NotStale'
  BY <1>1, StartMoves, SessionsAssumption DEF Login, NotStale
<1>2. ASSUME NEW r \in Requests, create_session(r)
      PROVE  NotStale'
  BY <1>2, IdleMeansAlone, GotoMoves, FinishMoves
     DEF create_session, NotStale, Occupy, HasIdle, Resumed
<1>3. ASSUME NEW r \in Requests, Resume(r)
      PROVE  NotStale'
  BY <1>3, ResumedIsAlone, FinishMoves
     DEF Resume, AnswerLogin, AnswerLogout, AnswerRefresh, NotStale, Resumed, clients
<1>4. ASSUME NEW r \in Requests, NEW t \in Tokens,
             NEW to \in {"mismatch", "logout", "refresh"}, Admit(r, t, to)
      PROVE  NotStale'
  BY <1>4, StartMoves DEF Admit, NotStale
<1>5. ASSUME NEW r \in Requests, Mismatch(r)
      PROVE  NotStale'
  BY <1>5, IdleMeansAlone, FinishMoves DEF Mismatch, NotStale, Resumed
<1>6. ASSUME NEW r \in Requests, delete_session(r)
      PROVE  NotStale'
  BY <1>6, IdleMeansAlone, GotoMoves
     DEF delete_session, NotStale, Occupy, HasIdle, Resumed
<1>7. ASSUME NEW r \in Requests, RefreshLookup(r)
      PROVE  NotStale'
  BY <1>7, GotoMoves, FinishMoves DEF RefreshLookup, NotStale
<1>8. ASSUME NEW r \in Requests, refresh_session(r)
      PROVE  NotStale'
  <2>1. /\ \A q \in Requests : req[q].at \notin Resumed
        /\ \A s \in Syncs : ~snap'[s].read
    BY <1>8, IdleMeansAlone DEF refresh_session, Occupy, HasIdle
  <2>2. req'[r].at = "reput" => rows'[req'[r].tok] # "absent"
    BY <1>8, GotoMoves, FinishMoves DEF refresh_session, TypeOK
  <2>3. \A q \in Requests \ {r} : req'[q] = req[q]
    BY <1>8, GotoMoves, FinishMoves DEF refresh_session
  <2> QED
    BY <2>1, <2>2, <2>3 DEF NotStale, Resumed
<1>9. ASSUME NEW s \in Syncs, SyncSelect(s)
      PROVE  NotStale'
  BY <1>9, IdleMeansAlone DEF SyncSelect, NotStale, Occupy, HasIdle, TypeOK, Resumed, Live
<1>10. ASSUME NEW s \in Syncs, SyncInstall(s)
       PROVE  NotStale'
  BY <1>10 DEF SyncInstall, NotStale, TypeOK, NoSnap
<1>11. CASE Crash
  BY <1>11 DEF Crash, NotStale, NoRequest, NoSnap
<1>12. CASE Cleanup
  BY <1>12, IdleMeansAlone DEF Cleanup, NotStale, Resumed
<1>13. CASE (\E t \in Tokens : Expire(t)) \/ UNCHANGED vars
  BY <1>13 DEF Expire, vars, NotStale, TypeOK
<1> QED
  BY <1>1, <1>2, <1>3, <1>4, <1>5, <1>6, <1>7, <1>8, <1>9, <1>10, <1>11, <1>12, <1>13
     DEF Next, Step, Sync

(* A row is created for a token no client holds, and a refresh revives no   *)
(* row that is gone: a deleted row stays deleted.                           *)
LEMMA EndedHaveNoRowKept ==
    ASSUME DeletesApply, TypeOK, Ownership, EndedHaveNoRow, [Next]_vars
    PROVE  EndedHaveNoRow'
<1>1. ASSUME NEW r \in Requests, NEW kind \in Kinds, NEW t \in Tokens, Login(r, kind, t)
      PROVE  EndedHaveNoRow'
  BY <1>1, StartMoves, SessionsAssumption DEF Login, EndedHaveNoRow, clients
<1>2. ASSUME NEW r \in Requests, create_session(r)
      PROVE  EndedHaveNoRow'
  <2>1. req[r].tok \notin handed
    BY <1>2 DEF create_session, Ownership, Fresh
  <2>2. \A t \in handed : rows'[t] = rows[t]
    BY <1>2, <2>1 DEF create_session, TypeOK
  <2>3. \A q \in Requests : req'[q].at = "remove" => req'[q] = req[q]
    BY <1>2, GotoMoves, FinishMoves DEF create_session
  <2> QED
    BY <1>2, <2>2, <2>3 DEF create_session, EndedHaveNoRow, Ownership, Fresh, clients
<1>3. ASSUME NEW r \in Requests, Resume(r)
      PROVE  EndedHaveNoRow'
  BY <1>3, FinishMoves
     DEF Resume, AnswerLogin, AnswerLogout, AnswerRefresh, EndedHaveNoRow, clients
<1>4. ASSUME NEW r \in Requests, NEW t \in Tokens,
             NEW to \in {"mismatch", "logout", "refresh"}, Admit(r, t, to)
      PROVE  EndedHaveNoRow'
  BY <1>4, StartMoves DEF Admit, EndedHaveNoRow, clients
<1>5. ASSUME NEW r \in Requests, Mismatch(r)
      PROVE  EndedHaveNoRow'
  <2>1. \A t \in Tokens : rows[t] = "absent" => rows'[t] = "absent"
    BY <1>5 DEF Mismatch, delete_row, TypeOK
  <2> QED
    BY <1>5, <2>1, FinishMoves DEF Mismatch, EndedHaveNoRow, TypeOK
<1>6. ASSUME NEW r \in Requests, delete_session(r)
      PROVE  EndedHaveNoRow'
  <2>1. rows' = [rows EXCEPT ![req[r].tok] = "absent"]
    BY <1>6 DEF delete_session, delete_row, Outcomes, DeletesApply
  <2> QED
    BY <1>6, <2>1, GotoMoves DEF delete_session, EndedHaveNoRow, TypeOK, clients
<1>7. ASSUME NEW r \in Requests, RefreshLookup(r)
      PROVE  EndedHaveNoRow'
  BY <1>7, GotoMoves, FinishMoves DEF RefreshLookup, EndedHaveNoRow, clients
<1>8. ASSUME NEW r \in Requests, refresh_session(r)
      PROVE  EndedHaveNoRow'
  <2>1. \A t \in Tokens : rows[t] = "absent" => rows'[t] = "absent"
    BY <1>8 DEF refresh_session, TypeOK
  <2>2. \A q \in Requests : req'[q].at = "remove" => req'[q] = req[q]
    BY <1>8, GotoMoves, FinishMoves DEF refresh_session
  <2> QED
    BY <1>8, <2>1, <2>2 DEF refresh_session, EndedHaveNoRow, TypeOK, clients
<1>9. CASE Crash
  BY <1>9 DEF Crash, EndedHaveNoRow, NoRequest, clients
<1>10. CASE Cleanup \/ (\E t \in Tokens : Expire(t))
  <2>1. \A t \in Tokens : rows[t] = "absent" => rows'[t] = "absent"
    BY <1>10 DEF Cleanup, Expire, TypeOK
  <2> QED
    BY <1>10, <2>1 DEF Cleanup, Expire, EndedHaveNoRow, TypeOK, clients
<1>11. CASE (\E s \in Syncs : Sync(s)) \/ UNCHANGED vars
  BY <1>11 DEF Sync, SyncSelect, SyncInstall, vars, EndedHaveNoRow, clients
<1> QED
  BY <1>1, <1>2, <1>3, <1>4, <1>5, <1>6, <1>7, <1>8, <1>9, <1>10, <1>11 DEF Next, Step

(* What enters the cache has a row, or is a login's own token. *)
LEMMA LogoutIsFinalKept ==
    ASSUME TypeOK, Ownership, NotStale, EndedHaveNoRow, LogoutIsFinal, [Next]_vars
    PROVE  LogoutIsFinal'
<1>1. ASSUME NEW r \in Requests, AnswerLogin(r)
      PROVE  LogoutIsFinal'
  BY <1>1 DEF AnswerLogin, put_session, LogoutIsFinal, Ownership, Fresh
<1>2. ASSUME NEW r \in Requests, AnswerLogout(r)
      PROVE  LogoutIsFinal'
  BY <1>2 DEF AnswerLogout, remove_session, LogoutIsFinal
<1>3. ASSUME NEW r \in Requests, AnswerRefresh(r)
      PROVE  LogoutIsFinal'
  BY <1>3 DEF AnswerRefresh, put_session, LogoutIsFinal, NotStale, EndedHaveNoRow, clients
<1>4. ASSUME NEW s \in Syncs, SyncInstall(s)
      PROVE  LogoutIsFinal'
  BY <1>4 DEF SyncInstall, LogoutIsFinal, NotStale, EndedHaveNoRow, clients
<1>5. CASE Crash
  BY <1>5 DEF Crash, LogoutIsFinal
<1>6. CASE UNCHANGED <<cache, ended>>
  BY <1>6 DEF LogoutIsFinal
<1>7. ASSUME NEW r \in Requests, Step(r), ~Resume(r)
      PROVE  UNCHANGED <<cache, ended>>
  BY <1>7 DEF Step, Login, create_session, Admit, Mismatch, delete_session, RefreshLookup,
              refresh_session, clients
<1>8. CASE (\E s \in Syncs : SyncSelect(s)) \/ Cleanup \/ (\E t \in Tokens : Expire(t))
             \/ UNCHANGED vars
  BY <1>6, <1>8 DEF SyncSelect, Cleanup, Expire, vars, clients
<1> QED
  BY <1>1, <1>2, <1>3, <1>4, <1>5, <1>6, <1>7, <1>8 DEF Next, Resume, Sync

LEMMA LogoutInvInductive ==
    ASSUME OneConnection, DeletesApply
    PROVE  /\ Init => LogoutInv
           /\ LogoutInv /\ [Next]_vars => LogoutInv'
<1>1. Init => LogoutInv
  BY InitType DEF Init, LogoutInv, Occupied, Ownership, NotStale, EndedHaveNoRow,
                  LogoutIsFinal, NoRequest, NoSnap, Resumed, Fresh
<1>2. LogoutInv /\ [Next]_vars => LogoutInv'
  BY NextType, OccupiedKept, OwnershipKept, NotStaleKept, EndedHaveNoRowKept,
     LogoutIsFinalKept DEF LogoutInv
<1> QED
  BY <1>1, <1>2

(* With one connection and deletes that take effect, a session is over when *)
(* its logout is answered: however many requests, synchronisations and      *)
(* restarts there are, its token never opens the door again.                *)
THEOREM LogoutFinal ==
    ASSUME OneConnection, DeletesApply
    PROVE  Spec => []LogoutIsFinal
<1>1. Init => LogoutInv
  BY LogoutInvInductive
<1>2. LogoutInv /\ [Next]_vars => LogoutInv'
  BY LogoutInvInductive
<1>3. LogoutInv => LogoutIsFinal
  BY DEF LogoutInv
<1> QED
  BY <1>1, <1>2, <1>3, PTL DEF Spec

(* With any number of connections, a logged-out session keeps no row: a     *)
(* refresh that was admitted before the logout finds nothing to extend.     *)
THEOREM EndedDeleted ==
    ASSUME DeletesApply
    PROVE  Spec => []EndedStayDeleted
<1> DEFINE I == TypeOK /\ Ownership /\ EndedHaveNoRow
<1>1. Init => I
  BY InitType DEF Init, Ownership, EndedHaveNoRow, NoRequest, Fresh
<1>2. I /\ [Next]_vars => I'
  BY NextType, OwnershipKept, EndedHaveNoRowKept
<1>3. I => EndedStayDeleted
  BY DEF EndedHaveNoRow, EndedStayDeleted
<1> QED
  BY <1>1, <1>2, <1>3, PTL DEF Spec

(* Under the same assumptions every synchronisation leaves only entries     *)
(* that have a row: dead entries last one period at most.                   *)
THEOREM SyncEvicts ==
    ASSUME OneConnection, DeletesApply
    PROVE  Spec => SyncEvictsDead
<1>1. Init => LogoutInv
  BY LogoutInvInductive
<1>2. LogoutInv /\ [Next]_vars => LogoutInv'
  BY LogoutInvInductive
<1>3. LogoutInv => \A s \in Syncs : SyncInstall(s) => \A t \in cache' : rows[t] # "absent"
  BY DEF LogoutInv, NotStale, SyncInstall
<1>4. LogoutInv /\ [Next]_vars =>
        [\A s \in Syncs : SyncInstall(s) => \A t \in cache' : rows[t] # "absent"]_vars
  BY <1>3
<1> QED
  BY <1>1, <1>2, <1>4, PTL DEF Spec, SyncEvictsDead

-----------------------------------------------------------------------------
(* The refinement: every step is a step of SessionGate or changes neither   *)
(* the cache nor the set of ended tokens.                                   *)

LEMMA GateStep ==
    ASSUME LogoutInv, LogoutInv', [Next]_vars
    PROVE  [Gate!Next]_(Gate!vars)
<1> USE DEF Gate!Next, Gate!Change, Gate!Logout, Gate!vars
<1>1. ASSUME UNCHANGED ended
      PROVE  [Gate!Next]_(Gate!vars)
  <2>1. cache' \in SUBSET Tokens /\ cache' \cap ended = {}
    BY <1>1 DEF LogoutInv, TypeOK, LogoutIsFinal
  <2> QED
    BY <1>1, <2>1
<1>2. ASSUME NEW r \in Requests, AnswerLogout(r)
      PROVE  [Gate!Next]_(Gate!vars)
  <2>1. req[r].tok \in Tokens
    BY <1>2 DEF LogoutInv, TypeOK, AnswerLogout
  <2> QED
    BY <1>2, <2>1 DEF AnswerLogout, remove_session
<1>3. ASSUME NEW r \in Requests, Step(r), ~AnswerLogout(r)
      PROVE  UNCHANGED ended
  BY <1>3 DEF Step, Login, create_session, Admit, Mismatch, delete_session, RefreshLookup,
              refresh_session, Resume, AnswerLogin, AnswerRefresh, clients
<1>4. CASE (\E s \in Syncs : Sync(s)) \/ Cleanup \/ (\E t \in Tokens : Expire(t))
             \/ Crash \/ UNCHANGED vars
  <2>1. UNCHANGED ended
    BY <1>4 DEF Sync, SyncSelect, SyncInstall, Cleanup, Expire, Crash, vars, clients
  <2> QED
    BY <1>1, <2>1
<1> QED
  BY <1>1, <1>2, <1>3, <1>4 DEF Next

(* The cache, seen as a door, keeps the promise of SessionGate: a logout    *)
(* shuts it in the one step that answers it, and it stays shut.             *)
THEOREM GateRefined ==
    ASSUME OneConnection, DeletesApply
    PROVE  Spec => GateSpec
<1>1. Init => LogoutInv
  BY LogoutInvInductive
<1>2. LogoutInv /\ [Next]_vars => LogoutInv'
  BY LogoutInvInductive
<1>3. Init => Gate!Init
  BY DEF Init, Gate!Init
<1>4. LogoutInv /\ LogoutInv' /\ [Next]_vars => [Gate!Next]_(Gate!vars)
  BY GateStep
<1> QED
  BY <1>1, <1>2, <1>3, <1>4, PTL DEF Spec, GateSpec, Gate!Spec

-----------------------------------------------------------------------------
(* Live sessions are cached *)

(* Between the SELECT and the installation rows only expire. *)
LEMMA SnapshotsCompleteKept ==
    ASSUME OneConnection, LogoutInv, SnapshotsComplete, [Next]_vars
    PROVE  SnapshotsComplete'
<1> USE DEF LogoutInv
<1>1. ASSUME NEW r \in Requests, Step(r), HasIdle
      PROVE  SnapshotsComplete'
  <2>1. \A s \in Syncs : ~snap'[s].read
    BY <1>1, IdleMeansAlone
       DEF Step, Login, create_session, Admit, Mismatch, delete_session, RefreshLookup,
           refresh_session, Resume, AnswerLogin, AnswerLogout, AnswerRefresh
  <2> QED
    BY <2>1 DEF SnapshotsComplete
<1>2. ASSUME NEW r \in Requests, Step(r), ~HasIdle
      PROVE  UNCHANGED <<rows, snap>>
  BY <1>2 DEF Step, Login, create_session, Admit, Mismatch, delete_session, RefreshLookup,
              refresh_session, Resume, AnswerLogin, AnswerLogout, AnswerRefresh, Occupy,
              HasIdle
<1>3. ASSUME NEW s \in Syncs, SyncSelect(s)
      PROVE  SnapshotsComplete'
  BY <1>3, IdleMeansAlone DEF SyncSelect, SnapshotsComplete, Occupy, HasIdle, TypeOK, Live
<1>4. ASSUME NEW s \in Syncs, SyncInstall(s)
      PROVE  SnapshotsComplete'
  BY <1>4, SyncIsAlone DEF SyncInstall, SnapshotsComplete, TypeOK, NoSnap
<1>5. CASE Cleanup
  BY <1>5, IdleMeansAlone DEF Cleanup, SnapshotsComplete
<1>6. CASE \E t \in Tokens : Expire(t)
  BY <1>6 DEF Expire, SnapshotsComplete, TypeOK, Live
<1>7. CASE Crash
  BY <1>7 DEF Crash, SnapshotsComplete, NoSnap
<1>8. CASE UNCHANGED <<rows, snap>>
  BY <1>8 DEF SnapshotsComplete, Live
<1> QED
  BY <1>1, <1>2, <1>3, <1>4, <1>5, <1>6, <1>7, <1>8 DEF Next, Sync, vars

(* A row becomes live only in the statement of a login or a refresh, whose  *)
(* handler then holds its token until it has put it in the cache.           *)
LEMMA LiveCachedKept ==
    ASSUME NoLostWrites, LogoutInv, SnapshotsComplete, LiveSessionsAreCached, [Next]_vars
    PROVE  LiveSessionsAreCached'
<1> DEFINE Cached(t) == \/ t \in cache
                        \/ \E r \in Requests : /\ req[r].tok = t
                                               /\ req[r].at \in {"answer", "reput"}
<1> USE DEF LogoutInv
<1>1. ASSUME NEW r \in Requests, NEW kind \in Kinds, NEW t \in Tokens, Login(r, kind, t)
      PROVE  LiveSessionsAreCached'
  BY <1>1, StartMoves DEF Login, LiveSessionsAreCached, Live
<1>2. ASSUME NEW r \in Requests, create_session(r)
      PROVE  LiveSessionsAreCached'
  <2>1. \A t \in Tokens : rows'[t] = "live" =>
            rows[t] = "live" \/ (t = req[r].tok /\ Goto(r, "answer"))
    BY <1>2 DEF create_session, TypeOK, Outcomes, NoLostWrites
  <2>2. \A t \in Tokens : Cached(t) => Cached(t)'
    BY <1>2, GotoMoves, FinishMoves DEF create_session
  <2>3. \A t \in Tokens : t = req[r].tok /\ Goto(r, "answer") => Cached(t)'
    BY GotoMoves
  <2> QED
    BY <1>2, <2>1, <2>2, <2>3 DEF create_session, LiveSessionsAreCached, Live
<1>3. ASSUME NEW r \in Requests, AnswerLogin(r) \/ AnswerRefresh(r)
      PROVE  LiveSessionsAreCached'
  <2>1. \A t \in Tokens : Cached(t) => Cached(t)'
    BY <1>3, FinishMoves DEF AnswerLogin, AnswerRefresh, put_session
  <2>2. UNCHANGED <<rows, synced>>
    BY <1>3 DEF AnswerLogin, AnswerRefresh
  <2> QED
    BY <2>1, <2>2 DEF LiveSessionsAreCached, Live
<1>4. ASSUME NEW r \in Requests, AnswerLogout(r)
      PROVE  LiveSessionsAreCached'
  <2>1. rows[req[r].tok] = "absent"
    BY <1>4 DEF AnswerLogout, EndedHaveNoRow
  <2>2. \A t \in Tokens : Cached(t) /\ t # req[r].tok => Cached(t)'
    BY <1>4, FinishMoves DEF AnswerLogout, remove_session
  <2> QED
    BY <1>4, <2>1, <2>2 DEF AnswerLogout, LiveSessionsAreCached, Live
<1>5. ASSUME NEW r \in Requests, NEW t \in Tokens,
             NEW to \in {"mismatch", "logout", "refresh"}, Admit(r, t, to)
      PROVE  LiveSessionsAreCached'
  BY <1>5, StartMoves DEF Admit, LiveSessionsAreCached, Live
<1>6. ASSUME NEW r \in Requests, Mismatch(r) \/ delete_session(r)
      PROVE  LiveSessionsAreCached'
  <2>1. \A t \in Tokens : rows'[t] = "live" => rows[t] = "live"
    BY <1>6 DEF Mismatch, delete_session, delete_row, TypeOK
  <2>2. \A t \in Tokens : Cached(t) => Cached(t)'
    BY <1>6, GotoMoves, FinishMoves DEF Mismatch, delete_session
  <2> QED
    BY <1>6, <2>1, <2>2 DEF Mismatch, delete_session, LiveSessionsAreCached, Live
<1>7. ASSUME NEW r \in Requests, RefreshLookup(r)
      PROVE  LiveSessionsAreCached'
  BY <1>7, GotoMoves, FinishMoves DEF RefreshLookup, LiveSessionsAreCached, Live
<1>8. ASSUME NEW r \in Requests, refresh_session(r)
      PROVE  LiveSessionsAreCached'
  <2>1. \A t \in Tokens : rows'[t] = "live" =>
            rows[t] = "live" \/ (t = req[r].tok /\ Goto(r, "reput"))
    BY <1>8 DEF refresh_session, TypeOK, Outcomes, NoLostWrites
  <2>2. \A t \in Tokens : Cached(t) => Cached(t)'
    BY <1>8, GotoMoves, FinishMoves DEF refresh_session
  <2>3. \A t \in Tokens : t = req[r].tok /\ Goto(r, "reput") => Cached(t)'
    BY GotoMoves
  <2> QED
    BY <1>8, <2>1, <2>2, <2>3 DEF refresh_session, LiveSessionsAreCached, Live
<1>9. ASSUME NEW s \in Syncs, SyncInstall(s)
      PROVE  LiveSessionsAreCached'
  BY <1>9 DEF SyncInstall, SnapshotsComplete, LiveSessionsAreCached, Live
<1>10. CASE Crash
  BY <1>10 DEF Crash, LiveSessionsAreCached
<1>11. CASE (\E s \in Syncs : SyncSelect(s)) \/ UNCHANGED vars
  <2>1. UNCHANGED <<rows, cache, req, synced>>
    BY <1>11 DEF SyncSelect, vars
  <2> QED
    BY <2>1 DEF LiveSessionsAreCached, Live
<1>12. CASE Cleanup \/ (\E t \in Tokens : Expire(t))
  <2>1. \A t \in Tokens : rows'[t] = "live" => rows[t] = "live"
    BY <1>12 DEF Cleanup, Expire, TypeOK
  <2>2. UNCHANGED <<cache, req, synced>>
    BY <1>12 DEF Cleanup, Expire
  <2> QED
    BY <2>1, <2>2 DEF LiveSessionsAreCached, Live
<1> QED
  BY <1>1, <1>2, <1>3, <1>4, <1>5, <1>6, <1>7, <1>8, <1>9, <1>10, <1>11, <1>12
     DEF Next, Step, Resume, Sync

(* With one connection, deletes that take effect and no write whose answer  *)
(* is lost, a valid session is never locked out once the first              *)
(* synchronisation is through: no synchronisation drops a login or a        *)
(* refresh that ran beside it.                                              *)
THEOREM LiveCached ==
    ASSUME OneConnection, DeletesApply, NoLostWrites
    PROVE  Spec => []LiveSessionsAreCached
<1>1. Init => CachedInv
  <2> SUFFICES ASSUME Init PROVE CachedInv
    OBVIOUS
  <2>1. LogoutInv
    BY LogoutInvInductive
  <2>2. SnapshotsComplete /\ LiveSessionsAreCached
    BY DEF Init, SnapshotsComplete, LiveSessionsAreCached, NoSnap
  <2> QED
    BY <2>1, <2>2 DEF CachedInv
<1>2. CachedInv /\ [Next]_vars => CachedInv'
  BY LogoutInvInductive, SnapshotsCompleteKept, LiveCachedKept DEF CachedInv
<1>3. CachedInv => LiveSessionsAreCached
  BY DEF CachedInv
<1> QED
  BY <1>1, <1>2, <1>3, PTL DEF Spec

-----------------------------------------------------------------------------
(* What clients are handed *)

OnlyPasswords == "login_totp" \notin Kinds

(* A login that is about to answer has its row, and every login came by     *)
(* password.                                                                *)
AnswersStored ==
    \A r \in Requests : /\ req[r].at = "answer" => rows[req[r].tok] # "absent"
                        /\ req[r].at # "login_totp"

StoredInv == TypeOK /\ Occupied /\ AnswersStored

(* Only a statement takes a row away, and none runs while a login answers.  *)
LEMMA AnswersStoredKept ==
    ASSUME OneConnection, OnlyPasswords, StoredInv, [Next]_vars
    PROVE  AnswersStored'
<1> USE DEF StoredInv
<1>1. ASSUME NEW r \in Requests, NEW kind \in Kinds, NEW t \in Tokens, Login(r, kind, t)
      PROVE  AnswersStored'
  <2>1. kind = "login"
    BY SessionsAssumption DEF OnlyPasswords
  <2> QED
    BY <1>1, <2>1, StartMoves DEF Login, AnswersStored
<1>2. ASSUME NEW r \in Requests, create_session(r)
      PROVE  AnswersStored'
  <2>1. \A q \in Requests : req[q].at # "answer"
    BY <1>2, IdleMeansAlone DEF create_session, Occupy, HasIdle, Resumed
  <2>2. \A q \in Requests \ {r} : req'[q] = req[q]
    BY <1>2, GotoMoves, FinishMoves DEF create_session
  <2>3. req'[r].at # "login_totp"
    BY <1>2, GotoMoves, FinishMoves DEF create_session
  <2>4. req'[r].at = "answer" => rows'[req'[r].tok] # "absent"
    <3> SUFFICES ASSUME req'[r].at = "answer" PROVE rows'[req'[r].tok] # "absent"
      OBVIOUS
    <3>1. req[r].at = "login" /\ req[r].tok \in Tokens
      BY <1>2 DEF create_session, AnswersStored, TypeOK
    <3>2. Goto(r, "answer") /\ rows' = [rows EXCEPT ![req[r].tok] = "live"]
      BY <1>2, <3>1, FinishMoves DEF create_session
    <3> QED
      BY <3>1, <3>2, GotoMoves DEF TypeOK
  <2> QED
    BY <2>1, <2>2, <2>3, <2>4 DEF AnswersStored
<1>3. ASSUME NEW r \in Requests, Resume(r)
      PROVE  AnswersStored'
  BY <1>3, FinishMoves
     DEF Resume, AnswerLogin, AnswerLogout, AnswerRefresh, AnswersStored
<1>4. ASSUME NEW r \in Requests, NEW t \in Tokens,
             NEW to \in {"mismatch", "logout", "refresh"}, Admit(r, t, to)
      PROVE  AnswersStored'
  BY <1>4, StartMoves DEF Admit, AnswersStored
<1>5. ASSUME NEW r \in Requests, Mismatch(r) \/ delete_session(r) \/ refresh_session(r)
      PROVE  AnswersStored'
  <2>1. \A q \in Requests : req[q].at # "answer"
    BY <1>5, IdleMeansAlone
       DEF Mismatch, delete_session, refresh_session, Occupy, HasIdle, Resumed
  <2>2. /\ req'[r].at \in {"idle", "remove", "reput"}
        /\ \A q \in Requests \ {r} : req'[q] = req[q]
    BY <1>5, GotoMoves, FinishMoves DEF Mismatch, delete_session, refresh_session
  <2> QED
    BY <2>1, <2>2 DEF AnswersStored
<1>6. ASSUME NEW r \in Requests, RefreshLookup(r)
      PROVE  AnswersStored'
  BY <1>6, GotoMoves, FinishMoves DEF RefreshLookup, AnswersStored
<1>7. CASE Cleanup
  <2>1. \A q \in Requests : req[q].at # "answer"
    BY <1>7, IdleMeansAlone DEF Cleanup, Resumed
  <2> QED
    BY <1>7, <2>1 DEF Cleanup, AnswersStored
<1>8. CASE \E t \in Tokens : Expire(t)
  BY <1>8 DEF Expire, AnswersStored, TypeOK
<1>9. CASE Crash
  BY <1>9 DEF Crash, AnswersStored, NoRequest
<1>10. CASE (\E s \in Syncs : Sync(s)) \/ UNCHANGED vars
  BY <1>10 DEF Sync, SyncSelect, SyncInstall, vars, AnswersStored
<1> QED
  BY <1>1, <1>2, <1>3, <1>4, <1>5, <1>6, <1>7, <1>8, <1>9, <1>10 DEF Next, Step

(* With one connection and no login by code, a client is never handed the   *)
(* cookie of a session without a row: login looks at the INSERT's result,   *)
(* and nothing can delete the row before it answers.                        *)
THEOREM HandedStored ==
    ASSUME OneConnection, OnlyPasswords
    PROVE  Spec => HandedOutIsStored
<1>1. Init => StoredInv
  BY InitType DEF Init, StoredInv, Occupied, AnswersStored, NoRequest, NoSnap, Resumed
<1>2. StoredInv /\ [Next]_vars => StoredInv'
  BY NextType, OccupiedKept, AnswersStoredKept DEF StoredInv
<1>3. ASSUME StoredInv, Next, NEW t \in Tokens, t \in handed' \ handed
      PROVE  rows[t] # "absent"
  <2>1. PICK r \in Requests : AnswerLogin(r)
    BY <1>3 DEF Next, Step, Resume, Login, create_session, Admit, Mismatch, delete_session,
                RefreshLookup, refresh_session, AnswerLogout, AnswerRefresh, Sync, SyncSelect,
                SyncInstall, Cleanup, Expire, Crash, clients
  <2> QED
    BY <1>3, <2>1 DEF AnswerLogin, StoredInv, AnswersStored
<1>4. StoredInv /\ [Next]_vars =>
        [\A t \in Tokens : t \in handed' \ handed => rows[t] # "absent"]_vars
  BY <1>3
<1> QED
  BY <1>1, <1>2, <1>4, PTL DEF Spec, HandedOutIsStored
=============================================================================
