-------------------------- MODULE UserStatusProofs --------------------------
(***************************************************************************)
(* Theorems about RoleCache and UserStatus.                                *)
(*                                                                         *)
(* RoleCache on one connection, for any roles, checks, updates and any     *)
(* number of changes.  The argument: whoever has read or committed and not *)
(* yet answered occupies the only connection, so no update commits between *)
(* a check's SELECT and its store, and no check reads between an update's  *)
(* COMMIT and its invalidation.  When a check looked into the cache does   *)
(* not matter: one that missed long ago reads as late as any other.        *)
(*                                                                         *)
(* What holds of RoleCache holds beside the three handlers of UserStatus,  *)
(* and their answers are ordered for any number of calls and of            *)
(* connections.                                                            *)
(***************************************************************************)
EXTENDS UserStatus, TLAPS

-----------------------------------------------------------------------------
(* RoleCache *)

OneConnection == \E c : Connections = {c}

(* A check that has read, and an update that has committed, works on a      *)
(* connection.                                                              *)
Busy ==
    /\ \A k \in Checks : check[k].at = "read" => \E c \in Connections : conn[c] = k
    /\ \A u \in Updates : update[u].done => \E c \in Connections : conn[c] = u

(* What is answered was committed; what a check has read is not older than  *)
(* what was answered.                                                       *)
Fresh ==
    /\ answered <= version
    /\ \A u \in Updates : update[u].ver <= version
    /\ \A k \in Checks : check[k].at = "read" => check[k].got.ver >= answered

CacheInv == TypeOK /\ Busy /\ Fresh /\ AnsweredUpdateIsSeen

-----------------------------------------------------------------------------
(* Type correctness *)

LEMMA TypeInit == Init => TypeOK
  BY RoleCacheAssumption
     DEF Init, TypeOK, Entries, Missing, NoCheck, NoUpdate

LEMMA MissingIsEntry == Missing \in Entries
  BY RoleCacheAssumption DEF Missing, Entries

LEMMA CheckTypes ==
    ASSUME TypeOK, NEW k \in Checks, has_role(k) \/ get_user_roles(k) \/ StoreRoles(k)
    PROVE  TypeOK'
  <1>1. CASE get_user_roles(k)
    <2>1. PICK roles \in {assigned, {}} :
            check' = [check EXCEPT ![k] = [at |-> "read",
                                           got |-> [roles |-> roles, ver |-> version]]]
      BY <1>1 DEF get_user_roles
    <2>2. [roles |-> roles, ver |-> version] \in Entries
      BY DEF TypeOK, Entries
    <2>3. check' \in [Checks -> [at : {"idle", "missed", "read"}, got : Entries]]
      BY <2>1, <2>2 DEF TypeOK
    <2> QED  BY <1>1, <2>3 DEF get_user_roles, Occupy, TypeOK
  <1>2. CASE StoreRoles(k)
    <2>1. check' \in [Checks -> [at : {"idle", "missed", "read"}, got : Entries]]
      BY <1>2, MissingIsEntry DEF StoreRoles, NoCheck, TypeOK
    <2> QED  BY <1>2, <2>1 DEF StoreRoles, Release, TypeOK
  <1>3. CASE has_role(k)
    BY <1>3 DEF has_role, TypeOK
  <1> QED  BY <1>1, <1>2, <1>3

LEMMA UpdateTypes ==
    ASSUME TypeOK, NEW u \in Updates,
           (\E names \in SUBSET Roles : update_user(u, names)) \/ AnswerUpdate(u)
    PROVE  TypeOK'
  <1>1. ASSUME NEW names \in SUBSET Roles, update_user(u, names)
        PROVE  TypeOK'
    <2>1. version' \in 0..MaxVersion
      BY <1>1, RoleCacheAssumption DEF update_user, TypeOK
    <2>2. update' \in [Updates -> [done : BOOLEAN, ver : 0..MaxVersion]]
      <3>1. update' = update
            \/ update' = [update EXCEPT ![u] = [done |-> TRUE, ver |-> version']]
        BY <1>1 DEF update_user
      <3> DEFINE ver == version'
      <3>2. ver \in 0..MaxVersion  BY <2>1
      <3> HIDE DEF ver
      <3>3. [update EXCEPT ![u] = [done |-> TRUE, ver |-> ver]]
              \in [Updates -> [done : BOOLEAN, ver : 0..MaxVersion]]
        BY <3>2 DEF TypeOK
      <3> QED  BY <3>1, <3>3 DEF ver, TypeOK
    <2> QED  BY <1>1, <2>1, <2>2 DEF update_user, Occupy, TypeOK
  <1>2. CASE AnswerUpdate(u)
    <2>1. update' \in [Updates -> [done : BOOLEAN, ver : 0..MaxVersion]]
      BY <1>2, RoleCacheAssumption DEF AnswerUpdate, NoUpdate, TypeOK
    <2>2. answered' \in 0..MaxVersion
      BY <1>2 DEF AnswerUpdate, TypeOK
    <2> QED  BY <1>2, <2>1, <2>2, MissingIsEntry DEF AnswerUpdate, Release, TypeOK
  <1> QED  BY <1>1, <1>2

LEMMA RoleTypes ==
    ASSUME TypeOK, NEW role \in Roles, NEW name \in Roles,
           create_role(role) \/ delete_role(role) \/ update_role(role, name)
    PROVE  TypeOK'
  BY DEF TypeOK, create_role, delete_role, update_role, InsertRole, DeleteRole, RenameRole

LEMMA TypeNext == ASSUME TypeOK, [Next]_vars PROVE TypeOK'
  <1>1. CASE UNCHANGED vars
    BY <1>1 DEF TypeOK, vars
  <1> QED  BY <1>1, CheckTypes, UpdateTypes, RoleTypes DEF Next

(* Every variable keeps its type; in particular an assigned role exists.    *)
THEOREM TypeCorrect == Spec => []TypeOK
  BY TypeInit, TypeNext, PTL DEF Spec

-----------------------------------------------------------------------------
(* Stale roles *)

LEMMA BusyNext ==
    ASSUME CacheInv, [Next]_vars
    PROVE  Busy'
  <1> USE DEF CacheInv, Busy
  <1>0. /\ check \in [Checks -> [at : {"idle", "missed", "read"}, got : Entries]]
        /\ update \in [Updates -> [done : BOOLEAN, ver : 0..MaxVersion]]
        /\ conn \in [Connections -> Checks \cup Updates \cup {Idle}]
        /\ Idle \notin Checks \cup Updates
        /\ Checks \cap Updates = {}
    BY RoleCacheAssumption DEF TypeOK
  <1>1. ASSUME NEW k \in Checks, get_user_roles(k)
        PROVE  Busy'
    <2>1. PICK c \in Connections : conn[c] = Idle /\ conn' = [conn EXCEPT ![c] = k]
      BY <1>1 DEF get_user_roles, Occupy
    <2>2. update' = update /\ \A j \in Checks \ {k} : check'[j] = check[j]
      BY <1>0, <1>1 DEF get_user_roles
    <2> QED  BY <1>0, <2>1, <2>2
  <1>2. ASSUME NEW k \in Checks, StoreRoles(k)
        PROVE  Busy'
    <2>1. update' = update /\ check' = [check EXCEPT ![k] = NoCheck]
      BY <1>2 DEF StoreRoles
    <2>2. \A c \in Connections : conn'[c] = IF conn[c] = k THEN Idle ELSE conn[c]
      BY <1>2 DEF StoreRoles, Release
    <2> QED  BY <1>0, <2>1, <2>2 DEF NoCheck
  <1>3. ASSUME NEW u \in Updates, NEW names \in SUBSET Roles, update_user(u, names)
        PROVE  Busy'
    <2>0. check' = check  BY <1>3 DEF update_user
    <2>1. CASE UNCHANGED <<conn, update>>
      BY <2>0, <2>1
    <2>2. CASE Occupy(u) /\ update' = [update EXCEPT ![u] = [done |-> TRUE, ver |-> version']]
      <3>1. PICK c \in Connections : conn[c] = Idle /\ conn' = [conn EXCEPT ![c] = u]
        BY <2>2 DEF Occupy
      <3> QED  BY <1>0, <2>0, <2>2, <3>1
    <2> QED  BY <1>3, <2>1, <2>2 DEF update_user
  <1>4. ASSUME NEW u \in Updates, AnswerUpdate(u)
        PROVE  Busy'
    <2>1. check' = check /\ update' = [update EXCEPT ![u] = NoUpdate]
      BY <1>4 DEF AnswerUpdate
    <2>2. \A c \in Connections : conn'[c] = IF conn[c] = u THEN Idle ELSE conn[c]
      BY <1>4 DEF AnswerUpdate, Release
    <2> QED  BY <1>0, <2>1, <2>2 DEF NoUpdate
  <1>5. ASSUME UNCHANGED <<check, update, conn>>
        PROVE  Busy'
    BY <1>5
  <1>6. ASSUME NEW k \in Checks, has_role(k)
        PROVE  Busy'
    <2>1. /\ UNCHANGED <<update, conn>>
          /\ \A j \in Checks : check'[j].at = "read" => check[j].at = "read"
      BY <1>0, <1>6 DEF has_role
    <2> QED  BY <2>1
  <1> QED
    BY <1>1, <1>2, <1>3, <1>4, <1>5, <1>6
       DEF Next, create_role, delete_role, update_role, vars

(* On one connection nothing is read and unstored, or committed and         *)
(* unanswered, while the connection is idle or works for another.           *)
LEMMA Alone ==
    ASSUME OneConnection, CacheInv, NEW x \in Checks \cup Updates,
           NEW c \in Connections, conn[c] \in {Idle, x}
    PROVE  /\ \A k \in Checks \ {x} : check[k].at # "read"
           /\ \A u \in Updates \ {x} : ~update[u].done
  BY RoleCacheAssumption DEF OneConnection, CacheInv, Busy

LEMMA FreshNext ==
    ASSUME OneConnection, CacheInv, [Next]_vars
    PROVE  Fresh' /\ AnsweredUpdateIsSeen'
  <1> USE DEF Fresh, AnsweredUpdateIsSeen
  <1>0. /\ check \in [Checks -> [at : {"idle", "missed", "read"}, got : Entries]]
        /\ update \in [Updates -> [done : BOOLEAN, ver : 0..MaxVersion]]
        /\ version \in Nat /\ answered \in Nat
        /\ Fresh /\ AnsweredUpdateIsSeen
    BY RoleCacheAssumption DEF CacheInv, TypeOK
  <1>1. ASSUME NEW k \in Checks, get_user_roles(k)
        PROVE  Fresh' /\ AnsweredUpdateIsSeen'
    <2>1. /\ check'[k].got.ver = version
          /\ \A j \in Checks \ {k} : check'[j] = check[j]
          /\ UNCHANGED <<version, cached, update, answered>>
      BY <1>0, <1>1 DEF get_user_roles
    <2> QED  BY <1>0, <2>1
  <1>2. ASSUME NEW k \in Checks, StoreRoles(k)
        PROVE  Fresh' /\ AnsweredUpdateIsSeen'
    <2>1. /\ check[k].at = "read" /\ cached' = check[k].got /\ check'[k].at # "read"
          /\ \A j \in Checks \ {k} : check'[j] = check[j]
          /\ UNCHANGED <<version, update, answered>>
      BY <1>0, <1>2 DEF StoreRoles, NoCheck
    <2> QED  BY <1>0, <2>1
  <1>3. ASSUME NEW u \in Updates, NEW names \in SUBSET Roles, update_user(u, names)
        PROVE  Fresh' /\ AnsweredUpdateIsSeen'
    <2>1. /\ version' = version + 1
          /\ UNCHANGED <<cached, check, answered>>
          /\ update'[u].ver \in {version', update[u].ver}
          /\ \A v \in Updates \ {u} : update'[v] = update[v]
      BY <1>0, <1>3 DEF update_user
    <2>2. \A v \in Updates : update[v].ver \in Nat  BY <1>0
    <2> QED  BY <1>0, <2>1, <2>2
  <1>4. ASSUME NEW u \in Updates, AnswerUpdate(u)
        PROVE  Fresh' /\ AnsweredUpdateIsSeen'
    <2>1. /\ update[u].done /\ cached' = Missing
          /\ answered' \in {answered, update[u].ver}
          /\ update' = [update EXCEPT ![u] = NoUpdate]
          /\ UNCHANGED <<version, check>>
      BY <1>4 DEF AnswerUpdate
    <2>2. PICK c \in Connections : conn[c] = u
      BY <2>1 DEF CacheInv, Busy
    <2>3. \A k \in Checks : check[k].at # "read"
      BY <2>2, Alone, RoleCacheAssumption
    <2>4. answered' <= version' /\ \A k \in Checks : check'[k].at # "read"
      BY <1>0, <2>1, <2>3
    <2>5. \A v \in Updates : update'[v].ver <= version'
      BY <1>0, <2>1 DEF NoUpdate
    <2>6. cached'.roles = {}
      BY <2>1 DEF Missing
    <2> QED  BY <2>4, <2>5, <2>6
  <1>5. ASSUME UNCHANGED <<version, cached, check, update, answered>>
        PROVE  Fresh' /\ AnsweredUpdateIsSeen'
    BY <1>0, <1>5
  <1>6. ASSUME NEW k \in Checks, has_role(k)
        PROVE  Fresh' /\ AnsweredUpdateIsSeen'
    <2>1. /\ \A j \in Checks : check'[j].at = "read" => check'[j] = check[j]
          /\ UNCHANGED <<version, cached, update, answered>>
      BY <1>0, <1>6 DEF has_role
    <2> QED  BY <1>0, <2>1
  <1> QED
    BY <1>1, <1>2, <1>3, <1>4, <1>5, <1>6
       DEF Next, create_role, delete_role, update_role, vars

(* On one connection, no role check made after a successful answer to an    *)
(* update of the user's roles decides on an older assignment, however many  *)
(* other checks missed before and read and store between                    *)
(* (rbac_service.cpp has_role).                                             *)
THEOREM UpdatesAreSeen ==
    ASSUME OneConnection
    PROVE  Spec => []AnsweredUpdateIsSeen
  <1>1. Init => CacheInv
    <2> SUFFICES ASSUME Init PROVE CacheInv
      OBVIOUS
    <2>1. Busy
      BY DEF Init, Busy, NoCheck, NoUpdate
    <2>2. Fresh
      BY DEF Init, Fresh, NoCheck, NoUpdate
    <2>3. AnsweredUpdateIsSeen
      BY DEF Init, AnsweredUpdateIsSeen, Missing
    <2> QED  BY <2>1, <2>2, <2>3, TypeInit DEF CacheInv
  <1>2. CacheInv /\ [Next]_vars => CacheInv'
    BY TypeNext, BusyNext, FreshNext DEF CacheInv
  <1> QED  BY <1>1, <1>2, PTL DEF Spec, CacheInv

-----------------------------------------------------------------------------
(* RoleCache beside the handlers *)

LEMMA StatusSteps == StatusSpec => Spec
  <1>1. StatusInit => Init
    BY DEF StatusInit
  <1>2. [StatusNext]_statusVars => [Next]_vars
    <2> SUFFICES ASSUME [StatusNext]_statusVars PROVE [Next]_vars
      OBVIOUS
    <2>1. ASSUME NEW r \in Calls, NEW handler, Begin(r, handler)
          PROVE  UNCHANGED vars
      BY <2>1 DEF Begin
    <2>2. ASSUME NEW r \in Calls, \/ get_user_id_by_session(r) \/ find_user_by_id(r)
                                  \/ get_user_permissions(r) \/ get_user_roles_now(r)
          PROVE  UNCHANGED vars
      BY <2>2 DEF get_user_id_by_session, find_user_by_id, get_user_permissions,
                  get_user_roles_now, Statement
    <2>3. ASSUME NEW r \in Calls, StatementFails(r)
          PROVE  UNCHANGED vars
      BY <2>3 DEF StatementFails
    <2>4. ASSUME NEW u \in Updates, NEW names \in SUBSET Roles, NEW active,
                 UpdateRoles(u, names, active)
          PROVE  Next
      BY <2>4 DEF UpdateRoles, Next
    <2>5. ASSUME NEW active, SetActive(active)
          PROVE  UNCHANGED vars
      BY <2>5 DEF SetActive
    <2>6. ASSUME SessionChanges
          PROVE  UNCHANGED vars
      BY <2>6 DEF SessionChanges
    <2>7. ASSUME CacheStep
          PROVE  Next
      BY <2>7 DEF CacheStep, Next
    <2>8. CASE UNCHANGED statusVars
      BY <2>8 DEF statusVars
    <2> QED  BY <2>1, <2>2, <2>3, <2>4, <2>5, <2>6, <2>7, <2>8 DEF StatusNext
  <1> QED  BY <1>1, <1>2, PTL DEF StatusSpec, Spec

(* An answered update of the roles is seen by every later check, whoever    *)
(* else reads and writes the user meanwhile.                                *)
THEOREM StatusUpdatesAreSeen ==
    ASSUME OneConnection
    PROVE  StatusSpec => []AnsweredUpdateIsSeen
  BY StatusSteps, UpdatesAreSeen, PTL

-----------------------------------------------------------------------------
(* Types *)

CallRecords == [handler : Handlers \cup {"none"},
           todo : Seq({"session", "user", "permissions", "roles"}),
           since : 0..MaxVersion, active : BOOLEAN, user : 0..MaxVersion,
           permissions : Entries, roles : Entries,
           answer : {"none", "ok", "unauthenticated", "error"}]

LEMMA TodoTypes ==
    /\ \A handler \in Handlers :
          Statements[handler] \in Seq({"session", "user", "permissions", "roles"})
    /\ <<>> \in Seq({"session", "user", "permissions", "roles"})
    /\ \A s \in Seq({"session", "user", "permissions", "roles"}) :
          s # <<>> => Tail(s) \in Seq({"session", "user", "permissions", "roles"})
  <1>1. Handlers = {"GetUserStatus", "me", "get_all_users"}
    BY DEF Handlers, Statements
  <1> QED  BY <1>1 DEF Statements, GetUserStatus, me, get_all_users

LEMMA EntryTypes ==
    ASSUME TypeOK
    PROVE  /\ Missing \in Entries /\ version \in 0..MaxVersion /\ 0 \in 0..MaxVersion
           /\ [roles |-> assigned, ver |-> version] \in Entries
           /\ [roles |-> {}, ver |-> version] \in Entries
  BY RoleCacheAssumption DEF TypeOK, Entries, Missing

(* Fields of one run replaced one after the other                           *)
LEMMA FieldTypes ==
    ASSUME NEW f \in [Calls -> CallRecords], NEW r \in Calls
    PROVE  /\ \A v \in Seq({"session", "user", "permissions", "roles"}) :
                 [f EXCEPT ![r].todo = v] \in [Calls -> CallRecords]
           /\ \A v \in {"none", "ok", "unauthenticated", "error"} :
                 [f EXCEPT ![r].answer = v] \in [Calls -> CallRecords]
           /\ \A v \in BOOLEAN : [f EXCEPT ![r].active = v] \in [Calls -> CallRecords]
           /\ \A v \in 0..MaxVersion : [f EXCEPT ![r].user = v] \in [Calls -> CallRecords]
           /\ \A v \in Entries : [f EXCEPT ![r].permissions = v] \in [Calls -> CallRecords]
           /\ \A v \in Entries : [f EXCEPT ![r].roles = v] \in [Calls -> CallRecords]
  <1>1. ASSUME NEW v \in Seq({"session", "user", "permissions", "roles"})
        PROVE  [f EXCEPT ![r].todo = v] \in [Calls -> CallRecords]
    <2>1. [f[r] EXCEPT !.todo = v] \in CallRecords
      BY <1>1 DEF CallRecords
    <2> QED  BY <2>1
  <1>2. ASSUME NEW v \in {"none", "ok", "unauthenticated", "error"}
        PROVE  [f EXCEPT ![r].answer = v] \in [Calls -> CallRecords]
    <2>1. [f[r] EXCEPT !.answer = v] \in CallRecords
      BY <1>2 DEF CallRecords
    <2> QED  BY <2>1
  <1>3. ASSUME NEW v \in BOOLEAN
        PROVE  [f EXCEPT ![r].active = v] \in [Calls -> CallRecords]
    <2>1. [f[r] EXCEPT !.active = v] \in CallRecords
      BY <1>3 DEF CallRecords
    <2> QED  BY <2>1
  <1>4. ASSUME NEW v \in 0..MaxVersion
        PROVE  [f EXCEPT ![r].user = v] \in [Calls -> CallRecords]
    <2>1. [f[r] EXCEPT !.user = v] \in CallRecords
      BY <1>4 DEF CallRecords
    <2> QED  BY <2>1
  <1>5. ASSUME NEW v \in Entries
        PROVE  [f EXCEPT ![r].permissions = v] \in [Calls -> CallRecords]
    <2>1. [f[r] EXCEPT !.permissions = v] \in CallRecords
      BY <1>5 DEF CallRecords
    <2> QED  BY <2>1
  <1>6. ASSUME NEW v \in Entries
        PROVE  [f EXCEPT ![r].roles = v] \in [Calls -> CallRecords]
    <2>1. [f[r] EXCEPT !.roles = v] \in CallRecords
      BY <1>6 DEF CallRecords
    <2> QED  BY <2>1
  <1> QED  BY <1>1, <1>2, <1>3, <1>4, <1>5, <1>6

LEMMA NoCallType == ASSUME TypeOK PROVE NoCall \in CallRecords
  BY EntryTypes, TodoTypes DEF NoCall, Called, CallRecords

LEMMA StatusTypeInit == StatusInit => StatusTypeOK
  <1> SUFFICES ASSUME StatusInit PROVE StatusTypeOK
    OBVIOUS
  <1>1. TypeOK
    BY TypeInit DEF StatusInit
  <1>2. call \in [Calls -> CallRecords]
    BY <1>1, NoCallType DEF StatusInit
  <1> QED  BY <1>1, <1>2 DEF StatusInit, StatusTypeOK, CallRecords

-----------------------------------------------------------------------------
(* What one statement does to its run *)

Others(r) == \A q \in Calls \ {r} : call'[q] = call[q]

LEMMA BeginIs ==
    ASSUME StatusTypeOK, NEW r \in Calls, NEW handler \in Handlers, Begin(r, handler)
    PROVE  /\ call' \in [Calls -> CallRecords] /\ Others(r)
           /\ call'[r].todo = Statements[handler] /\ call'[r].since = version
           /\ call'[r].user = 0 /\ call'[r].permissions = Missing /\ call'[r].answer = "none"
  <1> DEFINE new == Called(handler, Statements[handler], version)
  <1>1. new = [handler |-> handler, todo |-> Statements[handler], since |-> version,
               active |-> FALSE, user |-> 0, permissions |-> Missing, roles |-> Missing,
               answer |-> "none"]
    BY DEF Called
  <1>2. call' = [call EXCEPT ![r] = new]
    BY DEF Begin
  <1> HIDE DEF new
  <1>3. new \in CallRecords
    BY <1>1, EntryTypes, TodoTypes DEF CallRecords, StatusTypeOK
  <1>4. call \in [Calls -> CallRecords]
    BY DEF StatusTypeOK, CallRecords
  <1> QED  BY <1>1, <1>2, <1>3, <1>4 DEF Others

LEMMA SessionIs ==
    ASSUME StatusTypeOK, NEW r \in Calls, get_user_id_by_session(r)
    PROVE  /\ call' \in [Calls -> CallRecords] /\ Others(r)
           /\ call[r].todo # <<>> /\ Head(call[r].todo) = "session"
           /\ call'[r].todo \in {Tail(call[r].todo), <<>>}
           /\ call'[r].answer \in {call[r].answer, "unauthenticated"}
           /\ call'[r].since = call[r].since /\ call'[r].user = call[r].user
           /\ call'[r].permissions = call[r].permissions /\ call'[r].roles = call[r].roles
  <1> DEFINE todo == IF live THEN Tail(call[r].todo) ELSE <<>>
             answer == IF live THEN call[r].answer ELSE "unauthenticated"
             mid == [call EXCEPT ![r].todo = todo]
  <1>1. call \in [Calls -> CallRecords] /\ call[r].todo # <<>> /\ Head(call[r].todo) = "session"
    BY DEF StatusTypeOK, CallRecords, get_user_id_by_session, Statement
  <1>2. /\ todo \in Seq({"session", "user", "permissions", "roles"})
        /\ answer \in {"none", "ok", "unauthenticated", "error"}
    BY <1>1, TodoTypes DEF CallRecords
  <1>3. call' = [mid EXCEPT ![r].answer = answer]
    BY DEF get_user_id_by_session
  <1>4. todo \in {Tail(call[r].todo), <<>>} /\ answer \in {call[r].answer, "unauthenticated"}
    OBVIOUS
  <1> HIDE DEF todo, answer
  <1>5. mid \in [Calls -> CallRecords]
    BY <1>1, <1>2, FieldTypes
  <1>6. /\ \A q \in Calls \ {r} : mid[q] = call[q]
        /\ mid[r].todo = todo /\ mid[r].since = call[r].since /\ mid[r].user = call[r].user
        /\ mid[r].permissions = call[r].permissions /\ mid[r].roles = call[r].roles
    BY <1>1 DEF CallRecords
  <1> HIDE DEF mid
  <1>7. call' \in [Calls -> CallRecords]
    BY <1>2, <1>3, <1>5, FieldTypes
  <1> QED  BY <1>1, <1>3, <1>4, <1>5, <1>6, <1>7 DEF CallRecords, Others

LEMMA UserIs ==
    ASSUME StatusTypeOK, NEW r \in Calls, find_user_by_id(r)
    PROVE  /\ call' \in [Calls -> CallRecords] /\ Others(r)
           /\ call[r].todo # <<>> /\ Head(call[r].todo) = "user"
           /\ call'[r].todo = Tail(call[r].todo) /\ call'[r].answer = call[r].answer
           /\ call'[r].since = call[r].since /\ call'[r].user = version
           /\ call'[r].permissions = call[r].permissions /\ call'[r].roles = call[r].roles
  <1> DEFINE mid == [call EXCEPT ![r].todo = Tail(call[r].todo)]
             mid2 == [mid EXCEPT ![r].active = is_active]
  <1>1. call \in [Calls -> CallRecords] /\ call[r].todo # <<>> /\ Head(call[r].todo) = "user"
    BY DEF StatusTypeOK, CallRecords, find_user_by_id, Statement
  <1>2. call' = [mid2 EXCEPT ![r].user = version]
    BY DEF find_user_by_id
  <1>3. mid \in [Calls -> CallRecords]
    BY <1>1, TodoTypes, FieldTypes DEF CallRecords
  <1>4. /\ \A q \in Calls \ {r} : mid[q] = call[q]
        /\ mid[r].todo = Tail(call[r].todo) /\ mid[r].answer = call[r].answer
        /\ mid[r].since = call[r].since
        /\ mid[r].permissions = call[r].permissions /\ mid[r].roles = call[r].roles
    BY <1>1 DEF CallRecords
  <1> HIDE DEF mid
  <1>5. mid2 \in [Calls -> CallRecords]
    BY <1>3, FieldTypes DEF StatusTypeOK
  <1>6. /\ \A q \in Calls \ {r} : mid2[q] = mid[q]
        /\ mid2[r].todo = mid[r].todo /\ mid2[r].answer = mid[r].answer
        /\ mid2[r].since = mid[r].since
        /\ mid2[r].permissions = mid[r].permissions /\ mid2[r].roles = mid[r].roles
    BY <1>3 DEF CallRecords
  <1> HIDE DEF mid2
  <1>7. call' \in [Calls -> CallRecords]
    BY <1>2, <1>5, FieldTypes, EntryTypes DEF StatusTypeOK
  <1>8. /\ \A q \in Calls \ {r} : call'[q] = mid2[q]
        /\ call'[r].todo = mid2[r].todo /\ call'[r].answer = mid2[r].answer
        /\ call'[r].since = mid2[r].since /\ call'[r].user = version
        /\ call'[r].permissions = mid2[r].permissions /\ call'[r].roles = mid2[r].roles
    BY <1>2, <1>5 DEF CallRecords
  <1> QED  BY <1>1, <1>4, <1>6, <1>7, <1>8 DEF Others

LEMMA PermissionsIs ==
    ASSUME StatusTypeOK, NEW r \in Calls, get_user_permissions(r)
    PROVE  /\ call' \in [Calls -> CallRecords] /\ Others(r)
           /\ call[r].todo # <<>> /\ Head(call[r].todo) = "permissions"
           /\ call'[r].todo = Tail(call[r].todo) /\ call'[r].answer = call[r].answer
           /\ call'[r].since = call[r].since /\ call'[r].user = call[r].user
           /\ call'[r].permissions.ver = version /\ call'[r].roles = call[r].roles
  <1> DEFINE mid == [call EXCEPT ![r].todo = Tail(call[r].todo)]
  <1>1. call \in [Calls -> CallRecords] /\ call[r].todo # <<>>
        /\ Head(call[r].todo) = "permissions"
    BY DEF StatusTypeOK, CallRecords, get_user_permissions, Statement
  <1>2. PICK roles \in {assigned, {}} :
           call' = [mid EXCEPT ![r].permissions = [roles |-> roles, ver |-> version]]
    BY DEF get_user_permissions
  <1>3. mid \in [Calls -> CallRecords]
    BY <1>1, TodoTypes, FieldTypes DEF CallRecords
  <1>4. /\ \A q \in Calls \ {r} : mid[q] = call[q]
        /\ mid[r].todo = Tail(call[r].todo) /\ mid[r].answer = call[r].answer
        /\ mid[r].since = call[r].since /\ mid[r].user = call[r].user
        /\ mid[r].roles = call[r].roles
    BY <1>1 DEF CallRecords
  <1> HIDE DEF mid
  <1> DEFINE got == [roles |-> roles, ver |-> version]
  <1>5. got \in Entries /\ got.ver = version
    BY EntryTypes DEF StatusTypeOK
  <1> HIDE DEF got
  <1>6. call' = [mid EXCEPT ![r].permissions = got]
    BY <1>2 DEF got
  <1>7. call' \in [Calls -> CallRecords]
    BY <1>3, <1>5, <1>6, FieldTypes
  <1>8. /\ \A q \in Calls \ {r} : call'[q] = mid[q]
        /\ call'[r].todo = mid[r].todo /\ call'[r].answer = mid[r].answer
        /\ call'[r].since = mid[r].since /\ call'[r].user = mid[r].user
        /\ call'[r].permissions = got /\ call'[r].roles = mid[r].roles
    BY <1>3, <1>6 DEF CallRecords
  <1> QED  BY <1>1, <1>4, <1>5, <1>7, <1>8 DEF Others

LEMMA RolesIs ==
    ASSUME StatusTypeOK, NEW r \in Calls, get_user_roles_now(r)
    PROVE  /\ call' \in [Calls -> CallRecords] /\ Others(r)
           /\ call[r].todo # <<>> /\ Head(call[r].todo) = "roles"
           /\ call'[r].todo = Tail(call[r].todo) /\ call'[r].answer = "ok"
           /\ call'[r].since = call[r].since /\ call'[r].user = call[r].user
           /\ call'[r].permissions = call[r].permissions /\ call'[r].roles.ver = version
  <1> DEFINE mid == [call EXCEPT ![r].todo = Tail(call[r].todo)]
             mid2 == [mid EXCEPT ![r].answer = "ok"]
  <1>1. call \in [Calls -> CallRecords] /\ call[r].todo # <<>> /\ Head(call[r].todo) = "roles"
    BY DEF StatusTypeOK, CallRecords, get_user_roles_now, Statement
  <1>2. PICK roles \in {assigned, {}} :
           call' = [mid2 EXCEPT ![r].roles = [roles |-> roles, ver |-> version]]
    BY DEF get_user_roles_now
  <1>3. mid \in [Calls -> CallRecords]
    BY <1>1, TodoTypes, FieldTypes DEF CallRecords
  <1>4. /\ \A q \in Calls \ {r} : mid[q] = call[q]
        /\ mid[r].todo = Tail(call[r].todo) /\ mid[r].since = call[r].since
        /\ mid[r].user = call[r].user /\ mid[r].permissions = call[r].permissions
    BY <1>1 DEF CallRecords
  <1> HIDE DEF mid
  <1>5. mid2 \in [Calls -> CallRecords]
    BY <1>3, FieldTypes
  <1>6. /\ \A q \in Calls \ {r} : mid2[q] = mid[q]
        /\ mid2[r].todo = mid[r].todo /\ mid2[r].since = mid[r].since /\ mid2[r].answer = "ok"
        /\ mid2[r].user = mid[r].user /\ mid2[r].permissions = mid[r].permissions
    BY <1>3 DEF CallRecords
  <1> HIDE DEF mid2
  <1> DEFINE got == [roles |-> roles, ver |-> version]
  <1>7. got \in Entries /\ got.ver = version
    BY EntryTypes DEF StatusTypeOK
  <1> HIDE DEF got
  <1>8. call' = [mid2 EXCEPT ![r].roles = got]
    BY <1>2 DEF got
  <1>9. call' \in [Calls -> CallRecords]
    BY <1>5, <1>7, <1>8, FieldTypes
  <1>10. /\ \A q \in Calls \ {r} : call'[q] = mid2[q]
         /\ call'[r].todo = mid2[r].todo /\ call'[r].answer = mid2[r].answer
         /\ call'[r].since = mid2[r].since /\ call'[r].user = mid2[r].user
         /\ call'[r].permissions = mid2[r].permissions /\ call'[r].roles = got
    BY <1>5, <1>8 DEF CallRecords
  <1> QED  BY <1>1, <1>4, <1>6, <1>7, <1>9, <1>10 DEF Others

LEMMA FailureIs ==
    ASSUME StatusTypeOK, NEW r \in Calls, StatementFails(r)
    PROVE  /\ call' \in [Calls -> CallRecords] /\ Others(r)
           /\ call'[r].todo = <<>> /\ call'[r].answer = "error"
           /\ call'[r].since = call[r].since /\ call'[r].user = call[r].user
           /\ call'[r].permissions = call[r].permissions /\ call'[r].roles = call[r].roles
  <1> DEFINE mid == [call EXCEPT ![r].todo = <<>>]
  <1>1. call \in [Calls -> CallRecords]
    BY DEF StatusTypeOK, CallRecords
  <1>2. call' = [mid EXCEPT ![r].answer = "error"]
    BY DEF StatementFails
  <1>3. mid \in [Calls -> CallRecords]
    BY <1>1, TodoTypes, FieldTypes
  <1>4. /\ \A q \in Calls \ {r} : mid[q] = call[q]
        /\ mid[r].todo = <<>> /\ mid[r].since = call[r].since
        /\ mid[r].user = call[r].user /\ mid[r].permissions = call[r].permissions
        /\ mid[r].roles = call[r].roles
    BY <1>1 DEF CallRecords
  <1> HIDE DEF mid
  <1>5. call' \in [Calls -> CallRecords]
    BY <1>2, <1>3, FieldTypes
  <1> QED  BY <1>2, <1>3, <1>4, <1>5 DEF CallRecords, Others

-----------------------------------------------------------------------------
(* The type invariant *)

(* A call's step leaves everything else, any other step leaves the calls.   *)
LEMMA StatusStepKinds ==
    ASSUME StatusTypeOK, [StatusNext]_statusVars
    PROVE  \/ /\ UNCHANGED <<vars, is_active, live>>
              /\ \E r \in Calls :
                    \/ \E handler \in Handlers : Begin(r, handler)
                    \/ get_user_id_by_session(r) \/ find_user_by_id(r)
                    \/ get_user_permissions(r) \/ get_user_roles_now(r) \/ StatementFails(r)
           \/ UNCHANGED call /\ [Next]_vars /\ is_active' \in BOOLEAN /\ live' \in BOOLEAN
  <1>1. ASSUME NEW r \in Calls,
               \/ \E handler \in Handlers : Begin(r, handler)
               \/ get_user_id_by_session(r) \/ find_user_by_id(r)
               \/ get_user_permissions(r) \/ get_user_roles_now(r) \/ StatementFails(r)
        PROVE  UNCHANGED <<vars, is_active, live>>
    <2>1. ASSUME NEW handler, Begin(r, handler)
          PROVE  UNCHANGED <<vars, is_active, live>>
      BY <2>1 DEF Begin
    <2>2. ASSUME NEW what, Statement(r, what)
          PROVE  UNCHANGED <<vars, is_active, live>>
      BY <2>2 DEF Statement
    <2>3. ASSUME StatementFails(r)
          PROVE  UNCHANGED <<vars, is_active, live>>
      BY <2>3 DEF StatementFails
    <2> QED  BY <1>1, <2>1, <2>2, <2>3 DEF get_user_id_by_session, find_user_by_id,
                get_user_permissions, get_user_roles_now
  <1>2. ASSUME \/ \E u \in Updates, names \in SUBSET Roles, active \in BOOLEAN :
                     UpdateRoles(u, names, active)
               \/ CacheStep
        PROVE  UNCHANGED call /\ Next /\ is_active' \in BOOLEAN /\ live' \in BOOLEAN
    BY <1>2 DEF UpdateRoles, CacheStep, Next, StatusTypeOK
  <1>3. ASSUME \/ \E active \in BOOLEAN : SetActive(active)
               \/ SessionChanges
               \/ UNCHANGED statusVars
        PROVE  UNCHANGED <<call, vars>> /\ is_active' \in BOOLEAN /\ live' \in BOOLEAN
    BY <1>3 DEF SetActive, SessionChanges, statusVars, StatusTypeOK
  <1> QED  BY <1>1, <1>2, <1>3 DEF StatusNext

LEMMA StatusTypeNext == ASSUME StatusTypeOK, [StatusNext]_statusVars PROVE StatusTypeOK'
  <1>1. call \in [Calls -> CallRecords] /\ TypeOK
    BY DEF StatusTypeOK, CallRecords
  <1>2. CASE UNCHANGED <<vars, is_active, live>> /\ call' \in [Calls -> CallRecords]
    <2>1. TypeOK'
      BY <1>1, <1>2, TypeNext
    <2> QED  BY <1>2, <2>1 DEF StatusTypeOK, CallRecords
  <1>3. CASE UNCHANGED call /\ [Next]_vars /\ is_active' \in BOOLEAN /\ live' \in BOOLEAN
    <2>1. TypeOK'
      BY <1>1, <1>3, TypeNext
    <2> QED  BY <1>1, <1>3, <2>1 DEF StatusTypeOK, CallRecords
  <1> QED
    BY <1>2, <1>3, StatusStepKinds, BeginIs, SessionIs, UserIs, PermissionsIs, RolesIs, FailureIs

(* Every variable keeps its type, those of RoleCache included.              *)
THEOREM StatusTypeCorrect == StatusSpec => []StatusTypeOK
  BY StatusTypeInit, StatusTypeNext, PTL DEF StatusSpec

-----------------------------------------------------------------------------
(* The order of an answer *)

(* What is left of a handler's statements                                   *)
Remaining == {<<>>, <<"session", "user", "roles">>, <<"user", "roles">>, <<"roles">>,
              <<"session", "user", "permissions", "roles">>,
              <<"user", "permissions", "roles">>, <<"permissions", "roles">>}

(* What has been read is not from before the call nor from the future.      *)
InOrder(r) ==
    /\ call[r].todo \in Remaining
    /\ call[r].answer = "ok" => call[r].todo = <<>>
    /\ call[r].since <= version /\ call[r].user <= version /\ call[r].permissions.ver <= version
    /\ call[r].todo \in {<<"roles">>, <<"permissions", "roles">>} => call[r].since <= call[r].user

OrderInv == StatusTypeOK /\ RolesNotOlder /\ \A r \in Calls : InOrder(r)

LEMMA RemainingIs ==
    ASSUME NEW s \in Remaining, s # <<>>
    PROVE  /\ Head(s) \in {"session", "user", "permissions", "roles"}
           /\ Head(s) = "session" =>
                 Tail(s) \in {<<"user", "roles">>, <<"user", "permissions", "roles">>}
           /\ Head(s) = "user" => Tail(s) \in {<<"roles">>, <<"permissions", "roles">>}
           /\ Head(s) = "permissions" => Tail(s) = <<"roles">> /\ s = <<"permissions", "roles">>
           /\ Head(s) = "roles" => Tail(s) = <<>> /\ s = <<"roles">>
  <1>1. /\ Tail(<<"session", "user", "roles">>) = <<"user", "roles">>
        /\ Tail(<<"user", "roles">>) = <<"roles">>
        /\ Tail(<<"roles">>) = <<>>
    OBVIOUS
  <1>2. /\ Tail(<<"session", "user", "permissions", "roles">>)
                = <<"user", "permissions", "roles">>
        /\ Tail(<<"user", "permissions", "roles">>) = <<"permissions", "roles">>
        /\ Tail(<<"permissions", "roles">>) = <<"roles">>
    OBVIOUS
  <1>3. /\ Head(<<"session", "user", "roles">>) = "session" /\ Head(<<"user", "roles">>) = "user"
        /\ Head(<<"roles">>) = "roles"
        /\ Head(<<"session", "user", "permissions", "roles">>) = "session"
        /\ Head(<<"user", "permissions", "roles">>) = "user"
        /\ Head(<<"permissions", "roles">>) = "permissions"
    OBVIOUS
  <1> QED  BY <1>1, <1>2, <1>3 DEF Remaining

(* A newer version of the roles disturbs no order.                          *)
LEMMA VersionGrows ==
    ASSUME TypeOK, [Next]_vars
    PROVE  version' >= version
  <1>1. version \in Nat
    BY DEF TypeOK
  <1> QED
    BY <1>1 DEF Next, vars, has_role, get_user_roles, StoreRoles, update_user, AnswerUpdate, create_role,
                delete_role, update_role

(* Whether the answer of r, if there is one, is in order                    *)
AnswerInOrder(r) ==
    call[r].answer = "ok" =>
        /\ call[r].since <= call[r].user
        /\ call[r].user <= call[r].roles.ver
        /\ call[r].permissions.ver <= call[r].roles.ver

LEMMA CallTypes ==
    ASSUME StatusTypeOK, NEW r \in Calls
    PROVE  /\ call[r].since \in Nat /\ call[r].user \in Nat /\ version \in Nat
           /\ call[r].permissions.ver \in Nat /\ call[r].roles.ver \in Nat
  BY DEF StatusTypeOK, TypeOK, Entries

LEMMA CallInOrder ==
    ASSUME OrderInv, NEW r \in Calls, version' = version,
           \/ \E handler \in Handlers : Begin(r, handler)
           \/ get_user_id_by_session(r) \/ find_user_by_id(r)
           \/ get_user_permissions(r) \/ get_user_roles_now(r) \/ StatementFails(r)
    PROVE  Others(r) /\ InOrder(r)' /\ AnswerInOrder(r)'
  <1>1. StatusTypeOK /\ InOrder(r) /\ AnswerInOrder(r)
    BY DEF OrderInv, RolesNotOlder, AnswerInOrder
  <1>2. ASSUME NEW handler \in Handlers, Begin(r, handler)
        PROVE  Others(r) /\ InOrder(r)' /\ AnswerInOrder(r)'
    <2>1. Handlers = {"GetUserStatus", "me", "get_all_users"}
      BY DEF Handlers, Statements
    <2>2. Statements[handler] \in Remaining /\ Head(Statements[handler]) \in {"session", "user"}
      BY <2>1 DEF Statements, GetUserStatus, me, get_all_users, Remaining
    <2>3. Statements[handler] \notin {<<"roles">>, <<"permissions", "roles">>}
      BY <2>2
    <2> QED  BY <1>1, <1>2, <2>2, <2>3, BeginIs, CallTypes DEF InOrder, AnswerInOrder, Missing
  <1>3. ASSUME get_user_id_by_session(r)
        PROVE  Others(r) /\ InOrder(r)' /\ AnswerInOrder(r)'
    <2>1. call'[r].todo \in {<<>>, <<"user", "roles">>, <<"user", "permissions", "roles">>}
      BY <1>1, <1>3, SessionIs, RemainingIs DEF InOrder
    <2>2. call'[r].todo \in Remaining /\ call'[r].todo \notin {<<"roles">>, <<"permissions", "roles">>}
      BY <2>1 DEF Remaining
    <2>3. call'[r].answer # "ok"
      BY <1>1, <1>3, SessionIs DEF InOrder
    <2> QED  BY <1>1, <1>3, <2>2, <2>3, SessionIs DEF InOrder, AnswerInOrder
  <1>4. ASSUME find_user_by_id(r)
        PROVE  Others(r) /\ InOrder(r)' /\ AnswerInOrder(r)'
    <2>1. call'[r].todo \in {<<"roles">>, <<"permissions", "roles">>}
      BY <1>1, <1>4, UserIs, RemainingIs DEF InOrder
    <2>2. call'[r].todo \in Remaining
      BY <2>1 DEF Remaining
    <2>3. call'[r].answer # "ok"
      BY <1>1, <1>4, UserIs DEF InOrder
    <2> QED  BY <1>1, <1>4, <2>2, <2>3, UserIs, CallTypes DEF InOrder, AnswerInOrder
  <1>5. ASSUME get_user_permissions(r)
        PROVE  Others(r) /\ InOrder(r)' /\ AnswerInOrder(r)'
    <2>1. call[r].todo = <<"permissions", "roles">> /\ call'[r].todo = <<"roles">>
      BY <1>1, <1>5, PermissionsIs, RemainingIs DEF InOrder
    <2>2. call'[r].todo \in Remaining
      BY <2>1 DEF Remaining
    <2>3. call'[r].answer # "ok"
      BY <1>1, <1>5, PermissionsIs DEF InOrder
    <2> QED  BY <1>1, <1>5, <2>1, <2>2, <2>3, PermissionsIs, CallTypes DEF InOrder, AnswerInOrder
  <1>6. ASSUME get_user_roles_now(r)
        PROVE  Others(r) /\ InOrder(r)' /\ AnswerInOrder(r)'
    <2>1. call[r].todo = <<"roles">> /\ call'[r].todo = <<>>
      BY <1>1, <1>6, RolesIs, RemainingIs DEF InOrder
    <2>2. <<>> \in Remaining /\ <<>> \notin {<<"roles">>, <<"permissions", "roles">>}
      BY DEF Remaining
    <2> QED  BY <1>1, <1>6, <2>1, <2>2, RolesIs, CallTypes DEF InOrder, AnswerInOrder
  <1>7. ASSUME StatementFails(r)
        PROVE  Others(r) /\ InOrder(r)' /\ AnswerInOrder(r)'
    <2>1. <<>> \in Remaining /\ <<>> \notin {<<"roles">>, <<"permissions", "roles">>}
      BY DEF Remaining
    <2> QED  BY <1>1, <1>7, <2>1, FailureIs DEF InOrder, AnswerInOrder
  <1> QED  BY <1>2, <1>3, <1>4, <1>5, <1>6, <1>7

LEMMA OrderNext == ASSUME OrderInv, [StatusNext]_statusVars PROVE OrderInv'
  <1>1. StatusTypeOK' /\ StatusTypeOK
    BY StatusTypeNext DEF OrderInv
  <1>2. ASSUME NEW r \in Calls, version' = version,
               \/ \E handler \in Handlers : Begin(r, handler)
               \/ get_user_id_by_session(r) \/ find_user_by_id(r)
               \/ get_user_permissions(r) \/ get_user_roles_now(r) \/ StatementFails(r)
        PROVE  OrderInv'
    <2>1. Others(r) /\ InOrder(r)' /\ AnswerInOrder(r)'
      BY <1>2, CallInOrder
    <2>2. \A q \in Calls \ {r} : InOrder(q)' /\ AnswerInOrder(q)'
      BY <1>2, <2>1 DEF Others, InOrder, AnswerInOrder, OrderInv, RolesNotOlder
    <2> QED  BY <1>1, <2>1, <2>2 DEF OrderInv, RolesNotOlder, AnswerInOrder
  <1>3. CASE UNCHANGED call /\ [Next]_vars
    <2>1. version' >= version
      BY <1>1, <1>3, VersionGrows DEF StatusTypeOK
    <2>2. version' \in Nat
      BY <1>1 DEF StatusTypeOK, TypeOK
    <2>3. \A r \in Calls : InOrder(r)'
      BY <1>1, <1>3, <2>1, <2>2, CallTypes DEF InOrder, OrderInv
    <2> QED  BY <1>1, <1>3, <2>3 DEF OrderInv, RolesNotOlder
  <1>4. UNCHANGED vars => version' = version
    BY DEF vars
  <1> QED  BY <1>1, <1>2, <1>3, <1>4, StatusStepKinds

LEMMA OrderInit == StatusInit => OrderInv
  <1> SUFFICES ASSUME StatusInit PROVE OrderInv
    OBVIOUS
  <1>1. StatusTypeOK
    BY StatusTypeInit
  <1>2. \A r \in Calls : call[r] = NoCall
    BY DEF StatusInit
  <1>3. <<>> \in Remaining /\ <<>> \notin {<<"roles">>, <<"permissions", "roles">>}
    BY DEF Remaining
  <1>4. version = 0
    BY DEF StatusInit, Init
  <1> QED  BY <1>1, <1>2, <1>3, <1>4 DEF OrderInv, InOrder, RolesNotOlder, NoCall, Called, Missing

(* However many calls and updates run, on however many connections: no      *)
(* answer joins older roles to a newer row of the user or to newer          *)
(* permissions, and none has roles older than the call.                     *)
THEOREM AnswersAreOrdered == StatusSpec => []RolesNotOlder
  <1>1. OrderInv => RolesNotOlder
    BY DEF OrderInv
  <1> QED  BY <1>1, OrderInit, OrderNext, PTL DEF StatusSpec
=============================================================================
