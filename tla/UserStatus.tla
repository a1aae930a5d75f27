----------------------------- MODULE UserStatus -----------------------------
(***************************************************************************)
(* Who tells other parties about a user, and in how many statements:       *)
(* GetUserStatus over gRPC, me for the user and list_users for the         *)
(* administrator.  Each reads the database statement by statement, past    *)
(* the cache, while administrators change the user as in RoleCache; so an  *)
(* answer may join parts of different moments.                             *)
(***************************************************************************)
EXTENDS RoleCache, Sequences

CONSTANT Calls   \* runs of the three handlers at the same time

VARIABLES
    is_active,  \* column of the user
    live,       \* the session the calls ask about has a row that has not expired
    call        \* the run of each handler

statusVars == <<vars, is_active, live, call>>

(* The statements of each handler that answer something this model follows *)
GetUserStatus == <<"session", "user", "roles">>
me == <<"session", "user", "permissions", "roles">>
get_all_users == <<"user", "roles">>

Statements == [GetUserStatus |-> GetUserStatus, me |-> me, get_all_users |-> get_all_users]

Handlers == DOMAIN Statements

(* user is the version of the user's roles when the row of users was read.  *)
Called(handler, todo, since) ==
    [handler |-> handler, todo |-> todo, since |-> since, active |-> FALSE, user |-> 0,
     permissions |-> Missing, roles |-> Missing, answer |-> "none"]

NoCall == Called("none", <<>>, 0)

StatusTypeOK ==
    /\ TypeOK
    /\ is_active \in BOOLEAN
    /\ live \in BOOLEAN
    /\ call \in [Calls -> [handler : Handlers \cup {"none"},
                           todo : Seq({"session", "user", "permissions", "roles"}),
                           since : 0..MaxVersion, active : BOOLEAN, user : 0..MaxVersion,
                           permissions : Entries, roles : Entries,
                           answer : {"none", "ok", "unauthenticated", "error"}]]

StatusInit ==
    /\ Init
    /\ is_active = TRUE
    /\ live = TRUE
    /\ call = [r \in Calls |-> NoCall]

-----------------------------------------------------------------------------
(* The handlers *)

Begin(r, handler) ==
    /\ call[r].todo = <<>>
    /\ call' = [call EXCEPT ![r] = Called(handler, Statements[handler], version)]
    /\ UNCHANGED <<vars, is_active, live>>

(* The next statement of the handler runs. *)
Statement(r, what) ==
    /\ HasIdle
    /\ call[r].todo # <<>>
    /\ Head(call[r].todo) = what
    /\ UNCHANGED <<vars, is_active, live>>

(* A session that is not there ends the call. *)
get_user_id_by_session(r) ==
    /\ Statement(r, "session")
    /\ call' = [call EXCEPT ![r].todo = IF live THEN Tail(@) ELSE <<>>,
                            ![r].answer = IF live THEN @ ELSE "unauthenticated"]

(* The user's row: is_active goes into the answer, except into that of me. *)
find_user_by_id(r) ==
    /\ Statement(r, "user")
    /\ call' = [call EXCEPT ![r].todo = Tail(@),
                            ![r].active = is_active, ![r].user = version]

(* A permission stands for the role that brings it. *)
get_user_permissions(r) ==
    /\ Statement(r, "permissions")
    /\ \E roles \in {assigned, {}} :
          call' = [call EXCEPT ![r].todo = Tail(@),
                               ![r].permissions = [roles |-> roles, ver |-> version]]

(* Faulty: the roles come from the cache when it has some. *)
get_cached_roles(r) ==
    /\ Statement(r, "roles")
    /\ \E got \in IF cached.roles # {} THEN {cached}
                  ELSE [roles : {assigned}, ver : {version}] :
          call' = [call EXCEPT ![r].todo = Tail(@), ![r].roles = got, ![r].answer = "ok"]

(* The last statement; the user's own answer takes an error for no roles.   *)
get_user_roles_now(r) ==
    /\ Statement(r, "roles")
    /\ \E roles \in {assigned} \cup (IF call[r].handler = "me" THEN {{}} ELSE {}) :
          call' = [call EXCEPT ![r].todo = Tail(@), ![r].answer = "ok",
                               ![r].roles = [roles |-> roles, ver |-> version]]

(* Any other error ends the call. *)
StatementFails(r) ==
    /\ HasIdle
    /\ call[r].todo # <<>>
    /\ call[r].handler = "me" => Head(call[r].todo) \in {"session", "user"}
    /\ call' = [call EXCEPT ![r].todo = <<>>, ![r].answer = "error"]
    /\ UNCHANGED <<vars, is_active, live>>

-----------------------------------------------------------------------------
(* What changes the user meanwhile *)

(* AdminRepository::update_user with a list of roles and perhaps is_active *)
UpdateRoles(u, names, active) ==
    /\ update_user(u, names)
    /\ is_active' = active
    /\ UNCHANGED <<live, call>>

(* update_user without roles, and delete_user *)
SetActive(active) ==
    /\ HasIdle
    /\ is_active' = active
    /\ UNCHANGED <<vars, live, call>>

(* Login, logout, cleanup and time: module Sessions *)
SessionChanges ==
    /\ live' = ~live
    /\ UNCHANGED <<vars, is_active, call>>

(* What RoleCache does besides *)
CacheStep ==
    /\ \/ \E k \in Checks : has_role(k) \/ get_user_roles(k) \/ StoreRoles(k)
       \/ \E u \in Updates : AnswerUpdate(u)
       \/ \E role \in Roles : create_role(role) \/ delete_role(role)
       \/ \E role, name \in Roles : update_role(role, name)
    /\ UNCHANGED <<is_active, live, call>>

StatusNext ==
    \/ \E r \in Calls :
          \/ \E handler \in Handlers : Begin(r, handler)
          \/ get_user_id_by_session(r) \/ find_user_by_id(r)
          \/ get_user_permissions(r) \/ get_user_roles_now(r)
          \/ StatementFails(r)
    \/ \E u \in Updates, names \in SUBSET Roles, active \in BOOLEAN :
          UpdateRoles(u, names, active)
    \/ \E active \in BOOLEAN : SetActive(active)
    \/ SessionChanges
    \/ CacheStep

StatusSpec == StatusInit /\ [][StatusNext]_statusVars

-----------------------------------------------------------------------------
(* Properties *)

(* An answer joins parts of different moments, but it never joins older     *)
(* roles to a newer row of the user or to newer permissions, and never      *)
(* roles older than the call: who is activated and demoted in one update is *)
(* not reported active with the old roles, though has_role may still decide *)
(* on them (auth_grpc_srv.cpp GetUserStatus, admin_repository.cpp           *)
(* get_all_users, auth_ctrl.cpp me).                                        *)
RolesNotOlder ==
    \A r \in Calls : call[r].answer = "ok" =>
        /\ call[r].since <= call[r].user
        /\ call[r].user <= call[r].roles.ver
        /\ call[r].permissions.ver <= call[r].roles.ver
=============================================================================
