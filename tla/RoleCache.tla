------------------------------ MODULE RoleCache -----------------------------
(***************************************************************************)
(* RbacService: the roles of a user as the administration handlers see     *)
(* them.  has_role looks into a cache and, when it finds none there,       *)
(* awaits the database and stores the answer, whatever the cache holds by  *)
(* then; update_user commits a new set of roles and then drops the user's  *)
(* entry.  Users do not touch each other here, so the model follows one.   *)
(* The permission cache is built the same way and nothing calls it.        *)
(*                                                                         *)
(* Connections work as in Sessions: a coroutine that is called back        *)
(* occupies its connection until it awaits anew or ends.                   *)
(***************************************************************************)
EXTENDS Naturals

CONSTANTS
    Roles,
    Checks,       \* runs of has_role at the same time
    Updates,      \* runs of AdminCtrl::update_user at the same time
    Connections,
    Idle,
    Unacked,      \* TRUE: a COMMIT may take effect and still raise an error
    MaxVersion    \* bound on the changes of the user's roles

ASSUME RoleCacheAssumption ==
    /\ Idle \notin Checks \cup Updates
    /\ Checks \cap Updates = {}
    /\ Unacked \in BOOLEAN
    /\ MaxVersion \in Nat

VARIABLES
    existing,   \* the rows of roles
    assigned,   \* the user's rows of user_roles
    version,    \* how often update_user has replaced them
    cached,     \* the user's entry, and the version it was read at
    check,      \* where each has_role stands, and what it has read and not stored
    update,     \* the version each update_user has committed
    conn,       \* the coroutine each connection works for
    answered    \* the latest version whose update was answered with success

vars == <<existing, assigned, version, cached, check, update, conn, answered>>

(* An entry with no roles is treated like a missing one. *)
Missing == [roles |-> {}, ver |-> 0]
NoCheck == [at |-> "idle", got |-> Missing]
NoUpdate == [done |-> FALSE, ver |-> 0]

Entries == [roles : SUBSET Roles, ver : 0..MaxVersion]

TypeOK ==
    /\ existing \subseteq Roles
    /\ assigned \subseteq existing
    /\ version \in 0..MaxVersion
    /\ cached \in Entries
    /\ check \in [Checks -> [at : {"idle", "missed", "read"}, got : Entries]]
    /\ update \in [Updates -> [done : BOOLEAN, ver : 0..MaxVersion]]
    /\ conn \in [Connections -> Checks \cup Updates \cup {Idle}]
    /\ answered \in 0..MaxVersion

Init ==
    /\ existing \in SUBSET Roles
    /\ assigned \in SUBSET existing
    /\ version = 0
    /\ cached = Missing
    /\ check = [k \in Checks |-> NoCheck]
    /\ update = [u \in Updates |-> NoUpdate]
    /\ conn = [c \in Connections |-> Idle]
    /\ answered = 0

HasIdle == \E c \in Connections : conn[c] = Idle
Occupy(x) == \E c \in Connections : conn[c] = Idle /\ conn' = [conn EXCEPT ![c] = x]
Release(x) == conn' = [c \in Connections |-> IF conn[c] = x THEN Idle ELSE conn[c]]

-----------------------------------------------------------------------------
(* has_role looks into the cache; on a hit it decides at once. *)
has_role(k) ==
    /\ check[k].at = "idle"
    /\ cached.roles = {}
    /\ check' = [check EXCEPT ![k].at = "missed"]
    /\ UNCHANGED <<existing, assigned, version, cached, update, conn, answered>>

(* After a miss, get_user_roles; its error reads like "no roles". *)
get_user_roles(k) ==
    /\ check[k].at = "missed"
    /\ Occupy(k)
    /\ \E roles \in {assigned, {}} :
          check' = [check EXCEPT ![k] = [at |-> "read",
                                         got |-> [roles |-> roles, ver |-> version]]]
    /\ UNCHANGED <<existing, assigned, version, cached, update, answered>>

(* ... and the answer stored over what another check may have stored        *)
StoreRoles(k) ==
    /\ check[k].at = "read"
    /\ cached' = check[k].got
    /\ check' = [check EXCEPT ![k] = NoCheck]
    /\ Release(k)
    /\ UNCHANGED <<existing, assigned, version, update, answered>>

(* AdminRepository::update_user with a list of roles: one transaction       *)
(* replaces the assignments, leaving out names that are no role.  When the  *)
(* COMMIT raises an error the handler answers 500 and drops nothing.        *)
update_user(u, names) ==
    /\ ~update[u].done
    /\ version < MaxVersion
    /\ assigned' = names \cap existing
    /\ version' = version + 1
    /\ \/ /\ Occupy(u)
          /\ update' = [update EXCEPT ![u] = [done |-> TRUE, ver |-> version']]
       \/ Unacked /\ HasIdle /\ UNCHANGED <<conn, update>>
    /\ UNCHANGED <<existing, cached, check, answered>>

(* Faulty: an update of the roles leaves the entry alone. *)
AnswerWithoutInvalidate(u) ==
    /\ update[u].done
    /\ answered' = IF update[u].ver > answered THEN update[u].ver ELSE answered
    /\ update' = [update EXCEPT ![u] = NoUpdate]
    /\ Release(u)
    /\ UNCHANGED <<existing, assigned, version, cached, check>>

(* invalidate_cache and the answer "success" *)
AnswerUpdate(u) ==
    /\ update[u].done
    /\ cached' = Missing
    /\ answered' = IF update[u].ver > answered THEN update[u].ver ELSE answered
    /\ update' = [update EXCEPT ![u] = NoUpdate]
    /\ Release(u)
    /\ UNCHANGED <<existing, assigned, version, check>>

(* The statements of AdminRepository on roles.  Names are unique; the schema *)
(* deletes the assignments of a deleted role, and a new name shows in them.  *)
InsertRole(role) ==
    /\ role \notin existing
    /\ existing' = existing \cup {role}
    /\ UNCHANGED assigned

DeleteRole(role) ==
    /\ role \in existing
    /\ existing' = existing \ {role}
    /\ assigned' = assigned \ {role}

RenameRole(role, name) ==
    /\ role \in existing
    /\ name \notin existing
    /\ existing' = (existing \ {role}) \cup {name}
    /\ assigned' = IF role \in assigned THEN (assigned \ {role}) \cup {name} ELSE assigned

(* The handlers: one statement, and no entry is dropped. *)
create_role(role) ==
    /\ HasIdle
    /\ InsertRole(role)
    /\ UNCHANGED <<version, cached, check, update, conn, answered>>

(* Faulty: deletes the role and leaves its assignments. *)
DeleteRoleOnly(role) ==
    /\ HasIdle
    /\ existing' = existing \ {role}
    /\ UNCHANGED <<assigned, version, cached, check, update, conn, answered>>

delete_role(role) ==
    /\ HasIdle
    /\ DeleteRole(role)
    /\ UNCHANGED <<version, cached, check, update, conn, answered>>

update_role(role, name) ==
    /\ HasIdle
    /\ RenameRole(role, name)
    /\ UNCHANGED <<version, cached, check, update, conn, answered>>

Next ==
    \/ \E k \in Checks : has_role(k) \/ get_user_roles(k) \/ StoreRoles(k)
    \/ \E u \in Updates :
          (\E names \in SUBSET Roles : update_user(u, names)) \/ AnswerUpdate(u)
    \/ \E role \in Roles : create_role(role) \/ delete_role(role)
    \/ \E role, name \in Roles : update_role(role, name)

Spec == Init /\ [][Next]_vars

-----------------------------------------------------------------------------
(* Once an update of a user's roles was answered, no check decides on an    *)
(* assignment older than it: of several has_role that missed before it, or  *)
(* while it ran, and store one after the other, none puts the old roles     *)
(* back (rbac_service.cpp has_role, admin_ctrl.cpp update_user).  It relies *)
(* on one connection.                                                       *)
AnsweredUpdateIsSeen == cached.roles # {} => cached.ver >= answered
=============================================================================
