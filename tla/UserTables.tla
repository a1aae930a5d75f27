----------------------------- MODULE UserTables -----------------------------
(***************************************************************************)
(* The transactions that make and change accounts: a client registers, an  *)
(* administrator creates or updates a user, a user edits the profile, and  *)
(* at every start the seeder makes the first administrator when there is   *)
(* none.  Each consists of several statements over users, user_profiles,   *)
(* user_communications and user_roles.  The pool has one connection, so    *)
(* transactions do not overlap; but what was checked before one may have   *)
(* changed when it opens.  Between them administrators create, rename and  *)
(* delete roles, and the role admin may go and come back.                  *)
(*                                                                         *)
(* The database client rolls a transaction back when a statement fails,    *)
(* and commits one that is abandoned, that is destroyed with neither: the  *)
(* seeder's, and one whose coroutine stumbles over a JSON value of the     *)
(* wrong type.                                                             *)
(***************************************************************************)
EXTENDS Naturals, Sequences

CONSTANTS
    Names,        \* login names and addresses, unique in users
    AdminName,    \* ADMIN_USER
    NoName,
    Late,         \* TRUE: the service may start before the migrations ran
    CommitsFail,  \* the transactions whose COMMIT may fail
    Unacked,      \* those whose COMMIT may take effect and answer an error
    Throws,       \* the transactions whose JSON may hold a wrong type
    MaxFailures,  \* bound on the statements that fail
    MaxCrashes    \* bound on the restarts

Makers == {"seed", "register", "create"}
Kinds == Makers \cup {"update", "profile"}

ASSUME SeederAssumption ==
    /\ AdminName \in Names
    /\ NoName \notin Names
    /\ Late \in BOOLEAN
    /\ CommitsFail \subseteq Kinds
    /\ Unacked \subseteq Kinds
    /\ Throws \subseteq {"create", "update", "profile"}
    /\ MaxFailures \in Nat
    /\ MaxCrashes \in Nat

VARIABLES
    db,         \* the parts of each account that are stored
    draft,      \* what the transaction under way sees instead
    tx,         \* the transaction under way: who, whose account, what is left
    adminRole,  \* the row of roles named admin is there
    seeder,     \* where ensureAdminExists stands
    claimed,    \* it has logged its success since the start, and the role stayed
    cleared,    \* an administrator's request has passed is_admin since the start
    made,       \* who stored each account
    told,       \* what the answers so far allow each account to be
    edited,     \* the accounts changed since they were made
    failures, crashes

history == <<made, told, edited>>
vars == <<db, draft, tx, adminRole, seeder, claimed, cleared, history, failures, crashes>>

(* The columns that are updated have one of two values: with or without     *)
(* "edited".                                                                *)
Parts == {"user", "profile", "contact", "admin", "edited"}
Drop == [admin |-> "drop admin", contact |-> "drop contact"]
Statements == Parts \cup {Drop.admin, Drop.contact}

NoTx == [kind |-> "none", name |-> NoName, todo |-> <<>>]

(* The statements of each transaction, in order: the INSERT of a part, the  *)
(* UPDATE of columns ("edited"), or the DELETE of assignments or contacts.  *)
(* An administrator updates column by column, here in two UPDATEs, either   *)
(* of which may leave the value as it is.                                   *)
Plans(kind) ==
    CASE kind = "seed"     -> {<<"user", "admin", "profile">>}
      [] kind = "register" -> {<<"user", "profile", "contact">>}
      [] kind = "create"   -> {<<"user", "profile">>, <<"user", "profile", "admin">>}
      [] kind = "update"   -> {<<"edited", "edited">>, <<"edited", "edited", Drop.admin>>,
                               <<"edited", "edited", Drop.admin, "admin">>}
      [] kind = "profile"  -> {<<"profile", "edited">>,
                               <<"profile", "edited", Drop.contact>>,
                               <<"profile", "edited", Drop.contact, "contact">>}

TypeOK ==
    /\ db \in [Names -> SUBSET Parts]
    /\ draft \in [Names -> SUBSET Parts]
    /\ tx \in [kind : Kinds \cup {"none"}, name : Names \cup {NoName}, todo : Seq(Statements)]
    /\ tx # NoTx => tx.kind \in Kinds /\ tx.name \in Names
    /\ tx = NoTx => draft = db
    /\ adminRole \in BOOLEAN
    /\ seeder \in {"off", "begin", "transaction", "ended"}
    /\ seeder = "transaction" <=> tx.kind = "seed"
    /\ claimed \in BOOLEAN
    /\ cleared \in BOOLEAN
    /\ made \in [Names -> Makers \cup {"none"}]
    /\ told \in [Names -> SUBSET SUBSET Parts]
    /\ edited \subseteq Names
    /\ failures \in 0..MaxFailures
    /\ crashes \in 0..MaxCrashes

Init ==
    /\ db = [n \in Names |-> {}]
    /\ draft = db
    /\ tx = NoTx
    /\ adminRole \in {TRUE, ~Late}
    /\ seeder = "off"
    /\ claimed = FALSE
    /\ cleared = FALSE
    /\ made = [n \in Names |-> "none"]
    /\ told = [n \in Names |-> {{}}]
    /\ edited = {}
    /\ failures = 0
    /\ crashes = 0

Admins == {n \in Names : "admin" \in db[n]}

-----------------------------------------------------------------------------
(* Transactions *)

Open(kind, n) ==
    /\ tx = NoTx
    /\ \E plan \in Plans(kind) : tx' = [kind |-> kind, name |-> n, todo |-> plan]
    /\ UNCHANGED <<db, draft, adminRole, claimed, cleared, history, failures, crashes>>

(* Faulty: the seeder is not told. *)
CloseOnly == tx' = NoTx /\ UNCHANGED seeder

(* What the end of a transaction means for the seeder *)
Close == tx' = NoTx /\ seeder' = IF tx.kind = "seed" THEN "ended" ELSE seeder

(* Faulty: what a failing statement leaves of its transaction is stored. *)
RollBackNothing ==
    /\ Close
    /\ db' = draft
    /\ made' = [made EXCEPT ![tx.name] = IF draft = db THEN @ ELSE tx.kind]
    /\ UNCHANGED <<draft, edited, adminRole, cleared, crashes>>

RollBack ==
    /\ Close
    /\ draft' = db
    /\ UNCHANGED <<db, made, edited, adminRole, cleared, crashes>>

Store ==
    /\ Close
    /\ db' = draft
    /\ IF tx.kind \in Makers
       THEN made' = [made EXCEPT ![tx.name] = tx.kind] /\ UNCHANGED edited
       ELSE edited' = edited \cup {tx.name} /\ UNCHANGED made
    /\ UNCHANGED <<draft, adminRole, cleared, crashes>>

Commit ==
    /\ Store
    /\ told' = [told EXCEPT ![tx.name] = {draft[tx.name]}]

(* The coroutine leaves, and the transaction is committed as far as it came: *)
(* its error allows the account to be anything.                             *)
Abandon ==
    /\ IF draft = db THEN RollBack /\ UNCHANGED told
       ELSE Store /\ told' = [told EXCEPT ![tx.name] = SUBSET Parts]
    /\ UNCHANGED <<claimed, failures>>

-----------------------------------------------------------------------------
(* Statements *)

Running == tx # NoTx /\ tx.todo # <<>>

Done == tx' = [tx EXCEPT !.todo = Tail(@)]

KeepRest == UNCHANGED <<db, adminRole, seeder, claimed, cleared, history, failures, crashes>>

(* The INSERT of an assignment follows a SELECT of the role; that of a      *)
(* profile does nothing when an edited account has one.                     *)
Insert(part) ==
    /\ Running
    /\ Head(tx.todo) = part
    /\ part = "user" => draft[tx.name] = {}
    /\ part = "admin" => adminRole
    /\ draft' = [draft EXCEPT ![tx.name] = @ \cup {part}]
    /\ Done
    /\ KeepRest

Update ==
    /\ Running
    /\ Head(tx.todo) = "edited"
    /\ \E value \in {{}, {"edited"}} :
          draft' = [draft EXCEPT ![tx.name] = (@ \ {"edited"}) \cup value]
    /\ Done
    /\ KeepRest

(* Faulty: run by the client and not by the transaction. *)
DeleteOutside(part) ==
    /\ Running
    /\ Head(tx.todo) = Drop[part]
    /\ db' = [db EXCEPT ![tx.name] = @ \ {part}]
    /\ draft' = [draft EXCEPT ![tx.name] = @ \ {part}]
    /\ Done
    /\ UNCHANGED <<adminRole, seeder, claimed, cleared, history, failures, crashes>>

Delete(part) ==
    /\ Running
    /\ Head(tx.todo) = Drop[part]
    /\ draft' = [draft EXCEPT ![tx.name] = @ \ {part}]
    /\ Done
    /\ KeepRest

(* The login name or address exists *)
Conflict ==
    /\ Running
    /\ Head(tx.todo) = "user"
    /\ draft[tx.name] # {}
    /\ RollBack
    /\ UNCHANGED <<claimed, told, failures>>

NoRole == Running /\ Head(tx.todo) = "admin" /\ ~adminRole

(* Faulty: the seeder, too, goes on without the role. *)
RoleSkipped == NoRole /\ Done /\ UNCHANGED draft /\ KeepRest

(* The role is not found: AdminRepository leaves it out, the seeder returns *)
(* and abandons its transaction.                                            *)
RoleMissing ==
    /\ NoRole
    /\ IF tx.kind = "seed" THEN Abandon ELSE Done /\ UNCHANGED draft /\ KeepRest

(* The JSON value for the next statement has the wrong type. *)
Throw ==
    /\ Running
    /\ tx.kind \in Throws
    /\ Head(tx.todo) \in {"admin", "edited", "contact"}
    /\ Abandon

(* The seeder logs its success before it abandons the transaction. *)
LogSuccess == claimed' = (claimed \/ tx.kind = "seed")

(* COMMIT, or what the database client does with the seeder's *)
Finish ==
    /\ tx # NoTx
    /\ tx.todo = <<>>
    /\ LogSuccess
    /\ Commit
    /\ UNCHANGED failures

Fails == failures < MaxFailures /\ failures' = failures + 1

(* Any statement of a transaction may fail. *)
StatementFails ==
    /\ Running
    /\ Fails
    /\ RollBack
    /\ UNCHANGED <<claimed, told>>

(* So may the COMMIT, before it takes effect or after; the answer is the    *)
(* same error.                                                              *)
CommitFails ==
    /\ tx # NoTx
    /\ tx.todo = <<>>
    /\ Fails
    /\ LogSuccess
    /\ \/ tx.kind \in CommitsFail /\ RollBack
       \/ tx.kind \in Unacked /\ Store
    /\ told' = [told EXCEPT ![tx.name] = @ \cup {draft[tx.name]}]

-----------------------------------------------------------------------------
(* Who opens transactions *)

(* AuthCtrl::register_user *)
register_user(n) == Open("register", n) /\ UNCHANGED seeder

(* AdminCtrl::is_admin, with roles that may be out of date later *)
is_admin ==
    /\ Admins # {}
    /\ cleared' = TRUE
    /\ UNCHANGED <<db, draft, tx, adminRole, seeder, claimed, history, failures, crashes>>

(* AdminCtrl::create_user, with or without the role admin in its list *)
create_user(n) == cleared /\ Open("create", n) /\ UNCHANGED seeder

(* AdminCtrl::update_user *)
update_user(n) == cleared /\ db[n] # {} /\ Open("update", n) /\ UNCHANGED seeder

(* AuthCtrl::update_profile *)
update_user_profile(n) == db[n] # {} /\ Open("profile", n) /\ UNCHANGED seeder

(* The role admin appears or goes, between transactions: the assignments go *)
(* with it, and those of a role that gets the name become its own.  The     *)
(* seeder's claim is not about what comes after it went.                    *)
ChangeRole(there, holders) ==
    LET Now(parts, n) == (IF there THEN parts ELSE parts \ {"admin"})
                         \cup (IF n \in holders /\ parts # {} THEN {"admin"} ELSE {})
    IN  /\ cleared
        /\ tx = NoTx
        /\ adminRole # there
        /\ adminRole' = there
        /\ db' = [n \in Names |-> Now(db[n], n)]
        /\ draft' = db'
        /\ told' = [n \in Names |-> {Now(parts, n) : parts \in told[n]}]
        /\ claimed' = (claimed /\ there)
        /\ UNCHANGED <<tx, seeder, cleared, made, edited, failures, crashes>>

(* AdminCtrl::create_role, of the name admin *)
create_role == ChangeRole(TRUE, {})

(* AdminCtrl::update_role, from the name admin or to it *)
update_role ==
    \/ ChangeRole(FALSE, {})
    \/ \E holders \in SUBSET Names : ChangeRole(TRUE, holders)

(* AdminCtrl::delete_role, of the role admin *)
delete_role == ChangeRole(FALSE, {})

(* ensureAdminExists: the count, at the start of the process; an error ends *)
(* it.                                                                      *)
CountAdmins ==
    /\ seeder = "off"
    /\ tx = NoTx
    /\ \/ seeder' = (IF Admins = {} THEN "begin" ELSE "ended") /\ UNCHANGED failures
       \/ failures < MaxFailures /\ failures' = failures + 1 /\ seeder' = "ended"
    /\ UNCHANGED <<db, draft, tx, adminRole, claimed, cleared, history, crashes>>

SeedAdmin ==
    /\ seeder = "begin"
    /\ Open("seed", AdminName)
    /\ seeder' = "transaction"

(* The process dies and starts again. *)
Restart ==
    /\ crashes < MaxCrashes
    /\ crashes' = crashes + 1
    /\ draft' = db
    /\ tx' = NoTx
    /\ seeder' = "off"
    /\ claimed' = FALSE
    /\ cleared' = FALSE
    /\ UNCHANGED <<db, adminRole, history, failures>>

(* An operator runs the migrations. *)
Migrate ==
    /\ ~adminRole
    /\ adminRole' = TRUE
    /\ UNCHANGED <<db, draft, tx, seeder, claimed, cleared, history, failures, crashes>>

Next ==
    \/ \E n \in Names :
          register_user(n) \/ create_user(n) \/ update_user(n) \/ update_user_profile(n)
    \/ is_admin
    \/ CountAdmins \/ SeedAdmin
    \/ \E part \in Parts \ {"edited"} : Insert(part)
    \/ \E part \in DOMAIN Drop : Delete(part)
    \/ Update \/ Conflict \/ RoleMissing \/ Throw \/ Finish
    \/ StatementFails \/ CommitFails
    \/ create_role \/ update_role \/ delete_role
    \/ Restart
    \/ Migrate

Spec == Init /\ [][Next]_vars

-----------------------------------------------------------------------------
(* Properties *)

(* What an account never lacks, and a registered one not before an edit     *)
Complete(n) ==
    /\ {"user", "profile"} \subseteq db[n]
    /\ made[n] = "register" /\ n \notin edited => "contact" \in db[n]

(* An account that a client registered or an administrator created is       *)
(* stored with every part it is made of and keeps them, whichever statement *)
(* failed, even the COMMIT, whatever the JSON held and whenever the process *)
(* died (auth_repository.cpp create_user, update_user_profile,              *)
(* admin_repository.cpp create_user, update_user).                          *)
StoredWhole == \A n \in Names : db[n] # {} /\ made[n] # "seed" => Complete(n)

(* What the answers say is true.  An account is as the last transaction     *)
(* answered with success left it, but for a role that came or went: no      *)
(* conflict, failing statement or crash before the COMMIT leaves a trace.   *)
(* Only an error raised by the COMMIT itself leaves open which of the two   *)
(* states is stored, and one by a coroutine that left half-way says nothing *)
(* of the account until the next answer (create_user and update_user of     *)
(* admin_repository.cpp, create_user and update_user_profile of             *)
(* auth_repository.cpp).                                                    *)
AnswersAreTrue == \A n \in Names : db[n] \in told[n]

(* A seeder that logged its success has left an administrator with the      *)
(* configured name, though others may register in the middle of its run and *)
(* the role may appear in the middle of it, until somebody edits that       *)
(* account or deletes or renames the role (seeder_utils.cpp).               *)
ClaimHolds == claimed => AdminName \in Admins \cup edited

(* utils/seeder_utils.cpp:54: a transaction ensures atomicity.              *)
AllOrNothing == \A n \in Names : db[n] # {} => Complete(n)
=============================================================================
