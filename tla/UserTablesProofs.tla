-------------------------- MODULE UserTablesProofs --------------------------
(***************************************************************************)
(* Theorems about UserTables, for any names, failures and restarts.  The   *)
(* argument: a transaction changes one account alone; one that makes an    *)
(* account has stored in its draft all it needs except what its remaining  *)
(* statements are going to store, and found no account of that name; one   *)
(* that changes an account removes nothing but assignments and contacts.   *)
(***************************************************************************)
EXTENDS UserTables, SequenceTheorems, TLAPS

(* What the plans of those who make an account come to, statement by        *)
(* statement                                                                *)
Todos ==
    [seed     |-> {<<"user", "admin", "profile">>, <<"admin", "profile">>, <<"profile">>, <<>>},
     register |-> {<<"user", "profile", "contact">>, <<"profile", "contact">>, <<"contact">>, <<>>},
     create   |-> {<<"user", "profile">>, <<"user", "profile", "admin">>, <<"profile">>,
                   <<"profile", "admin">>, <<"admin">>, <<>>}]

(* What a maker stores whatever roles there are, and the seeder its role    *)
Required == [seed     |-> {"user", "admin", "profile"},
             register |-> {"user", "profile", "contact"},
             create   |-> {"user", "profile"}]

Ahead(todo) == {todo[i] : i \in DOMAIN todo}

Unbegun(todo) == todo # <<>> /\ Head(todo) = "user"

Framed == \A n \in Names : n # tx.name => draft[n] = db[n]

Making ==
    tx.kind \in Makers =>
        /\ tx.kind = "seed" => tx.name = AdminName
        /\ tx.todo \in Todos[tx.kind]
        /\ IF Unbegun(tx.todo) THEN draft = db ELSE db[tx.name] = {}
        /\ Required[tx.kind] \ Ahead(tx.todo) \subseteq draft[tx.name]

Changing ==
    tx.kind \in {"update", "profile"} =>
        /\ db[tx.name] # {}
        /\ db[tx.name] \ {"contact", "admin", "edited"} \subseteq draft[tx.name]

TablesInv == TypeOK /\ Framed /\ Making /\ Changing

-----------------------------------------------------------------------------
(* Plans *)

LEMMA ShortSequences ==
    ASSUME NEW S, NEW a \in S, NEW b \in S, NEW c \in S, NEW d \in S
    PROVE  /\ <<a>> \in Seq(S) /\ <<a, b>> \in Seq(S)
           /\ <<a, b, c>> \in Seq(S) /\ <<a, b, c, d>> \in Seq(S)
  OBVIOUS

LEMMA PlanTypes ==
    ASSUME NEW kind \in Kinds, NEW plan \in Plans(kind)
    PROVE  plan \in Seq(Statements)
  <1>1. /\ "user" \in Statements /\ "profile" \in Statements /\ "contact" \in Statements
        /\ "admin" \in Statements /\ "edited" \in Statements
        /\ Drop.admin \in Statements /\ Drop.contact \in Statements
    BY DEF Statements, Parts
  <1>2. CASE kind = "seed"
    <2>1. plan = <<"user", "admin", "profile">>
      BY <1>2 DEF Plans
    <2> QED  BY <1>1, <2>1, ShortSequences
  <1>3. CASE kind = "register"
    <2>1. plan = <<"user", "profile", "contact">>
      BY <1>3 DEF Plans
    <2> QED  BY <1>1, <2>1, ShortSequences
  <1>4. CASE kind = "create"
    <2>1. plan = <<"user", "profile">> \/ plan = <<"user", "profile", "admin">>
      BY <1>4 DEF Plans
    <2> QED  BY <1>1, <2>1, ShortSequences
  <1>5. CASE kind = "update"
    <2>1. \/ plan = <<"edited", "edited">>
          \/ plan = <<"edited", "edited", Drop.admin>>
          \/ plan = <<"edited", "edited", Drop.admin, "admin">>
      BY <1>5 DEF Plans
    <2> QED  BY <1>1, <2>1, ShortSequences
  <1>6. CASE kind = "profile"
    <2>1. \/ plan = <<"profile", "edited">>
          \/ plan = <<"profile", "edited", Drop.contact>>
          \/ plan = <<"profile", "edited", Drop.contact, "contact">>
      BY <1>6 DEF Plans
    <2> QED  BY <1>1, <2>1, ShortSequences
  <1> QED  BY <1>2, <1>3, <1>4, <1>5, <1>6 DEF Kinds, Makers

LEMMA AheadIs ==
    ASSUME NEW s \in Seq(Statements), s # <<>>
    PROVE  Ahead(s) = {Head(s)} \cup Ahead(Tail(s))
  <1>1. /\ Len(s) \in Nat \ {0} /\ DOMAIN s = 1..Len(s)
        /\ Len(Tail(s)) = Len(s) - 1 /\ DOMAIN Tail(s) = 1..(Len(s) - 1)
        /\ Head(s) = s[1]
        /\ \A i \in 1..(Len(s) - 1) : Tail(s)[i] = s[i + 1]
    BY EmptySeq, LenProperties, HeadTailProperties
  <1>2. ASSUME NEW i \in 1..Len(s)
        PROVE  s[i] \in {s[1]} \cup Ahead(Tail(s))
    <2>1. CASE i = 1
      BY <2>1
    <2>2. CASE i # 1
      <3>1. i - 1 \in DOMAIN Tail(s) /\ Tail(s)[i - 1] = s[i]
        BY <1>1, <2>2
      <3> QED  BY <3>1 DEF Ahead
    <2> QED  BY <2>1, <2>2
  <1>3. ASSUME NEW i \in 1..(Len(s) - 1)
        PROVE  Tail(s)[i] \in Ahead(s)
    <2>1. i + 1 \in DOMAIN s /\ Tail(s)[i] = s[i + 1]
      BY <1>1
    <2> QED  BY <2>1 DEF Ahead
  <1>4. s[1] \in Ahead(s)
    BY <1>1 DEF Ahead
  <1> QED  BY <1>1, <1>2, <1>3, <1>4 DEF Ahead

(* How a maker begins                                                       *)
LEMMA PlanIs ==
    ASSUME NEW kind \in Makers, NEW plan \in Plans(kind)
    PROVE  plan \in Todos[kind] /\ Unbegun(plan) /\ Required[kind] \subseteq Ahead(plan)
  <1>1. /\ Head(<<"user", "admin", "profile">>) = "user"
        /\ Head(<<"user", "profile", "contact">>) = "user"
        /\ Head(<<"user", "profile">>) = "user" /\ Head(<<"user", "profile", "admin">>) = "user"
    OBVIOUS
  <1>2. /\ {"user", "admin", "profile"} \subseteq Ahead(<<"user", "admin", "profile">>)
        /\ {"user", "profile", "contact"} \subseteq Ahead(<<"user", "profile", "contact">>)
        /\ {"user", "profile"} \subseteq Ahead(<<"user", "profile">>)
        /\ {"user", "profile"} \subseteq Ahead(<<"user", "profile", "admin">>)
    BY DEF Ahead
  <1>3. CASE kind = "seed"
    BY <1>1, <1>2, <1>3 DEF Plans, Todos, Unbegun, Required
  <1>4. CASE kind = "register"
    BY <1>1, <1>2, <1>4 DEF Plans, Todos, Unbegun, Required
  <1>5. CASE kind = "create"
    BY <1>1, <1>2, <1>5 DEF Plans, Todos, Unbegun, Required
  <1> QED  BY <1>3, <1>4, <1>5 DEF Makers

(* How it goes on                                                           *)
LEMMA StageIs ==
    ASSUME NEW kind \in Makers, NEW s \in Todos[kind], s # <<>>
    PROVE  /\ Tail(s) \in Todos[kind]
           /\ ~Unbegun(Tail(s))
           /\ Head(s) \in Parts \ {"edited"}
           /\ kind = "create" /\ Head(s) = "admin" => s = <<"admin">>
           /\ kind = "register" => Head(s) # "admin"
           /\ kind = "create" => Head(s) # "contact"
  <1>1. /\ Tail(<<"user", "admin", "profile">>) = <<"admin", "profile">>
        /\ Tail(<<"admin", "profile">>) = <<"profile">>
        /\ Tail(<<"profile">>) = <<>> /\ Tail(<<"contact">>) = <<>> /\ Tail(<<"admin">>) = <<>>
        /\ Tail(<<"user", "profile", "contact">>) = <<"profile", "contact">>
        /\ Tail(<<"profile", "contact">>) = <<"contact">>
    OBVIOUS
  <1>2. /\ Tail(<<"user", "profile">>) = <<"profile">>
        /\ Tail(<<"user", "profile", "admin">>) = <<"profile", "admin">>
        /\ Tail(<<"profile", "admin">>) = <<"admin">>
    OBVIOUS
  <1>3. /\ Head(<<"user", "admin", "profile">>) = "user" /\ Head(<<"admin", "profile">>) = "admin"
        /\ Head(<<"profile">>) = "profile" /\ Head(<<"contact">>) = "contact"
        /\ Head(<<"admin">>) = "admin"
        /\ Head(<<"user", "profile", "contact">>) = "user"
        /\ Head(<<"profile", "contact">>) = "profile"
    OBVIOUS
  <1>4. /\ Head(<<"user", "profile">>) = "user" /\ Head(<<"user", "profile", "admin">>) = "user"
        /\ Head(<<"profile", "admin">>) = "profile"
    OBVIOUS
  <1>5. CASE kind = "seed"
    BY <1>1, <1>3, <1>5 DEF Todos, Unbegun, Parts
  <1>6. CASE kind = "register"
    BY <1>1, <1>3, <1>6 DEF Todos, Unbegun, Parts
  <1>7. CASE kind = "create"
    BY <1>1, <1>2, <1>3, <1>4, <1>7 DEF Todos, Unbegun, Parts
  <1> QED  BY <1>5, <1>6, <1>7 DEF Makers

-----------------------------------------------------------------------------
(* Type correctness *)

(* What the creation, renaming or deletion of the role does                 *)
Regrants ==
    /\ tx' = NoTx
    /\ draft' = db'
    /\ UNCHANGED <<made, edited>>
    /\ \A n \in Names :
          /\ db'[n] \ {"admin"} = db[n] \ {"admin"}
          /\ db[n] = {} => db'[n] = {}
          /\ claimed' => claimed /\ db[n] \subseteq db'[n]
          /\ db[n] \in told[n] => db'[n] \in told'[n]

LEMMA NoTxIs == NoTx.kind = "none" /\ NoTx.name = NoName /\ NoTx.todo = <<>>
  BY DEF NoTx

LEMMA TypeInit == Init => TypeOK
  <1>1. <<>> \in Seq(Statements)
    BY EmptySeq
  <1> SUFFICES ASSUME Init PROVE TypeOK
    OBVIOUS
  <1>2. adminRole \in BOOLEAN
    BY SeederAssumption, Zenon DEF Init
  <1>3. NoTx \in [kind : Kinds \cup {"none"}, name : Names \cup {NoName}, todo : Seq(Statements)]
    BY <1>1 DEF NoTx
  <1>4. failures \in 0..MaxFailures /\ crashes \in 0..MaxCrashes
    BY SeederAssumption DEF Init
  <1>5. /\ db \in [Names -> SUBSET Parts] /\ draft = db
        /\ told \in [Names -> SUBSET SUBSET Parts]
        /\ made \in [Names -> Makers \cup {"none"}]
    BY DEF Init
  <1> QED  BY <1>2, <1>3, <1>4, <1>5, NoTxIs DEF Init, TypeOK

LEMMA OpenTypes ==
    ASSUME TypeOK, NEW kind \in Kinds, NEW n \in Names, Open(kind, n),
           IF kind = "seed" THEN seeder' = "transaction" ELSE UNCHANGED seeder
    PROVE  TypeOK'
  <1>1. PICK plan \in Plans(kind) : tx' = [kind |-> kind, name |-> n, todo |-> plan]
    BY DEF Open
  <1>2. plan \in Seq(Statements)
    BY PlanTypes
  <1>3. /\ tx' \in [kind : Kinds \cup {"none"}, name : Names \cup {NoName}, todo : Seq(Statements)]
        /\ tx'.kind = kind /\ tx'.name = n /\ tx' # NoTx
    <2>1. "none" \notin Kinds
      BY DEF Kinds, Makers
    <2> QED  BY <1>1, <1>2, <2>1, NoTxIs
  <1>4. seeder' = "transaction" <=> tx'.kind = "seed"
    BY <1>3, NoTxIs DEF TypeOK, Open
  <1>5. seeder' \in {"off", "begin", "transaction", "ended"}
    BY DEF TypeOK
  <1> QED  BY <1>3, <1>4, <1>5 DEF TypeOK, Open, history

LEMMA TxTypes ==
    ASSUME TypeOK, tx # NoTx
    PROVE  tx.kind \in Kinds /\ tx.name \in Names /\ tx.todo \in Seq(Statements)
  BY DEF TypeOK

LEMMA WorkTypes ==
    ASSUME TypeOK, Running, Done, NEW v \in SUBSET Parts,
           draft' = [draft EXCEPT ![tx.name] = v] \/ UNCHANGED draft, KeepRest
    PROVE  TypeOK'
  <1>1. tx.kind \in Kinds /\ tx.name \in Names /\ Tail(tx.todo) \in Seq(Statements)
    BY TxTypes, HeadTailProperties DEF Running
  <1>2. /\ tx' \in [kind : Kinds \cup {"none"}, name : Names \cup {NoName}, todo : Seq(Statements)]
        /\ tx'.kind = tx.kind /\ tx'.name = tx.name
    BY <1>1 DEF Done, TypeOK
  <1>3. tx' # NoTx
    <2>1. "none" \notin Kinds
      BY DEF Kinds, Makers
    <2> QED  BY <1>1, <1>2, <2>1, NoTxIs
  <1>4. draft' \in [Names -> SUBSET Parts]
    BY DEF TypeOK
  <1> QED  BY <1>1, <1>2, <1>3, <1>4 DEF TypeOK, KeepRest, history

LEMMA CloseTypes ==
    ASSUME TypeOK, tx # NoTx, Close
    PROVE  /\ tx' = NoTx
           /\ tx' \in [kind : Kinds \cup {"none"}, name : Names \cup {NoName}, todo : Seq(Statements)]
           /\ seeder' \in {"off", "begin", "transaction", "ended"}
           /\ seeder' = "transaction" <=> tx'.kind = "seed"
  <1>1. <<>> \in Seq(Statements)
    BY EmptySeq
  <1>2. seeder' \in {"off", "begin", "ended"}
    BY DEF Close, TypeOK
  <1> QED  BY <1>1, <1>2, NoTxIs DEF Close, NoTx

LEMMA RollBackTypes ==
    ASSUME TypeOK, tx # NoTx, RollBack, claimed' \in BOOLEAN, failures' \in 0..MaxFailures,
           told' \in [Names -> SUBSET SUBSET Parts]
    PROVE  TypeOK'
  BY CloseTypes DEF RollBack, TypeOK

LEMMA StoreTypes ==
    ASSUME TypeOK, tx # NoTx, Store, claimed' \in BOOLEAN, failures' \in 0..MaxFailures,
           told' \in [Names -> SUBSET SUBSET Parts]
    PROVE  TypeOK'
  <1>1. tx.kind \in Kinds /\ tx.name \in Names
    BY TxTypes
  <1>2. made' \in [Names -> Makers \cup {"none"}] /\ edited' \subseteq Names
    BY <1>1 DEF Store, TypeOK
  <1> QED  BY <1>2, CloseTypes DEF Store, TypeOK

LEMMA AbandonTypes ==
    ASSUME TypeOK, tx # NoTx, Abandon
    PROVE  TypeOK'
  <1>1. claimed' \in BOOLEAN /\ failures' \in 0..MaxFailures
    BY DEF Abandon, TypeOK
  <1>2. told' \in [Names -> SUBSET SUBSET Parts]
    BY DEF Abandon, TypeOK
  <1> QED  BY <1>1, <1>2, RollBackTypes, StoreTypes DEF Abandon

(* A role that comes or goes changes the assignments of admin and nothing   *)
(* else.                                                                    *)
LEMMA RoleIs ==
    ASSUME TypeOK, NEW there \in BOOLEAN, NEW holders \in SUBSET Names,
           ChangeRole(there, holders)
    PROVE  TypeOK' /\ Regrants
  <1> DEFINE Now(parts, n) == (IF there THEN parts ELSE parts \ {"admin"})
                              \cup (IF n \in holders /\ parts # {} THEN {"admin"} ELSE {})
  <1>1. /\ db' = [n \in Names |-> Now(db[n], n)]
        /\ told' = [n \in Names |-> {Now(parts, n) : parts \in told[n]}]
        /\ tx = NoTx /\ draft' = db' /\ adminRole' = there /\ claimed' = (claimed /\ there)
        /\ UNCHANGED <<tx, seeder, cleared, made, edited, failures, crashes>>
    BY DEF ChangeRole
  <1>2. ASSUME NEW n \in Names, NEW parts \in SUBSET Parts
        PROVE  /\ Now(parts, n) \in SUBSET Parts
               /\ Now(parts, n) \ {"admin"} = parts \ {"admin"}
               /\ there => parts \subseteq Now(parts, n)
               /\ parts = {} => Now(parts, n) = {}
    BY DEF Parts
  <1>3. db \in [Names -> SUBSET Parts] /\ told \in [Names -> SUBSET SUBSET Parts]
    BY DEF TypeOK
  <1>4. db' \in [Names -> SUBSET Parts]
    BY <1>1, <1>2, <1>3
  <1>5. told' \in [Names -> SUBSET SUBSET Parts]
    <2>1. \A n \in Names : \A parts \in told[n] : Now(parts, n) \in SUBSET Parts
      BY <1>2, <1>3
    <2> HIDE DEF Now
    <2>2. \A n \in Names : {Now(parts, n) : parts \in told[n]} \in SUBSET SUBSET Parts
      BY <2>1
    <2> QED  BY <1>1, <2>2
  <1>6. claimed' \in BOOLEAN /\ adminRole' \in BOOLEAN
    BY <1>1 DEF TypeOK
  <1>7. TypeOK'
    BY <1>1, <1>4, <1>5, <1>6 DEF TypeOK
  <1>8. ASSUME NEW n \in Names
        PROVE  /\ db'[n] \ {"admin"} = db[n] \ {"admin"}
               /\ db[n] = {} => db'[n] = {}
               /\ claimed' => claimed /\ db[n] \subseteq db'[n]
               /\ db[n] \in told[n] => db'[n] \in told'[n]
    <2>1. db'[n] = Now(db[n], n) /\ told'[n] = {Now(parts, n) : parts \in told[n]}
      BY <1>1
    <2>2. db[n] \in SUBSET Parts
      BY <1>3
    <2>3. db[n] \in told[n] => db'[n] \in told'[n]
      <3> HIDE DEF Now
      <3> QED  BY <2>1
    <2> QED  BY <1>1, <1>2, <2>1, <2>2, <2>3
  <1> QED  BY <1>1, <1>7, <1>8 DEF Regrants

LEMMA RolesAre ==
    ASSUME TypeOK, create_role \/ update_role \/ delete_role
    PROVE  TypeOK' /\ Regrants
  <1>1. PICK there \in BOOLEAN, holders \in SUBSET Names : ChangeRole(there, holders)
    BY DEF create_role, update_role, delete_role
  <1> QED  BY <1>1, RoleIs

LEMMA TypeNext == ASSUME TypeOK, [Next]_vars PROVE TypeOK'
  <1>1. ASSUME NEW n \in Names,
               register_user(n) \/ create_user(n) \/ update_user(n) \/ update_user_profile(n)
        PROVE  TypeOK'
    <2>1. PICK kind \in {"register", "create", "update", "profile"} : Open(kind, n) /\ UNCHANGED seeder
      BY <1>1 DEF register_user, create_user, update_user, update_user_profile
    <2>2. kind \in Kinds /\ kind # "seed"
      BY DEF Kinds, Makers
    <2> QED  BY <2>1, <2>2, OpenTypes
  <1>2. CASE is_admin
    BY <1>2 DEF is_admin, TypeOK, history
  <1>3. CASE CountAdmins
    <2>1. failures' \in 0..MaxFailures
      BY <1>3, SeederAssumption DEF CountAdmins, TypeOK
    <2>2. seeder' \in {"begin", "ended"} /\ tx = NoTx
      BY <1>3 DEF CountAdmins
    <2> QED  BY <1>3, <2>1, <2>2, NoTxIs DEF CountAdmins, TypeOK, history
  <1>4. CASE SeedAdmin
    <2>1. Open("seed", AdminName) /\ seeder' = "transaction" /\ "seed" \in Kinds
      BY <1>4 DEF SeedAdmin, Kinds, Makers
    <2> QED  BY <2>1, OpenTypes, SeederAssumption
  <1>5. ASSUME NEW part \in Parts \ {"edited"}, Insert(part)
        PROVE  TypeOK'
    <2>1. draft[tx.name] \cup {part} \in SUBSET Parts
      BY <1>5, TxTypes DEF Insert, Running, TypeOK
    <2> QED  BY <1>5, <2>1, WorkTypes DEF Insert
  <1>6. ASSUME NEW part \in DOMAIN Drop, Delete(part)
        PROVE  TypeOK'
    <2>1. draft[tx.name] \ {part} \in SUBSET Parts
      BY <1>6, TxTypes DEF Delete, Running, TypeOK
    <2> QED  BY <1>6, <2>1, WorkTypes DEF Delete
  <1>7. CASE Update
    <2>1. PICK value \in {{}, {"edited"}} :
             draft' = [draft EXCEPT ![tx.name] = (@ \ {"edited"}) \cup value]
      BY <1>7 DEF Update
    <2>2. (draft[tx.name] \ {"edited"}) \cup value \in SUBSET Parts
      BY <1>7, TxTypes DEF Update, Running, TypeOK, Parts
    <2> QED  BY <1>7, <2>1, <2>2, WorkTypes DEF Update
  <1>8. CASE Conflict
    BY <1>8, RollBackTypes DEF Conflict, Running, TypeOK
  <1>9. CASE RoleMissing
    <2>1. CASE tx.kind = "seed"
      BY <1>9, <2>1, AbandonTypes DEF RoleMissing, NoRole, Running
    <2>2. CASE tx.kind # "seed"
      <3>1. Running /\ Done /\ UNCHANGED draft /\ KeepRest /\ {} \in SUBSET Parts
        BY <1>9, <2>2 DEF RoleMissing, NoRole
      <3> QED  BY <3>1, WorkTypes
    <2> QED  BY <2>1, <2>2
  <1>10. CASE Throw
    BY <1>10, AbandonTypes DEF Throw, Running
  <1>11. CASE Finish
    <2>1. tx # NoTx /\ Store /\ claimed' \in BOOLEAN /\ failures' \in 0..MaxFailures
      BY <1>11 DEF Finish, Commit, LogSuccess, TypeOK
    <2>2. told' \in [Names -> SUBSET SUBSET Parts]
      BY <1>11, TxTypes DEF Finish, Commit, TypeOK
    <2> QED  BY <2>1, <2>2, StoreTypes
  <1>12. CASE StatementFails \/ CommitFails
    <2>1. tx # NoTx /\ claimed' \in BOOLEAN
      BY <1>12 DEF StatementFails, CommitFails, Running, LogSuccess, TypeOK
    <2>2. failures' \in 0..MaxFailures
      BY <1>12, SeederAssumption DEF StatementFails, CommitFails, Fails, TypeOK
    <2>3. told' \in [Names -> SUBSET SUBSET Parts]
      BY <1>12, <2>1, TxTypes DEF StatementFails, CommitFails, TypeOK
    <2> QED  BY <1>12, <2>1, <2>2, <2>3, RollBackTypes, StoreTypes DEF StatementFails, CommitFails
  <1>13. CASE Restart
    <2>1. crashes' \in 0..MaxCrashes
      BY <1>13, SeederAssumption DEF Restart, TypeOK
    <2>2. NoTx \in [kind : Kinds \cup {"none"}, name : Names \cup {NoName}, todo : Seq(Statements)]
      BY EmptySeq DEF NoTx
    <2> QED  BY <1>13, <2>1, <2>2, NoTxIs DEF Restart, TypeOK, history
  <1>14. CASE Migrate
    BY <1>14 DEF Migrate, TypeOK, history
  <1>15. CASE UNCHANGED vars
    BY <1>15 DEF vars, history, TypeOK
  <1>16. CASE create_role \/ update_role \/ delete_role
    BY <1>16, RolesAre
  <1> QED  BY <1>1, <1>2, <1>3, <1>4, <1>5, <1>6, <1>7, <1>8, <1>9, <1>10, <1>11, <1>12, <1>13,
              <1>14, <1>15, <1>16 DEF Next

(* Type correctness of UserTables: outside a transaction nothing is stored  *)
(* but what is committed, and the seeder's state and the transaction under  *)
(* way agree.                                                               *)
THEOREM TypeCorrect == Spec => []TypeOK
  BY TypeInit, TypeNext, PTL DEF Spec

-----------------------------------------------------------------------------
(* The steps *)

Still == UNCHANGED <<db, draft, tx, history>>

Begins ==
    \E kind \in Kinds, n \in Names :
        /\ Open(kind, n)
        /\ kind = "seed" => n = AdminName
        /\ kind \notin Makers => db[n] # {}

Works ==
    /\ Running
    /\ Done
    /\ UNCHANGED <<db, history>>
    /\ \/ \E part \in Parts \ {"edited"} : Insert(part)
       \/ \E part \in DOMAIN Drop : Delete(part)
       \/ Update
       \/ NoRole /\ tx.kind # "seed" /\ UNCHANGED draft

(* The transaction leaves no trace, but that its COMMIT may have raised an   *)
(* error.                                                                   *)
Breaks ==
    /\ tx' = NoTx
    /\ draft' = db
    /\ UNCHANGED <<db, made, edited>>
    /\ \A n \in Names : told[n] \subseteq told'[n]

(* An abandoned transaction that has changed something                      *)
Leaves ==
    /\ (RoleMissing /\ tx.kind = "seed") \/ Throw
    /\ Store
    /\ told' = [told EXCEPT ![tx.name] = SUBSET Parts]
    /\ UNCHANGED claimed

(* One that is committed, whatever is answered                              *)
Finishes == Finish \/ (CommitFails /\ Store)

LEMMA AbandonIs ==
    ASSUME (RoleMissing /\ tx.kind = "seed") \/ Throw
    PROVE  Breaks \/ Leaves
  <1>1. Abandon
    BY DEF RoleMissing, Throw
  <1>2. CASE draft = db
    BY <1>1, <1>2 DEF Abandon, RollBack, Close, Breaks
  <1>3. CASE draft # db
    BY <1>1, <1>3 DEF Abandon, Leaves
  <1> QED  BY <1>2, <1>3

LEMMA Steps ==
    ASSUME TypeOK, [Next]_vars
    PROVE  Still \/ Begins \/ Works \/ Breaks \/ Leaves \/ Finishes \/ Regrants
  <1>1. ASSUME NEW n \in Names,
               register_user(n) \/ create_user(n) \/ update_user(n) \/ update_user_profile(n)
        PROVE  Begins
    <2>1. PICK kind \in Kinds \ {"seed"} : Open(kind, n) /\ (kind \notin Makers => db[n] # {})
      BY <1>1 DEF register_user, create_user, update_user, update_user_profile, Kinds, Makers
    <2> QED  BY <2>1 DEF Begins
  <1>2. CASE is_admin \/ CountAdmins \/ Migrate \/ UNCHANGED vars
    BY <1>2 DEF is_admin, CountAdmins, Migrate, vars, history, Still
  <1>3. CASE SeedAdmin
    <2>1. Open("seed", AdminName) /\ "seed" \in Kinds /\ "seed" \in Makers /\ AdminName \in Names
      BY <1>3, SeederAssumption DEF SeedAdmin, Kinds, Makers
    <2> QED  BY <2>1 DEF Begins
  <1>4. ASSUME NEW part \in Parts \ {"edited"}, Insert(part)
        PROVE  Works
    BY <1>4 DEF Insert, KeepRest, Works
  <1>5. ASSUME NEW part \in DOMAIN Drop, Delete(part)
        PROVE  Works
    BY <1>5 DEF Delete, KeepRest, Works
  <1>6. CASE Update
    BY <1>6 DEF Update, KeepRest, Works
  <1>7. CASE Conflict \/ StatementFails
    BY <1>7 DEF Conflict, StatementFails, RollBack, Close, Breaks
  <1>8. CASE (RoleMissing /\ tx.kind = "seed") \/ Throw
    BY <1>8, AbandonIs
  <1>9. CASE RoleMissing /\ tx.kind # "seed"
    BY <1>9 DEF RoleMissing, NoRole, KeepRest, Works
  <1>10. CASE Restart
    BY <1>10 DEF Restart, Breaks, history
  <1>11. CASE Finish
    BY <1>11 DEF Finishes
  <1>12. CASE CommitFails
    <2>1. CASE Store
      BY <1>12, <2>1 DEF Finishes
    <2>2. CASE RollBack
      <3>1. \A n \in Names : told[n] \subseteq told'[n]
        BY <1>12 DEF CommitFails, TypeOK
      <3> QED  BY <2>2, <3>1 DEF RollBack, Close, Breaks
    <2> QED  BY <1>12, <2>1, <2>2 DEF CommitFails
  <1>13. CASE create_role \/ update_role \/ delete_role
    BY <1>13, RolesAre
  <1> QED  BY <1>1, <1>2, <1>3, <1>4, <1>5, <1>6, <1>7, <1>8, <1>9, <1>10, <1>11, <1>12,
              <1>13 DEF Next

-----------------------------------------------------------------------------
(* The invariant *)

LEMMA Kinded == "none" \notin Kinds /\ Kinds = Makers \cup {"update", "profile"}
                /\ "update" \notin Makers /\ "profile" \notin Makers
  BY DEF Kinds, Makers

LEMMA Quiet ==
    ASSUME tx = NoTx, draft = db
    PROVE  Framed /\ Making /\ Changing
  BY NoTxIs, Kinded DEF Framed, Making, Changing

LEMMA BeginsKeeps ==
    ASSUME TypeOK, Begins
    PROVE  Framed' /\ Making' /\ Changing'
  <1>1. PICK kind \in Kinds, n \in Names :
           Open(kind, n) /\ (kind = "seed" => n = AdminName) /\ (kind \notin Makers => db[n] # {})
    BY DEF Begins
  <1>2. PICK plan \in Plans(kind) : tx' = [kind |-> kind, name |-> n, todo |-> plan]
    BY <1>1 DEF Open
  <1>3. tx'.kind = kind /\ tx'.name = n /\ tx'.todo = plan
    BY <1>2
  <1>4. draft' = draft /\ db' = db /\ draft = db
    BY <1>1 DEF Open, TypeOK
  <1>5. Framed'
    BY <1>4 DEF Framed
  <1>6. Making'
    <2> SUFFICES ASSUME kind \in Makers PROVE Making'
      BY <1>3 DEF Making
    <2>1. plan \in Todos[kind] /\ Unbegun(plan) /\ Required[kind] \subseteq Ahead(plan)
      BY PlanIs
    <2>2. Required[kind] \ Ahead(plan) = {}
      BY <2>1
    <2> QED  BY <1>1, <1>3, <1>4, <2>1, <2>2 DEF Making
  <1>7. Changing'
    BY <1>1, <1>3, <1>4, Kinded DEF Changing
  <1> QED  BY <1>5, <1>6, <1>7

(* A statement that succeeds goes on, and touches one account of the draft.  *)
Advanced ==
    /\ tx.kind \in Kinds /\ tx.name \in Names /\ tx.todo \in Seq(Statements)
    /\ tx.todo # <<>>
    /\ tx'.kind = tx.kind /\ tx'.name = tx.name /\ tx'.todo = Tail(tx.todo)
    /\ db' = db
    /\ \A n \in Names : n # tx.name => draft'[n] = draft[n]
    /\ draft[tx.name] \ {"contact", "admin", "edited"} \subseteq draft'[tx.name]

LEMMA WorksIs == ASSUME TypeOK, Works PROVE Advanced
  <1>1. tx.kind \in Kinds /\ tx.name \in Names /\ tx.todo \in Seq(Statements) /\ tx.todo # <<>>
    BY TxTypes DEF Works, Running
  <1>2. tx'.kind = tx.kind /\ tx'.name = tx.name /\ tx'.todo = Tail(tx.todo) /\ db' = db
    BY <1>1 DEF Works, Done, TypeOK
  <1> DEFINE Effect ==
               /\ \A n \in Names : n # tx.name => draft'[n] = draft[n]
               /\ draft[tx.name] \ {"contact", "admin", "edited"} \subseteq draft'[tx.name]
  <1>3. Effect
    <2>0. draft \in [Names -> SUBSET Parts]
      BY DEF TypeOK
    <2>1. ASSUME NEW part \in Parts \ {"edited"}, Insert(part)
          PROVE  Effect
      BY <1>1, <2>0, <2>1 DEF Insert
    <2>2. ASSUME NEW part \in DOMAIN Drop, Delete(part)
          PROVE  Effect
      BY <1>1, <2>0, <2>2 DEF Delete, Drop
    <2>3. CASE Update
      BY <1>1, <2>0, <2>3 DEF Update
    <2>4. CASE UNCHANGED draft
      BY <2>4
    <2> QED  BY <2>1, <2>2, <2>3, <2>4 DEF Works
  <1> QED  BY <1>1, <1>2, <1>3 DEF Advanced

LEMMA WorksKeepsMaking ==
    ASSUME TypeOK, Making, Works, tx.kind \in Makers
    PROVE  Making'
  <1> DEFINE s == tx.todo
  <1>1. /\ tx.name \in Names /\ s \in Seq(Statements) /\ s # <<>>
        /\ tx'.kind = tx.kind /\ tx'.name = tx.name /\ tx'.todo = Tail(s)
        /\ db' = db /\ draft \in [Names -> SUBSET Parts]
    BY WorksIs DEF Advanced, TypeOK
  <1>2. /\ s \in Todos[tx.kind]
        /\ tx.kind = "seed" => tx.name = AdminName
        /\ IF Unbegun(s) THEN draft = db ELSE db[tx.name] = {}
        /\ Required[tx.kind] \ Ahead(s) \subseteq draft[tx.name]
    BY DEF Making
  <1>3. /\ Tail(s) \in Todos[tx.kind]
        /\ ~Unbegun(Tail(s))
        /\ Head(s) \in Parts \ {"edited"}
        /\ tx.kind = "create" /\ Head(s) = "admin" => s = <<"admin">>
        /\ tx.kind = "register" => Head(s) # "admin"
    BY <1>1, <1>2, StageIs
  <1>4. Ahead(s) = {Head(s)} \cup Ahead(Tail(s))
    BY <1>1, AheadIs
  <1>5. ASSUME NEW part \in Parts \ {"edited"}, Insert(part)
        PROVE  db[tx.name] = {} /\ Required[tx.kind] \ Ahead(Tail(s)) \subseteq draft'[tx.name]
    <2>1. /\ Head(s) = part
          /\ part = "user" => draft[tx.name] = {}
          /\ draft'[tx.name] = draft[tx.name] \cup {part}
      BY <1>1, <1>5 DEF Insert
    <2>2. db[tx.name] = {}
      BY <1>2, <2>1 DEF Unbegun
    <2> QED  BY <1>2, <1>4, <2>1, <2>2
  <1>6. ASSUME NEW part \in DOMAIN Drop, Delete(part)
        PROVE  FALSE
    <2>1. part \in {"admin", "contact"} /\ Head(s) = Drop[part]
      BY <1>6 DEF Delete, Drop
    <2>2. Drop["admin"] \notin Parts /\ Drop["contact"] \notin Parts
      BY DEF Drop, Parts
    <2> QED  BY <1>3, <2>1, <2>2
  <1>7. CASE Update
    BY <1>3, <1>7 DEF Update
  <1>8. CASE NoRole /\ tx.kind # "seed" /\ UNCHANGED draft
    <2>1. tx.kind = "create" /\ Head(s) = "admin" /\ s = <<"admin">>
      BY <1>3, <1>8 DEF NoRole, Makers
    <2>2. ~Unbegun(s) /\ "admin" \notin Required[tx.kind]
      BY <2>1 DEF Unbegun, Required
    <2> QED  BY <1>1, <1>2, <1>3, <1>4, <1>8, <2>1, <2>2 DEF Making
  <1>9. ASSUME db[tx.name] = {}, Required[tx.kind] \ Ahead(Tail(s)) \subseteq draft'[tx.name]
        PROVE  Making'
    BY <1>1, <1>2, <1>3, <1>9 DEF Making
  <1> QED  BY <1>5, <1>6, <1>7, <1>8, <1>9 DEF Works

LEMMA TablesNext == ASSUME TablesInv, [Next]_vars PROVE TablesInv'
  <1> USE DEF TablesInv
  <1>1. TypeOK'
    BY TypeNext
  <1>2. CASE Still
    BY <1>1, <1>2 DEF Still, Framed, Making, Changing
  <1>3. CASE Begins
    BY <1>1, <1>3, BeginsKeeps
  <1>4. CASE Works
    <2>1. Advanced
      BY <1>4, WorksIs
    <2> USE DEF Advanced
    <2>2. Framed'
      BY <2>1 DEF Framed
    <2>3. Changing'
      BY <2>1 DEF Changing
    <2>4. Making'
      <3>1. CASE tx.kind \in Makers
        BY <1>4, <3>1, WorksKeepsMaking
      <3>2. CASE tx.kind \notin Makers
        BY <2>1, <3>2 DEF Making
      <3> QED  BY <3>1, <3>2
    <2> QED  BY <1>1, <2>2, <2>3, <2>4
  <1>5. ASSUME tx' = NoTx, draft' = db'
        PROVE  TablesInv'
    BY <1>1, <1>5, NoTxIs, Kinded DEF Framed, Making, Changing
  <1>6. CASE Breaks \/ Regrants
    BY <1>5, <1>6 DEF Breaks, Regrants
  <1>7. CASE Leaves \/ Finishes
    BY <1>5, <1>7 DEF Leaves, Finishes, Finish, Commit, Store, Close
  <1> QED  BY <1>2, <1>3, <1>4, <1>6, <1>7, Steps

LEMMA TablesInit == Init => TablesInv
  BY TypeInit, Quiet DEF Init, TablesInv

LEMMA TablesAlways == Spec => []TablesInv
  BY TablesInit, TablesNext, PTL DEF Spec

-----------------------------------------------------------------------------
(* What a step does to the tables                                           *)

LEMMA NothingStored ==
    ASSUME Still \/ Begins \/ Works \/ Breaks
    PROVE  UNCHANGED <<db, made, edited>> /\ \A n \in Names : told[n] \subseteq told'[n]
  BY DEF Still, Begins, Open, Works, Breaks, history

(* A transaction that stores its draft touches one account.                 *)
Written ==
    /\ tx.kind \in Kinds /\ tx.name \in Names
    /\ Store
    /\ db' = draft
    /\ \A n \in Names \ {tx.name} :
          db'[n] = db[n] /\ made'[n] = made[n] /\ (n \in edited' <=> n \in edited)
    /\ tx.kind \in Makers => made'[tx.name] = tx.kind /\ edited' = edited
    /\ tx.kind \notin Makers => made' = made /\ edited' = edited \cup {tx.name}

LEMMA OneStored == ASSUME TablesInv, Leaves \/ Finishes PROVE Written
  <1>1. tx # NoTx /\ Store
    BY DEF Leaves, Finishes, Finish, CommitFails, Commit, RoleMissing, NoRole, Throw, Running
  <1>2. tx.kind \in Kinds /\ tx.name \in Names
    BY <1>1, TxTypes DEF TablesInv
  <1>3. db' = draft
    BY <1>1 DEF Store
  <1>4. \A n \in Names \ {tx.name} : db'[n] = db[n]
    BY <1>3 DEF TablesInv, Framed
  <1>5. made \in [Names -> Makers \cup {"none"}]
    BY DEF TablesInv, TypeOK
  <1>6. /\ tx.kind \in Makers => made' = [made EXCEPT ![tx.name] = tx.kind] /\ edited' = edited
        /\ tx.kind \notin Makers => made' = made /\ edited' = edited \cup {tx.name}
    BY <1>1 DEF Store
  <1>7. /\ \A n \in Names \ {tx.name} : made'[n] = made[n] /\ (n \in edited' <=> n \in edited)
        /\ tx.kind \in Makers => made'[tx.name] = tx.kind
    BY <1>2, <1>5, <1>6
  <1> QED  BY <1>1, <1>2, <1>3, <1>4, <1>6, <1>7 DEF Written

(* A maker that leaves half-way and is not the seeder has stored all that   *)
(* the account needs, and one that ends has, too.                           *)
LEMMA MakerIsDone ==
    ASSUME TablesInv, tx.kind \in Makers, (Leaves /\ tx.kind # "seed") \/ Finishes
    PROVE  Required[tx.kind] \subseteq draft[tx.name]
  <1>1. /\ tx.todo \in Todos[tx.kind]
        /\ Required[tx.kind] \ Ahead(tx.todo) \subseteq draft[tx.name]
    BY DEF TablesInv, Making
  <1>2. CASE Finishes
    <2>1. Ahead(tx.todo) = {}
      BY <1>2, EmptySeq DEF Finishes, Finish, CommitFails, Ahead
    <2> QED  BY <1>1, <2>1
  <1>3. CASE Leaves /\ tx.kind # "seed"
    <2>1. Throw
      BY <1>3 DEF Leaves
    <2>2. /\ tx.todo # <<>> /\ tx.kind = "create"
          /\ Head(tx.todo) \in {"admin", "edited", "contact"}
      BY <2>1, SeederAssumption DEF Throw, Running, Makers
    <2>3. tx.todo = <<"admin">>
      BY <1>1, <2>2, StageIs
    <2>4. Ahead(<<"admin">>) = {"admin"}
      BY DEF Ahead
    <2>5. "admin" \notin Required[tx.kind]
      BY <2>2 DEF Required
    <2> QED  BY <1>1, <2>3, <2>4, <2>5
  <1> QED  BY <1>2, <1>3

-----------------------------------------------------------------------------
(* Safety *)

AnswersInv == TablesInv /\ AnswersAreTrue

LEMMA AnswersNext == ASSUME AnswersInv, [Next]_vars PROVE AnswersInv'
  <1> USE DEF AnswersInv
  <1>1. TablesInv' /\ TypeOK
    BY TablesNext DEF TablesInv
  <1>2. CASE Still \/ Begins \/ Works \/ Breaks
    BY <1>1, <1>2, NothingStored DEF AnswersAreTrue
  <1>3. CASE Leaves \/ Finishes
    <2>1. Written /\ draft[tx.name] \in SUBSET Parts
      BY <1>1, <1>3, OneStored DEF Written, TypeOK
    <2>2. /\ \A n \in Names \ {tx.name} : told'[n] = told[n]
          /\ draft[tx.name] \in told'[tx.name]
      <3>1. CASE Leaves
        BY <1>1, <2>1, <3>1 DEF Leaves, Written, TypeOK
      <3>2. CASE Finish
        BY <1>1, <2>1, <3>2 DEF Finish, Commit, Written, TypeOK
      <3>3. CASE CommitFails
        BY <1>1, <2>1, <3>3 DEF CommitFails, Written, TypeOK
      <3> QED  BY <1>3, <3>1, <3>2, <3>3 DEF Finishes
    <2> QED  BY <1>1, <2>1, <2>2 DEF Written, AnswersAreTrue
  <1>4. CASE Regrants
    BY <1>1, <1>4 DEF Regrants, AnswersAreTrue
  <1> QED  BY <1>1, <1>2, <1>3, <1>4, Steps

(* What the answers say is true: an account is as the last transaction      *)
(* answered with success left it, or as one whose COMMIT raised an error    *)
(* since would have; no conflict, no other failure and no crash leaves a    *)
(* trace, unless a coroutine left its transaction half-way                  *)
(* (auth_repository.cpp, admin_repository.cpp).                             *)
THEOREM AnswersTrue == Spec => []AnswersAreTrue
  <1>1. Init => AnswersInv
    BY TablesInit DEF Init, AnswersInv, AnswersAreTrue
  <1> QED  BY <1>1, AnswersNext, PTL DEF Spec, AnswersInv

WholeInv == TablesInv /\ StoredWhole

LEMMA WholeNext == ASSUME WholeInv, [Next]_vars PROVE WholeInv'
  <1> USE DEF WholeInv
  <1>1. TablesInv' /\ TypeOK
    BY TablesNext DEF TablesInv
  <1>2. CASE Still \/ Begins \/ Works \/ Breaks
    BY <1>1, <1>2, NothingStored DEF StoredWhole, Complete
  <1>3. CASE Leaves \/ Finishes
    <2>1. Written
      BY <1>3, OneStored
    <2> USE DEF Written
    <2>2. ASSUME NEW n \in Names \ {tx.name}, db'[n] # {}, made'[n] # "seed"
          PROVE  Complete(n)'
      BY <2>1, <2>2 DEF StoredWhole, Complete
    <2>3. ASSUME NEW n \in {tx.name}, made'[n] # "seed"
          PROVE  Complete(n)'
      <3>0. n = tx.name
        BY <2>3
      <3>1. CASE tx.kind \in Makers
        <4>1. /\ made'[n] \in {"register", "create"}
              /\ Required[made'[n]] \subseteq db'[n]
          BY <1>3, <2>1, <2>3, <3>0, <3>1, MakerIsDone DEF Makers
        <4> QED  BY <4>1 DEF Complete, Required
      <3>2. CASE tx.kind \notin Makers
        <4>1. /\ db[n] # {}
              /\ db[n] \ {"contact", "admin", "edited"} \subseteq draft[n]
          BY <2>1, <3>0, <3>2, Kinded DEF TablesInv, Changing
        <4>2. {"user", "profile"} \subseteq db[n]
          BY <2>1, <2>3, <3>0, <3>2, <4>1 DEF StoredWhole, Complete
        <4> QED  BY <2>1, <3>0, <3>2, <4>1, <4>2 DEF Complete
      <3> QED  BY <3>1, <3>2
    <2> QED  BY <1>1, <2>2, <2>3 DEF StoredWhole
  <1>4. CASE Regrants
    <2>1. ASSUME NEW n \in Names, db'[n] # {}, made'[n] # "seed"
          PROVE  Complete(n)'
      <3>1. Complete(n) /\ db'[n] \ {"admin"} = db[n] \ {"admin"}
        BY <1>4, <2>1 DEF Regrants, StoredWhole
      <3> QED  BY <1>4, <3>1 DEF Regrants, Complete
    <2> QED  BY <1>1, <2>1 DEF StoredWhole
  <1> QED  BY <1>1, <1>2, <1>3, <1>4, Steps

(* An account that was registered or created is stored with all its parts   *)
(* and keeps them, whatever fails, throws or dies in between                *)
(* (auth_repository.cpp create_user, update_user_profile,                   *)
(* admin_repository.cpp create_user, update_user).                          *)
THEOREM AccountsWhole == Spec => []StoredWhole
  <1>1. Init => WholeInv
    BY TablesInit DEF Init, WholeInv, StoredWhole
  <1> QED  BY <1>1, WholeNext, PTL DEF Spec, WholeInv

-----------------------------------------------------------------------------
(* The seeder's claim *)

Settled == AdminName \in Admins \cup edited

(* Nothing unsettles the claim: no transaction makes the account again, one *)
(* that changes it counts as an edit, and the claim ends with the role.     *)
LEMMA SettledStays ==
    ASSUME TablesInv, Settled, [Next]_vars, claimed'
    PROVE  Settled'
  <1>1. AdminName \in Names /\ TypeOK
    BY SeederAssumption DEF TablesInv
  <1>2. CASE Still \/ Begins \/ Works \/ Breaks
    BY <1>2, NothingStored DEF Settled, Admins
  <1>3. CASE Leaves \/ Finishes
    <2>1. Written
      BY <1>3, OneStored
    <2> USE DEF Written
    <2>2. CASE AdminName \in edited
      BY <2>1, <2>2 DEF Settled
    <2>3. CASE AdminName \in Admins /\ AdminName # tx.name
      BY <1>1, <2>1, <2>3 DEF Settled, Admins
    <2>4. CASE AdminName \in Admins /\ AdminName = tx.name
      <3>1. CASE tx.kind \notin Makers
        BY <2>1, <2>4, <3>1 DEF Settled
      <3>2. CASE tx.kind \in Makers
        <4>1. IF Unbegun(tx.todo) THEN draft = db ELSE db[tx.name] = {}
          BY <3>2 DEF TablesInv, Making
        <4>2. db[tx.name] # {}
          BY <2>4 DEF Admins
        <4>3. draft = db
          BY <4>1, <4>2
        <4> QED  BY <1>1, <2>1, <2>4, <4>3 DEF Settled, Admins
      <3> QED  BY <3>1, <3>2
    <2> QED  BY <2>2, <2>3, <2>4 DEF Settled
  <1>4. CASE Regrants
    BY <1>1, <1>4 DEF Regrants, Settled, Admins
  <1> QED  BY <1>1, <1>2, <1>3, <1>4, Steps

LEMMA ClaimMade ==
    ASSUME TablesInv, [Next]_vars, "seed" \notin CommitsFail, claimed', ~claimed
    PROVE  Finishes /\ tx.kind = "seed"
  <1>1. CASE Finish
    BY <1>1 DEF Finishes, Finish, LogSuccess
  <1>2. CASE CommitFails
    BY <1>2 DEF Finishes, CommitFails, LogSuccess
  <1>3. CASE StatementFails \/ Conflict \/ RoleMissing \/ Throw \/ Restart \/ Migrate \/ UNCHANGED vars
    BY <1>3 DEF StatementFails, Conflict, RoleMissing, NoRole, Throw, Abandon, KeepRest, Restart, Migrate, vars
  <1>4. CASE \E n \in Names :
                register_user(n) \/ create_user(n) \/ update_user(n) \/ update_user_profile(n)
    BY <1>4 DEF register_user, create_user, update_user, update_user_profile, Open
  <1>5. CASE is_admin \/ CountAdmins \/ SeedAdmin
    BY <1>5 DEF is_admin, CountAdmins, SeedAdmin, Open
  <1>6. CASE \/ \E part \in Parts \ {"edited"} : Insert(part)
             \/ \E part \in DOMAIN Drop : Delete(part)
             \/ Update
    BY <1>6 DEF Insert, Delete, Update, KeepRest
  <1>7. CASE create_role \/ update_role \/ delete_role
    BY <1>7 DEF create_role, update_role, delete_role, ChangeRole
  <1> QED  BY <1>1, <1>2, <1>3, <1>4, <1>5, <1>6, <1>7 DEF Next

ClaimInv == TablesInv /\ ClaimHolds

LEMMA ClaimNext ==
    ASSUME ClaimInv, [Next]_vars, "seed" \notin CommitsFail
    PROVE  ClaimInv'
  <1> USE DEF ClaimInv
  <1>1. TablesInv' /\ (ClaimHolds <=> (claimed => Settled)) /\ (ClaimHolds' <=> (claimed' => Settled'))
    BY TablesNext DEF ClaimHolds, Settled
  <1>2. CASE claimed /\ claimed'
    BY <1>1, <1>2, SettledStays
  <1>3. CASE claimed' /\ ~claimed
    <2>1. Finishes /\ tx.kind = "seed"
      BY <1>3, ClaimMade
    <2>2. tx.kind \in Makers
      BY <2>1 DEF Makers
    <2>3. tx.name = AdminName /\ AdminName \in Names
      BY <2>1, <2>2, SeederAssumption DEF TablesInv, Making
    <2>4. "admin" \in draft[AdminName]
      BY <2>1, <2>2, <2>3, MakerIsDone DEF Required
    <2>5. db' = draft
      BY <2>1 DEF Finishes, Finish, Commit, Store
    <2> QED  BY <1>1, <2>3, <2>4, <2>5 DEF Settled, Admins
  <1> QED  BY <1>1, <1>2, <1>3

(* A seeder that logged its success has left an administrator with the      *)
(* configured name, until somebody edits that account or the role is        *)
(* deleted or renamed, provided its COMMIT, which nobody waits for, does    *)
(* not fail (seeder_utils.cpp).                                             *)
THEOREM ClaimTrue ==
    ASSUME "seed" \notin CommitsFail
    PROVE  Spec => []ClaimHolds
  <1>1. Init => ClaimInv
    BY TablesInit DEF Init, ClaimInv, ClaimHolds
  <1>2. ClaimInv /\ [Next]_vars => ClaimInv'
    BY ClaimNext
  <1> QED  BY <1>1, <1>2, PTL DEF Spec, ClaimInv
=============================================================================
