---------------------------- MODULE AccountProofs ---------------------------
(***************************************************************************)
(* Theorems about Account, for any sets of passwords, secrets, tokens and  *)
(* requests.  Type correctness is inductive as it stands.  The other two   *)
(* invariants speak of what a request found when it began and need the     *)
(* account's share of it: that a secret, once stored, is only replaced,    *)
(* and that a reset token, once answered, stays used.                      *)
(***************************************************************************)
EXTENDS Account, TLAPS

(* The states of a request, and the effect of the three helpers on them *)
Request == [at : Stages, new : Passwords \cup {None},
            tok : ResetTokens \cup {None}, fit : BOOLEAN]

RequestOK(q) ==
    /\ q \in Request
    /\ q.at \in {"update", "reset_update"} => q.new \in Passwords
    /\ q.at \in {"reset_update", "mark_used"} => q.tok \in ResetTokens

RequestsOK == req \in [Requests -> Request] /\ \A r \in Requests : RequestOK(req[r])

(* Replacing the state of one request by a proper one keeps them all proper. *)
LEMMA ReplaceOne ==
    ASSUME RequestsOK, NEW r \in Requests, NEW q, RequestOK(q), req' = [req EXCEPT ![r] = q]
    PROVE  RequestsOK'
  BY DEF RequestsOK, RequestOK

(* So does moving one to a stage that needs no password and no token it lacks. *)
LEMMA MoveOne ==
    ASSUME RequestsOK, NEW r \in Requests, NEW at \in Stages, Goto(r, at),
           at \notin {"update", "reset_update"},
           at = "mark_used" => req[r].tok \in ResetTokens
    PROVE  RequestsOK'
  <1> DEFINE q == [req[r] EXCEPT !.at = at]
  <1>1. req[r] \in Request  BY DEF RequestsOK
  <1>2. RequestOK(q)  BY <1>1 DEF RequestOK, Request
  <1>3. req' = [req EXCEPT ![r] = q]  BY DEF Goto
  <1> HIDE DEF q
  <1> QED  BY <1>2, <1>3, ReplaceOne

LEMMA NoRequestOK == RequestOK(NoRequest)
  BY DEF NoRequest, RequestOK, Request, Stages

LEMMA FinishOne ==
    ASSUME RequestsOK, NEW r \in Requests, Finish(r)
    PROVE  RequestsOK'
  BY NoRequestOK, ReplaceOne DEF Finish

-----------------------------------------------------------------------------
(* Type correctness *)

LEMMA TypeParts ==
    TypeOK <=> /\ password \in Passwords
               /\ must_pwd_change \in BOOLEAN
               /\ is_active \in BOOLEAN
               /\ secret \in Secrets \cup {NoSecret}
               /\ resets \in [ResetTokens -> {"unused", "open", "used"}]
               /\ RequestsOK
               /\ proven \subseteq Secrets
               /\ confirmed \subseteq ResetTokens
               /\ challenged \in BOOLEAN
  BY DEF TypeOK, RequestsOK, RequestOK, Request

LEMMA TypeInit == ASSUME Init PROVE TypeOK
  <1>1. RequestsOK  BY NoRequestOK DEF Init, RequestsOK, RequestOK
  <1> QED  BY <1>1, TypeParts DEF Init

(* What the requests do keeps the types. *)
LEMMA LoginTypes ==
    ASSUME TypeOK, NEW r \in Requests, Login(r)
    PROVE  TypeOK'
  <1> USE DEF user, history
  <1>0. RequestsOK  BY TypeParts
  <1>1. ASSUME NEW p \in Passwords, login(r, p)
        PROVE  TypeOK'
    <2> DEFINE q == [NoRequest EXCEPT !.at = "check_totp", !.fit = Entitled(p)]
    <2>1. Entitled(p) \in BOOLEAN  BY DEF Entitled
    <2>2. RequestOK(q)  BY <2>1 DEF NoRequest, RequestOK, Request, Stages
    <2>3. req' = [req EXCEPT ![r] = q]  BY <1>1 DEF login, Begin
    <2> HIDE DEF q
    <2>4. RequestsOK'  BY <1>0, <2>2, <2>3, ReplaceOne
    <2> QED  BY <2>4, <1>1, TypeParts DEF login, TypeOK, RequestsOK, RequestOK, Request
  <1>2. CASE check_totp_enabled(r)
    <2>1. RequestsOK'
      BY <1>0, <1>2, MoveOne, FinishOne DEF check_totp_enabled, Stages
    <2> QED  BY <2>1, <1>2 DEF check_totp_enabled, TypeOK, RequestsOK, RequestOK, Request
  <1>3. ASSUME NEW s \in Secrets, login_totp(r, s)
        PROVE  TypeOK'
    <2> DEFINE q == [NoRequest EXCEPT !.at = "session_totp"]
    <2>1. RequestOK(q)  BY DEF NoRequest, RequestOK, Request, Stages
    <2>2. req' = [req EXCEPT ![r] = q]  BY <1>3 DEF login_totp, get_totp_secret, Begin
    <2> HIDE DEF q
    <2>3. RequestsOK'  BY <1>0, <2>1, <2>2, ReplaceOne
    <2> QED  BY <2>3, <1>3 DEF login_totp, get_totp_secret, TypeOK, RequestsOK, RequestOK, Request
  <1>4. CASE Grant(r)
    <2>1. RequestsOK'  BY <1>0, <1>4, FinishOne DEF Grant
    <2> QED  BY <2>1, <1>4 DEF Grant, TypeOK, RequestsOK, RequestOK, Request
  <1> QED  BY <1>1, <1>2, <1>3, <1>4 DEF Login

LEMMA PasswordTypes ==
    ASSUME TypeOK, NEW r \in Requests, PasswordChange(r)
    PROVE  TypeOK'
  <1> USE DEF user, history
  <1>0. RequestsOK  BY TypeParts
  <1>1. ASSUME NEW old \in Passwords, NEW new \in Passwords, change_password(r, old, new)
        PROVE  TypeOK'
    <2> DEFINE q == [NoRequest EXCEPT !.at = "update", !.new = new]
    <2>1. RequestOK(q)  BY DEF NoRequest, RequestOK, Request, Stages
    <2>2. req' = [req EXCEPT ![r] = q]  BY <1>1 DEF change_password, Begin
    <2> HIDE DEF q
    <2>3. RequestsOK'  BY <1>0, <2>1, <2>2, ReplaceOne
    <2> QED  BY <2>3, <1>1 DEF change_password, TypeOK, RequestsOK, RequestOK, Request
  <1>2. CASE Change(r)
    <2>1. RequestsOK'  BY <1>0, <1>2, FinishOne DEF Change
    <2>2. password' \in Passwords
      BY <1>0, <1>2 DEF Change, update_password, RequestsOK, RequestOK
    <2> QED  BY <2>1, <2>2, <1>2
             DEF Change, update_password, TypeOK, RequestsOK, RequestOK, Request
  <1>3. ASSUME NEW k \in ResetTokens, NEW new \in Passwords,
               reset_password_confirm(r, k, new)
        PROVE  TypeOK'
    <2> DEFINE q == [at |-> "reset_update", new |-> new, tok |-> k,
                     fit |-> k \notin confirmed]
    <2>1. RequestOK(q)  BY DEF RequestOK, Request, Stages
    <2>2. req' = [req EXCEPT ![r] = q]  BY <1>3 DEF reset_password_confirm, Begin
    <2> HIDE DEF q
    <2>3. RequestsOK'  BY <1>0, <2>1, <2>2, ReplaceOne
    <2> QED  BY <2>3, <1>3 DEF reset_password_confirm, TypeOK, RequestsOK, RequestOK, Request
  <1>4. CASE ResetUpdate(r)
    <2>1. req[r].tok \in ResetTokens /\ req[r].new \in Passwords
      BY <1>0, <1>4 DEF ResetUpdate, RequestsOK, RequestOK
    <2>2. RequestsOK'  BY <1>0, <1>4, <2>1, MoveOne DEF ResetUpdate, Stages
    <2> QED  BY <2>1, <2>2, <1>4
             DEF ResetUpdate, update_password, TypeOK, RequestsOK, RequestOK, Request
  <1>5. CASE mark_reset_token_used(r)
    <2>1. req[r].tok \in ResetTokens
      BY <1>0, <1>5 DEF mark_reset_token_used, RequestsOK, RequestOK
    <2>2. RequestsOK'  BY <1>0, <1>5, FinishOne DEF mark_reset_token_used
    <2> QED  BY <2>1, <2>2, <1>5
             DEF mark_reset_token_used, TypeOK, RequestsOK, RequestOK, Request
  <1> QED  BY <1>1, <1>2, <1>3, <1>4, <1>5 DEF PasswordChange, change_password_forced

LEMMA TypeNext == ASSUME TypeOK, [Next]_vars PROVE TypeOK'
  <1> USE DEF user, history
  <1>1. ASSUME NEW s \in Secrets, totp_setup(s)
        PROVE  TypeOK'
    BY <1>1 DEF TypeOK, totp_setup, upsert_totp_secret
  <1>2. ASSUME NEW s \in Secrets, totp_verify(s)
        PROVE  TypeOK'
    BY <1>2 DEF TypeOK, totp_verify
  <1>3. ASSUME NEW k \in ResetTokens, reset_password_request(k) \/ LapseToken(k)
        PROVE  TypeOK'
    BY <1>3 DEF TypeOK, reset_password_request, create_password_reset, LapseToken
  <1>4. ASSUME NEW p \in Passwords, NEW m \in BOOLEAN, NEW a \in BOOLEAN,
               update_user(p, m, a)
        PROVE  TypeOK'
    BY <1>4 DEF TypeOK, update_user
  <1>5. CASE delete_user
    BY <1>5 DEF TypeOK, delete_user
  <1>6. CASE UNCHANGED vars
    BY <1>6 DEF TypeOK, vars
  <1> QED  BY <1>1, <1>2, <1>3, <1>4, <1>5, <1>6, LoginTypes, PasswordTypes DEF Next

(* Every variable keeps its type, and a request that is about to write has  *)
(* the password and the token to write (auth_ctrl.cpp).                     *)
THEOREM TypeCorrect == Spec => []TypeOK
  BY TypeInit, TypeNext, PTL DEF Spec

-----------------------------------------------------------------------------
(* Logins by password alone *)

(* A stored secret is replaced and never removed, so a login that found     *)
(* more to ask for than the password will find the secret.                  *)
Awaited ==
    \A r \in Requests : req[r].at = "check_totp" => req[r].fit \/ secret # NoSecret

LoginInv == TypeOK /\ Awaited /\ PasswordLoginJustified

LEMMA LoginInvLogin ==
    ASSUME "check_totp" \notin Refusable, LoginInv, NEW r \in Requests, Login(r)
    PROVE  Awaited' /\ PasswordLoginJustified'
  <1> USE DEF LoginInv, Awaited, PasswordLoginJustified, user, history
  <1>0. req \in [Requests -> Request]  BY TypeParts DEF RequestsOK
  <1>1. ASSUME NEW p \in Passwords, login(r, p)
        PROVE  Awaited' /\ PasswordLoginJustified'
    <2>1. Entitled(p) <=> secret = NoSecret  BY <1>1 DEF login, Entitled
    <2>2. /\ req'[r].at = "check_totp" /\ req'[r].fit = Entitled(p)
          /\ \A q \in Requests \ {r} : req'[q] = req[q]
          /\ secret' = secret
      BY <1>0, <1>1 DEF login, Begin, NoRequest
    <2> QED  BY <2>1, <2>2
  <1>2. CASE check_totp_enabled(r)
    <2>1. \A q \in Requests \ {r} : req'[q] = req[q]
      BY <1>0, <1>2 DEF check_totp_enabled, Goto, Finish
    <2>2. secret' = secret  BY <1>2 DEF check_totp_enabled
    <2>3. req'[r].at # "check_totp" /\ (req'[r].at = "session" => req'[r].fit)
      BY <1>0, <1>2 DEF check_totp_enabled, Goto, Finish, NoRequest, MayFail, Request
    <2> QED  BY <2>1, <2>2, <2>3
  <1>3. ASSUME NEW s \in Secrets, login_totp(r, s)
        PROVE  Awaited' /\ PasswordLoginJustified'
    BY <1>0, <1>3 DEF login_totp, get_totp_secret, Begin, NoRequest
  <1>4. CASE Grant(r)
    BY <1>0, <1>4 DEF Grant, Finish, NoRequest
  <1> QED  BY <1>1, <1>2, <1>3, <1>4 DEF Login

LEMMA LoginInvPassword ==
    ASSUME LoginInv, NEW r \in Requests, PasswordChange(r)
    PROVE  Awaited' /\ PasswordLoginJustified'
  <1>0. req \in [Requests -> Request]  BY TypeParts DEF LoginInv, RequestsOK
  <1>1. secret' = secret
    BY DEF PasswordChange, change_password_forced, change_password, Change,
           reset_password_confirm, ResetUpdate, mark_reset_token_used
  <1>2. \A q \in Requests \ {r} : req'[q] = req[q]
    BY <1>0 DEF PasswordChange, change_password_forced, change_password, Change,
           reset_password_confirm, ResetUpdate, mark_reset_token_used, Begin, Goto, Finish
  <1>3. req'[r].at \notin {"check_totp", "session"}
    <2>1. ASSUME NEW old, NEW new, change_password(r, old, new)
          PROVE  req'[r].at = "update"
      BY <1>0, <2>1 DEF change_password, Begin, NoRequest
    <2>2. ASSUME Finish(r)
          PROVE  req'[r].at = "idle"
      BY <1>0, <2>2 DEF Finish, NoRequest
    <2>3. ASSUME NEW k, NEW new, reset_password_confirm(r, k, new)
          PROVE  req'[r].at = "reset_update"
      BY <1>0, <2>3 DEF reset_password_confirm, Begin
    <2>4. ASSUME ResetUpdate(r)
          PROVE  req'[r].at = "mark_used"
      BY <1>0, <2>4 DEF ResetUpdate, Goto, Request
    <2> QED
      BY <2>1, <2>2, <2>3, <2>4
         DEF PasswordChange, change_password_forced, Change, mark_reset_token_used
  <1> QED  BY <1>1, <1>2, <1>3 DEF LoginInv, Awaited, PasswordLoginJustified

(* A session is granted on a password alone only if at one moment of the    *)
(* request the account was active, the password right, no change forced and *)
(* no secret stored, whatever other requests and administrators did between *)
(* the two statements of login; the lookup of the secret must not fail.     *)
THEOREM PasswordLogins ==
    ASSUME "check_totp" \notin Refusable
    PROVE  Spec => []PasswordLoginJustified
  <1>1. Init => LoginInv
    <2> SUFFICES ASSUME Init PROVE LoginInv
      OBVIOUS
    <2>1. Awaited /\ PasswordLoginJustified
      BY DEF Init, NoRequest, Awaited, PasswordLoginJustified
    <2> QED  BY <2>1, TypeInit DEF LoginInv
  <1>2. LoginInv /\ [Next]_vars => LoginInv'
    <2> SUFFICES ASSUME LoginInv, [Next]_vars PROVE Awaited' /\ PasswordLoginJustified'
      BY TypeNext DEF LoginInv
    <2>1. ASSUME NEW r \in Requests, Login(r) \/ PasswordChange(r)
          PROVE  Awaited' /\ PasswordLoginJustified'
      BY <2>1, LoginInvLogin, LoginInvPassword
    <2>2. ASSUME NEW s \in Secrets, totp_setup(s) \/ totp_verify(s)
          PROVE  Awaited' /\ PasswordLoginJustified'
      <3>1. req' = req /\ (secret # NoSecret => secret' # NoSecret)
        BY <2>2, AccountAssumption DEF totp_setup, upsert_totp_secret, totp_verify
      <3> QED  BY <3>1 DEF LoginInv, Awaited, PasswordLoginJustified
    <2>3. ASSUME UNCHANGED <<req, secret>>
          PROVE  Awaited' /\ PasswordLoginJustified'
      BY <2>3 DEF LoginInv, Awaited, PasswordLoginJustified
    <2> QED
      BY <2>1, <2>2, <2>3
         DEF Next, reset_password_request, create_password_reset, LapseToken,
             update_user, delete_user, vars
  <1> QED  BY <1>1, <1>2, PTL DEF Spec, LoginInv

-----------------------------------------------------------------------------
(* Reset tokens *)

ConfirmedAreUsed == \A k \in confirmed : resets[k] = "used"

ResetInv == TypeOK /\ ConfirmedAreUsed /\ ResetTokenSpent

LEMMA ResetInvPassword ==
    ASSUME "mark_used" \notin Refusable, ResetInv, NEW r \in Requests, PasswordChange(r)
    PROVE  ConfirmedAreUsed' /\ ResetTokenSpent'
  <1> USE DEF ResetInv, ConfirmedAreUsed, ResetTokenSpent, history
  <1>0. /\ req \in [Requests -> Request]
        /\ resets \in [ResetTokens -> {"unused", "open", "used"}]
    BY TypeParts DEF RequestsOK
  <1>1. ASSUME NEW old \in Passwords, NEW new \in Passwords, change_password(r, old, new)
        PROVE  ConfirmedAreUsed' /\ ResetTokenSpent'
    BY <1>0, <1>1 DEF change_password, Begin, NoRequest
  <1>2. CASE Change(r)
    BY <1>0, <1>2 DEF Change, Finish, NoRequest
  <1>3. ASSUME NEW k \in ResetTokens, NEW new \in Passwords,
               reset_password_confirm(r, k, new)
        PROVE  ConfirmedAreUsed' /\ ResetTokenSpent'
    <2>1. k \notin confirmed
      BY <1>3 DEF reset_password_confirm, find_user_by_reset_token
    <2> QED  BY <1>0, <1>3, <2>1 DEF reset_password_confirm, Begin
  <1>4. CASE ResetUpdate(r)
    BY <1>0, <1>4 DEF ResetUpdate, Goto, Request
  <1>5. CASE mark_reset_token_used(r)
    <2>1. req[r].tok \in ResetTokens
      BY <1>5, TypeParts DEF mark_reset_token_used, RequestsOK, RequestOK
    <2>2. resets' = [resets EXCEPT ![req[r].tok] = "used"]
      BY <1>5 DEF mark_reset_token_used, MayFail
    <2>3. ConfirmedAreUsed'
      BY <1>0, <1>5, <2>1, <2>2, TypeParts DEF mark_reset_token_used
    <2>4. ResetTokenSpent'
      BY <1>0, <1>5 DEF mark_reset_token_used, Finish, NoRequest
    <2> QED  BY <2>3, <2>4
  <1> QED  BY <1>1, <1>2, <1>3, <1>4, <1>5 DEF PasswordChange, change_password_forced

LEMMA ResetInvLogin ==
    ASSUME ResetInv, NEW r \in Requests, Login(r)
    PROVE  ConfirmedAreUsed' /\ ResetTokenSpent'
  <1>0. req \in [Requests -> Request]  BY TypeParts DEF ResetInv, RequestsOK
  <1>1. resets' = resets /\ confirmed' = confirmed
    BY DEF Login, login, check_totp_enabled, login_totp, get_totp_secret, Grant, history
  <1>2. \A q \in Requests \ {r} : req'[q] = req[q]
    BY <1>0 DEF Login, login, check_totp_enabled, login_totp, get_totp_secret, Grant, Begin, Goto, Finish
  <1>3. req'[r].at \notin {"reset_update", "mark_used"}
    <2>1. ASSUME NEW p, login(r, p)
          PROVE  req'[r].at = "check_totp"
      BY <1>0, <2>1 DEF login, Begin, NoRequest
    <2>2. ASSUME NEW s, login_totp(r, s)
          PROVE  req'[r].at = "session_totp"
      BY <1>0, <2>2 DEF login_totp, get_totp_secret, Begin, NoRequest
    <2>3. ASSUME Finish(r)
          PROVE  req'[r].at = "idle"
      BY <1>0, <2>3 DEF Finish, NoRequest
    <2>4. ASSUME Goto(r, "session")
          PROVE  req'[r].at = "session"
      BY <1>0, <2>4 DEF Goto, Request
    <2> QED
      BY <2>1, <2>2, <2>3, <2>4 DEF Login, check_totp_enabled, Grant
  <1> QED  BY <1>1, <1>2, <1>3 DEF ResetInv, ConfirmedAreUsed, ResetTokenSpent

(* A confirmation that begins after another one with the same token was     *)
(* answered is refused: the token cannot set the password again later.      *)
(* Marking it must not fail, for the handler ignores the result.            *)
THEOREM ResetTokensSpent ==
    ASSUME "mark_used" \notin Refusable
    PROVE  Spec => []ResetTokenSpent
  <1>1. Init => ResetInv
    <2> SUFFICES ASSUME Init PROVE ResetInv
      OBVIOUS
    <2>1. ConfirmedAreUsed /\ ResetTokenSpent
      BY DEF Init, NoRequest, ConfirmedAreUsed, ResetTokenSpent
    <2> QED  BY <2>1, TypeInit DEF ResetInv
  <1>2. ResetInv /\ [Next]_vars => ResetInv'
    <2> SUFFICES ASSUME ResetInv, [Next]_vars PROVE ConfirmedAreUsed' /\ ResetTokenSpent'
      BY TypeNext DEF ResetInv
    <2>1. ASSUME NEW r \in Requests, Login(r) \/ PasswordChange(r)
          PROVE  ConfirmedAreUsed' /\ ResetTokenSpent'
      BY <2>1, ResetInvLogin, ResetInvPassword
    <2>2. ASSUME NEW k \in ResetTokens, reset_password_request(k) \/ LapseToken(k)
          PROVE  ConfirmedAreUsed' /\ ResetTokenSpent'
      BY <2>2 DEF reset_password_request, create_password_reset, LapseToken, history, TypeOK,
                  ResetInv, ConfirmedAreUsed, ResetTokenSpent
    <2>3. ASSUME UNCHANGED <<req, resets, confirmed>>
          PROVE  ConfirmedAreUsed' /\ ResetTokenSpent'
      BY <2>3 DEF ResetInv, ConfirmedAreUsed, ResetTokenSpent
    <2> QED
      BY <2>1, <2>2, <2>3
         DEF Next, totp_setup, upsert_totp_secret, totp_verify,
             update_user, delete_user, vars, history
  <1> QED  BY <1>1, <1>2, PTL DEF Spec, ResetInv
=============================================================================
