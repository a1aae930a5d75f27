------------------------------ MODULE Account -------------------------------
(***************************************************************************)
(* One user account: its password, its flags must_pwd_change and           *)
(* is_active, its TOTP secret and its password-reset tokens, and the       *)
(* handlers of AuthCtrl and AdminCtrl that read and write them.            *)
(*                                                                         *)
(* Accounts do not touch each other: every statement names one user.  A    *)
(* handler awaits the database several times, and between two of its       *)
(* statements other handlers change what it has read.  Each action is one  *)
(* statement and what the handler does with its result, up to the next     *)
(* statement; a handler that answers an error without having changed       *)
(* anything is not followed.  The changes that need a session are taken    *)
(* from a client that has one: a session outlives every change here.       *)
(***************************************************************************)
CONSTANTS
    Passwords,
    Secrets,       \* TOTP secrets generate_totp_secret returns
    NoSecret,      \* no row in totp_secrets
    ResetTokens,
    None,
    Requests,
    Postgres,      \* TRUE: the PostgreSQL schema, FALSE: the SQLite schema
    Refusable      \* statements the database may refuse, changing nothing

Statements == {"check_totp", "mark_used"}

ASSUME AccountAssumption ==
    /\ NoSecret \notin Secrets
    /\ None \notin Passwords \cup ResetTokens
    /\ Postgres \in BOOLEAN
    /\ Refusable \subseteq Statements

VARIABLES
    password, must_pwd_change, is_active,   \* the row of users
    secret,       \* the row of totp_secrets
    resets,       \* password_resets: each token is unused, open or used
    req,          \* where each request stands
    proven,       \* secrets whose code totp_verify has accepted
    confirmed,    \* reset tokens whose confirmation was answered
    challenged    \* a login was answered with mfa_required

user == <<password, must_pwd_change, is_active>>
vars == <<user, secret, resets, req, proven, confirmed, challenged>>
history == <<proven, confirmed, challenged>>

(* new: the password to write; tok: the reset token; fit: what the history  *)
(* says of the request's start, see login and reset_password_confirm.       *)
NoRequest == [at |-> "idle", new |-> None, tok |-> None, fit |-> TRUE]

Stages == {"idle", "check_totp", "session", "session_totp", "update",
           "reset_update", "mark_used"}

TypeOK ==
    /\ password \in Passwords
    /\ must_pwd_change \in BOOLEAN
    /\ is_active \in BOOLEAN
    /\ secret \in Secrets \cup {NoSecret}
    /\ resets \in [ResetTokens -> {"unused", "open", "used"}]
    /\ req \in [Requests -> [at : Stages, new : Passwords \cup {None},
                             tok : ResetTokens \cup {None}, fit : BOOLEAN]]
    /\ \A r \in Requests :
          /\ req[r].at \in {"update", "reset_update"} => req[r].new \in Passwords
          /\ req[r].at \in {"reset_update", "mark_used"} => req[r].tok \in ResetTokens
    /\ proven \subseteq Secrets
    /\ confirmed \subseteq ResetTokens
    /\ challenged \in BOOLEAN

(* A registered or an admin-made account *)
Init ==
    /\ password \in Passwords
    /\ must_pwd_change \in BOOLEAN
    /\ is_active \in BOOLEAN
    /\ secret = NoSecret
    /\ resets = [k \in ResetTokens |-> "unused"]
    /\ req = [r \in Requests |-> NoRequest]
    /\ proven = {}
    /\ confirmed = {}
    /\ challenged = FALSE

MayFail(stmt) == stmt \in Refusable
Begin(r, q) == req[r].at = "idle" /\ req' = [req EXCEPT ![r] = q]
Goto(r, at) == req' = [req EXCEPT ![r].at = at]
Finish(r) == req' = [req EXCEPT ![r] = NoRequest]

-----------------------------------------------------------------------------
(* Logging in *)

(* What a login by password alone needs of the account, all at once *)
Entitled(p) == is_active /\ p = password /\ ~must_pwd_change /\ secret = NoSecret

(* Faulty: the forced change is left to the client. *)
LoginUnforced(r, p) ==
    /\ is_active
    /\ p = password
    /\ Begin(r, [NoRequest EXCEPT !.at = "check_totp", !.fit = Entitled(p)])
    /\ UNCHANGED <<user, secret, resets, history>>

(* login: the user is found, active, the password right and no change is    *)
(* forced.  fit remembers whether the account asked for nothing more then.  *)
login(r, p) ==
    /\ is_active
    /\ p = password
    /\ ~must_pwd_change
    /\ Begin(r, [NoRequest EXCEPT !.at = "check_totp", !.fit = Entitled(p)])
    /\ UNCHANGED <<user, secret, resets, history>>

(* check_totp_enabled.  An error counts as "no secret". *)
check_totp_enabled(r) ==
    /\ req[r].at = "check_totp"
    /\ \/ secret = NoSecret /\ Goto(r, "session") /\ UNCHANGED challenged
       \/ secret # NoSecret /\ Finish(r) /\ challenged' = TRUE
       \/ MayFail("check_totp") /\ Goto(r, "session") /\ UNCHANGED challenged
    /\ UNCHANGED <<user, secret, resets, proven, confirmed>>

(* A row of totp_secrets is found, with secret s. *)
get_totp_secret(s) == s = secret /\ s # NoSecret

(* login_totp: a code of the stored secret; nothing else is asked. *)
login_totp(r, s) ==
    /\ get_totp_secret(s)
    /\ Begin(r, [NoRequest EXCEPT !.at = "session_totp"])
    /\ UNCHANGED <<user, secret, resets, history>>

(* create_session: see module Sessions. *)
Grant(r) ==
    /\ req[r].at \in {"session", "session_totp"}
    /\ Finish(r)
    /\ UNCHANGED <<user, secret, resets, history>>

-----------------------------------------------------------------------------
(* The second factor *)

(* One transaction inserts the row or updates it. *)
upsert_totp_secret(s) == secret' = s

(* totp_setup, with a secret drawn anew *)
totp_setup(s) ==
    /\ s # secret
    /\ upsert_totp_secret(s)
    /\ UNCHANGED <<user, resets, req, history>>

(* totp_verify compares the code and answers; it stores nothing. *)
totp_verify(s) ==
    /\ get_totp_secret(s)
    /\ proven' = proven \cup {s}
    /\ UNCHANGED <<user, secret, resets, req, confirmed, challenged>>

-----------------------------------------------------------------------------
(* Passwords *)

(* Faulty: begins the change without the new password. *)
ChangeUnset(r, old, new) ==
    /\ old = password
    /\ Begin(r, [NoRequest EXCEPT !.at = "update"])
    /\ UNCHANGED <<user, secret, resets, history>>

(* change_password (with a session) and change_password_forced (without,    *)
(* for a forced change): find_user_by_id and the old password               *)
change_password(r, old, new) ==
    /\ old = password
    /\ Begin(r, [NoRequest EXCEPT !.at = "update", !.new = new])
    /\ UNCHANGED <<user, secret, resets, history>>

change_password_forced(r, old, new) ==
    /\ must_pwd_change
    /\ change_password(r, old, new)

(* update_password writes whatever the row holds by now. *)
update_password(r) ==
    /\ password' = req[r].new
    /\ must_pwd_change' = FALSE
    /\ UNCHANGED is_active

Change(r) ==
    /\ req[r].at = "update"
    /\ update_password(r)
    /\ Finish(r)
    /\ UNCHANGED <<secret, resets, history>>

(* The tokens are drawn at random and never twice. *)
create_password_reset(k) ==
    /\ resets[k] = "unused"
    /\ resets' = [resets EXCEPT ![k] = "open"]

reset_password_request(k) ==
    /\ create_password_reset(k)
    /\ UNCHANGED <<user, secret, req, history>>

(* Faulty: a used token is found like an open one. *)
FindAnyToken(k) == resets[k] # "unused"

(* find_user_by_reset_token: "used = 0" is an error on PostgreSQL, where    *)
(* used is a BOOLEAN, and an error counts as "no such token".               *)
find_user_by_reset_token(k) == ~Postgres /\ resets[k] = "open"

(* reset_password_confirm: the token is found.  fit remembers that no       *)
(* confirmation with it was answered before.                                *)
reset_password_confirm(r, k, new) ==
    /\ find_user_by_reset_token(k)
    /\ Begin(r, [at |-> "reset_update", new |-> new, tok |-> k, fit |-> k \notin confirmed])
    /\ UNCHANGED <<user, secret, resets, history>>

ResetUpdate(r) ==
    /\ req[r].at = "reset_update"
    /\ update_password(r)
    /\ Goto(r, "mark_used")
    /\ UNCHANGED <<secret, resets, history>>

(* mark_reset_token_used, whose result is not looked at, and the answer *)
mark_reset_token_used(r) ==
    /\ req[r].at = "mark_used"
    /\ \/ resets' = [resets EXCEPT ![req[r].tok] = "used"]
       \/ MayFail("mark_used") /\ UNCHANGED resets
    /\ confirmed' = confirmed \cup {req[r].tok}
    /\ Finish(r)
    /\ UNCHANGED <<user, secret, proven, challenged>>

(* A reset token passes its expires_at. *)
LapseToken(k) ==
    /\ resets[k] = "open"
    /\ resets' = [resets EXCEPT ![k] = "used"]
    /\ UNCHANGED <<user, secret, req, history>>

-----------------------------------------------------------------------------
(* The administrator *)

(* AdminRepository::update_user, one transaction; each field may be sent *)
update_user(p, m, a) ==
    /\ password' = p
    /\ must_pwd_change' = m
    /\ is_active' = a
    /\ UNCHANGED <<secret, resets, req, history>>

(* AdminCtrl::delete_user: the row stays. *)
delete_user ==
    /\ is_active' = FALSE
    /\ UNCHANGED <<password, must_pwd_change, secret, resets, req, history>>

-----------------------------------------------------------------------------
Login(r) ==
    \/ \E p \in Passwords : login(r, p)
    \/ check_totp_enabled(r)
    \/ \E s \in Secrets : login_totp(r, s)
    \/ Grant(r)

PasswordChange(r) ==
    \/ \E old, new \in Passwords :
          change_password(r, old, new) \/ change_password_forced(r, old, new)
    \/ Change(r)
    \/ \E k \in ResetTokens, new \in Passwords : reset_password_confirm(r, k, new)
    \/ ResetUpdate(r)
    \/ mark_reset_token_used(r)

Next ==
    \/ \E r \in Requests : Login(r) \/ PasswordChange(r)
    \/ \E s \in Secrets : totp_setup(s) \/ totp_verify(s)
    \/ \E k \in ResetTokens : reset_password_request(k) \/ LapseToken(k)
    \/ \E p \in Passwords, m, a \in BOOLEAN : update_user(p, m, a)
    \/ delete_user

Spec == Init /\ [][Next]_vars

-----------------------------------------------------------------------------
(* Properties *)

(* A session granted on a password alone was justified at one moment of the *)
(* request: then the account was active, the password right, no change was  *)
(* forced and no TOTP secret stored, although login reads the user and the  *)
(* secret in two statements (auth_ctrl.cpp login).                          *)
PasswordLoginJustified == \A r \in Requests : req[r].at = "session" => req[r].fit

(* A reset token changes the password only for confirmations that began     *)
(* before the first one with it was answered; later ones are refused        *)
(* (auth_ctrl.cpp reset_password_confirm).                                  *)
ResetTokenSpent ==
    \A r \in Requests : req[r].at \in {"reset_update", "mark_used"} => req[r].fit

(* docs/API_DOCUMENTATION.md:17: totp/verify activates 2FA; until a code    *)
(* was verified nobody is asked for one.                                    *)
VerifyActivates == challenged => proven # {}

(* docs/API_DOCUMENTATION.md:21: reset-confirm sets a new password for an   *)
(* open token (the server looks the token up and goes on).                  *)
OpenTokenIsFound == \A k \in ResetTokens : resets[k] = "open" => find_user_by_reset_token(k)
=============================================================================
