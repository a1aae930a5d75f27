----------------------------- MODULE WebSession -----------------------------
(***************************************************************************)
(* Which user a handler acts for.  The profile and the administration      *)
(* handlers do not look at the token of their request: they take the user  *)
(* from the web session of the framework, which belongs to a cookie of its *)
(* own.  Every request that passes AuthMiddleware and every login inserts  *)
(* its user, which takes effect only where there is none; logout empties   *)
(* it.  Requests run on several threads, and a client may have several     *)
(* under way.                                                              *)
(*                                                                         *)
(* Web sessions start empty with the process; the entries of SessionCache  *)
(* come and go as in module Sessions.                                      *)
(***************************************************************************)
CONSTANTS
    Users, NoUser,
    Tokens, NoToken,
    Webs, NoWeb,    \* values of the framework's session cookie
    Requests        \* requests under way at the same time

ASSUME WebAssumption ==
    /\ NoUser \notin Users
    /\ NoToken \notin Tokens
    /\ NoWeb \notin Webs

VARIABLES
    entry,      \* the user of each token in SessionCache
    web,        \* the attribute user_id of each web session
    req,        \* the requests under way
    came,       \* the users whose requests came with each web session since the
                \* last logout from it, or had at that logout still to insert
    disturbed   \* the requests beside which a logout from their web session
                \* was under way

vars == <<entry, web, req, came, disturbed>>

Maybe == Users \cup {NoUser}

(* me is the user of the token, or who logs in; user is whom r acts for.    *)
NoRequest == [at |-> "idle", kind |-> "act", tok |-> NoToken, web |-> NoWeb,
              me |-> NoUser, user |-> NoUser]

TypeOK ==
    /\ entry \in [Tokens -> Maybe]
    /\ web \in [Webs -> Maybe]
    /\ req \in [Requests -> [at : {"idle", "populate", "find", "get", "done",
                                   "erase", "remove", "insert"},
                             kind : {"act", "logout", "login"},
                             tok : Tokens \cup {NoToken}, web : Webs \cup {NoWeb},
                             me : Maybe, user : Maybe]]
    /\ \A r \in Requests : req[r].at # "idle" =>
          req[r].web \in Webs /\ req[r].tok \in Tokens /\ req[r].me \in Users
    /\ came \in [Webs -> SUBSET Users]
    /\ disturbed \subseteq Requests

Init ==
    /\ entry \in [Tokens -> Maybe]
    /\ web = [w \in Webs |-> NoUser]
    /\ req = [r \in Requests |-> NoRequest]
    /\ came = [w \in Webs |-> {}]
    /\ disturbed = {}

-----------------------------------------------------------------------------
With(w) == {r \in Requests : req[r].at # "idle" /\ req[r].web = w}

(* r has still to insert its user, or to erase the user that is there. *)
Inserting(r) == req[r].at \in {"populate", "insert"}
LoggingOut(r) == req[r].kind = "logout" /\ req[r].at \in {"populate", "erase"}

(* The request r comes with web session w. *)
Come(r, at, kind, t, w, user) ==
    /\ req[r].at = "idle"
    /\ req' = [req EXCEPT ![r] = [at |-> at, kind |-> kind, tok |-> t, web |-> w,
                                  me |-> user, user |-> NoUser]]
    /\ came' = [came EXCEPT ![w] = @ \cup {user}]
    /\ disturbed' = disturbed \cup (IF kind = "logout" THEN {r} \cup With(w)
                                    ELSE IF \E p \in With(w) : LoggingOut(p) THEN {r} ELSE {})

Goto(r, from, at) ==
    /\ req[r].at = from
    /\ req' = [req EXCEPT ![r].at = at]
    /\ UNCHANGED disturbed

End(r) ==
    /\ req' = [req EXCEPT ![r] = NoRequest]
    /\ disturbed' = disturbed \ {r}
    /\ UNCHANGED came

(* The framework's insert leaves a key that is there alone. *)
Insert(r) == web' = [web EXCEPT ![req[r].web] = IF @ = NoUser THEN req[r].me ELSE @]

(* AuthMiddleware finds the token. *)
Admit(r, t, w, kind) ==
    /\ entry[t] # NoUser
    /\ Come(r, "populate", kind, t, w, entry[t])
    /\ UNCHANGED <<entry, web>>

(* A changed address or agent, or no CSRF token *)
TurnAway(r) ==
    /\ req[r].at = "populate"
    /\ End(r)
    /\ UNCHANGED <<entry, web>>

Populated(r) == Goto(r, "populate", IF req[r].kind = "logout" THEN "erase" ELSE "find")

(* Faulty: the middleware relies on the login's insert. *)
PopulateNothing(r) == Populated(r) /\ UNCHANGED <<entry, web, came>>

Populate(r) ==
    /\ Populated(r)
    /\ Insert(r)
    /\ UNCHANGED <<entry, came>>

-----------------------------------------------------------------------------
(* The handlers *)

(* find: get_profile, update_profile and is_admin refuse a web session      *)
(* without a user.                                                          *)
FindUser(r) ==
    /\ Goto(r, "find", IF web[req[r].web] = NoUser THEN "done" ELSE "get")
    /\ UNCHANGED <<entry, web, came>>

(* get, under a lock of its own: of a missing attribute it is empty. *)
GetUser(r) ==
    /\ req[r].at = "get"
    /\ req' = [req EXCEPT ![r].at = "done", ![r].user = web[req[r].web]]
    /\ UNCHANGED <<entry, web, came, disturbed>>

Answer(r) ==
    /\ req[r].at \in {"find", "done"}   \* the other handlers do not look
    /\ End(r)
    /\ UNCHANGED <<entry, web>>

(* A logout from w: the history starts anew. *)
LoggedOut(w) == came' = [came EXCEPT ![w] = {req[p].me : p \in {p \in With(w) : Inserting(p)}}]

EraseUser(w) == web' = [web EXCEPT ![w] = NoUser]

(* Faulty: logout forgets its token with the user. *)
EraseToken(r) ==
    /\ req[r].at = "erase"
    /\ req' = [req EXCEPT ![r].at = "remove", ![r].tok = NoToken]
    /\ EraseUser(req[r].web)
    /\ LoggedOut(req[r].web)
    /\ UNCHANGED <<entry, disturbed>>

(* Faulty: logout erases the mark "authenticated" and not the user. *)
EraseMark(r) ==
    /\ Goto(r, "erase", "remove")
    /\ LoggedOut(req[r].web)
    /\ UNCHANGED <<entry, web>>

(* logout *)
Erase(r) ==
    /\ Goto(r, "erase", "remove")
    /\ EraseUser(req[r].web)
    /\ LoggedOut(req[r].web)
    /\ UNCHANGED entry

Remove(r) ==
    /\ req[r].at = "remove"
    /\ entry' = [entry EXCEPT ![req[r].tok] = NoUser]
    /\ End(r)
    /\ UNCHANGED web

(* login and login_totp from put_session on; the token is a fresh one.      *)
Login(r, t, w, user) ==
    /\ entry[t] = NoUser
    /\ entry' = [entry EXCEPT ![t] = user]
    /\ Come(r, "insert", "login", t, w, user)
    /\ UNCHANGED web

InsertUser(r) ==
    /\ req[r].at = "insert"
    /\ Insert(r)
    /\ End(r)
    /\ UNCHANGED entry

(* A synchronisation drops the entry. *)
Evict(t) ==
    /\ entry' = [entry EXCEPT ![t] = NoUser]
    /\ UNCHANGED <<web, req, came, disturbed>>

Next ==
    \/ \E r \in Requests :
          \/ \E t \in Tokens, w \in Webs :
                \/ \E kind \in {"act", "logout"} : Admit(r, t, w, kind)
                \/ \E user \in Users : Login(r, t, w, user)
          \/ TurnAway(r) \/ Populate(r) \/ FindUser(r) \/ GetUser(r) \/ Answer(r)
          \/ Erase(r) \/ Remove(r) \/ InsertUser(r)
    \/ \E t \in Tokens : Evict(t)

Spec == Init /\ [][Next]_vars

-----------------------------------------------------------------------------
(* A web session keeps the user of whichever request inserted first, and    *)
(* every handler acts for that user, until a logout.  A logout ends it:     *)
(* afterwards no handler acts for anyone whose requests all came before it, *)
(* except for who had passed the look-up and not yet inserted               *)
(* (auth_middleware.cpp:105, auth_ctrl.cpp login, logout).                  *)
LogoutForgets == \A w \in Webs : web[w] \in came[w] \cup {NoUser}

(* A handler that needs a user is refused one only beside a logout from its *)
(* web session, though it looks in two steps after the middleware and       *)
(* whatever became of the web session before (auth_ctrl.cpp get_profile,    *)
(* update_profile; admin_ctrl.cpp is_admin).                                *)
RefusedByLogout ==
    \A r \in Requests : req[r].at = "done" /\ req[r].user = NoUser => r \in disturbed

(* docs/API_DOCUMENTATION.md:26: the administration handlers require a      *)
(* session with the role admin; a handler acts for the user of the session  *)
(* that let its request in.                                                 *)
ActsForItself == \A r \in Requests : req[r].at = "done" => req[r].user \in {req[r].me, NoUser}
=============================================================================
