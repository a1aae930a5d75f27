------------------------------ MODULE Sessions ------------------------------
(***************************************************************************)
(* The life of a login session.  A session exists twice: as a row of the   *)
(* table sessions, and as an entry of the in-memory SessionCache, which is *)
(* the only thing AuthMiddleware looks at.  The controllers, the           *)
(* middleware, the 60-second synchronisation and the 300-second cleanup    *)
(* change the two copies in separate steps, and between the two steps of   *)
(* one of them the others run.                                             *)
(*                                                                         *)
(* Every co_await on the database is a point where a coroutine waits.  A   *)
(* statement runs on an idle connection of the pool; the connection calls  *)
(* the coroutine back and is idle again only when the coroutine waits      *)
(* anew or ends.  So what a coroutine does to the cache after its          *)
(* statement it does while it still occupies the connection.  main.cpp     *)
(* gives the pool one connection; a configuration file may give it more.   *)
(*                                                                         *)
(* The metadata of a session (user, address, agent, CSRF token) is set     *)
(* when it is created and, on PostgreSQL, never changes, so an entry is    *)
(* only its token.                                                         *)
(* Tokens carry a random identifier: a login draws a fresh one.            *)
(***************************************************************************)
EXTENDS Naturals

CONSTANTS
    Tokens,       \* values of session_token
    NoToken,
    Requests,     \* requests the server can work on at the same time
    Syncs,        \* overlapping runs of sync_from_db
    Connections,  \* the connections of the database client
    Idle,         \* what an idle connection works for
    Kinds,        \* the ways to log in that clients use: "login", "login_totp"
    Refusable,    \* statements the database may refuse, changing nothing
    Unacked,      \* statements that may take effect and still raise an error
    MaxCrashes    \* bound on the restarts of the process

Statements == {"insert", "update", "delete"}

ASSUME SessionsAssumption ==
    /\ NoToken \notin Tokens
    /\ Idle \notin Requests \cup Syncs
    /\ Requests \cap Syncs = {}
    /\ Kinds \subseteq {"login", "login_totp"}
    /\ Refusable \subseteq Statements
    /\ Unacked \subseteq Statements
    /\ MaxCrashes \in Nat

VARIABLES
    rows,     \* the table: a token's row is absent, live or expired
    cache,    \* the tokens in SessionCache::cache_
    drawn,    \* tokens generate_jwt_token has returned
    handed,   \* tokens a client was given as its JSESSIONID cookie
    req,      \* where each request stands, and the token it is about
    snap,     \* the rows a synchronisation has read and not yet installed
    conn,     \* the coroutine each connection works for
    synced,   \* the cache was filled from the table since the last start
    ended,    \* tokens whose logout was answered with success
    reauth,   \* tokens answered with requires_reauth
    crashes   \* restarts so far

vars == <<rows, cache, drawn, handed, req, snap, conn, synced, ended, reauth,
          crashes>>
clients == <<handed, ended, reauth>>

NoSnap == [read |-> FALSE, live |-> {}]
NoRequest == [at |-> "idle", tok |-> NoToken]

(* Where a request waits: for its statement, or called back with the result *)
Waiting == {"login", "login_totp", "mismatch", "logout", "refresh", "update"}
Resumed == {"answer", "remove", "reput"}

Live == {t \in Tokens : rows[t] = "live"}

TypeOK ==
    /\ rows \in [Tokens -> {"absent", "live", "expired"}]
    /\ cache \subseteq Tokens
    /\ drawn \subseteq Tokens
    /\ handed \subseteq drawn
    /\ req \in [Requests -> [at : {"idle"} \cup Waiting \cup Resumed,
                             tok : Tokens \cup {NoToken}]]
    /\ \A r \in Requests : req[r].at # "idle" => req[r].tok \in drawn
    /\ snap \in [Syncs -> [read : BOOLEAN, live : SUBSET Tokens]]
    /\ conn \in [Connections -> Requests \cup Syncs \cup {Idle}]
    /\ synced \in BOOLEAN
    /\ ended \subseteq drawn
    /\ reauth \subseteq drawn
    /\ crashes \in 0..MaxCrashes

(* The process starts over a table an earlier run left behind. *)
Init ==
    /\ rows \in [Tokens -> {"absent", "live", "expired"}]
    /\ drawn = {t \in Tokens : rows[t] # "absent"}
    /\ handed = drawn
    /\ cache = {}
    /\ req = [r \in Requests |-> NoRequest]
    /\ snap = [s \in Syncs |-> NoSnap]
    /\ conn = [c \in Connections |-> Idle]
    /\ synced = FALSE
    /\ ended = {}
    /\ reauth = {}
    /\ crashes = 0

-----------------------------------------------------------------------------
(* The database client *)

(* How a statement can end: done, refused, or done with the answer lost. *)
Outcomes(stmt) == {"done"} \cup (IF stmt \in Refusable THEN {"refused"} ELSE {})
                           \cup (IF stmt \in Unacked THEN {"unacked"} ELSE {})

HasIdle == \E c \in Connections : conn[c] = Idle

(* The coroutine x is called back and keeps the connection c. *)
Occupy(c, x) == conn[c] = Idle /\ conn' = [conn EXCEPT ![c] = x]

Release(x) == conn' = [c \in Connections |-> IF conn[c] = x THEN Idle ELSE conn[c]]

-----------------------------------------------------------------------------
(* SessionCache and the steps of a request *)

put_session(t) == cache' = cache \cup {t}
remove_session(t) == cache' = cache \ {t}

(* delete_session(t) catches every error; its callers cannot tell. *)
delete_row(t) ==
    \E o \in Outcomes("delete") :
        rows' = IF o = "refused" THEN rows ELSE [rows EXCEPT ![t] = "absent"]

Goto(r, at) == req' = [req EXCEPT ![r].at = at]
Finish(r) == req' = [req EXCEPT ![r] = NoRequest]

(* Faulty: forgets which tokens exist. *)
LoginUnrecorded(r, kind, t) ==
    /\ req[r].at = "idle"
    /\ t \notin drawn
    /\ req' = [req EXCEPT ![r] = [at |-> kind, tok |-> t]]
    /\ UNCHANGED <<rows, cache, drawn, snap, conn, synced, crashes, clients>>

(* AuthCtrl::login and login_totp up to the INSERT: the credentials were    *)
(* good and a token was drawn (the earlier checks are of module Account).  *)
Login(r, kind, t) ==
    /\ req[r].at = "idle"
    /\ t \notin drawn
    /\ drawn' = drawn \cup {t}
    /\ req' = [req EXCEPT ![r] = [at |-> kind, tok |-> t]]
    /\ UNCHANGED <<rows, cache, snap, conn, synced, crashes, clients>>

(* Faulty: login does not look at the result, either. *)
CreateUnchecked(r) ==
    /\ req[r].at \in {"login", "login_totp"}
    /\ \E c \in Connections, o \in Outcomes("insert") :
          /\ rows' = IF o = "refused" THEN rows
                     ELSE [rows EXCEPT ![req[r].tok] = "live"]
          /\ Occupy(c, r)
          /\ Goto(r, "answer")
    /\ UNCHANGED <<cache, drawn, snap, synced, crashes, clients>>

(* create_session.  An error makes login answer 500; login_totp does not    *)
(* look at the result and goes on.                                          *)
create_session(r) ==
    /\ req[r].at \in {"login", "login_totp"}
    /\ \E c \in Connections, o \in Outcomes("insert") :
          /\ rows' = IF o = "refused" THEN rows
                     ELSE [rows EXCEPT ![req[r].tok] = "live"]
          /\ IF o = "done" \/ req[r].at = "login_totp"
             THEN Occupy(c, r) /\ Goto(r, "answer")
             ELSE conn[c] = Idle /\ Finish(r) /\ UNCHANGED conn
    /\ UNCHANGED <<cache, drawn, snap, synced, crashes, clients>>

(* put_session, and the response that carries the cookie *)
AnswerLogin(r) ==
    /\ req[r].at = "answer"
    /\ put_session(req[r].tok)
    /\ handed' = handed \cup {req[r].tok}
    /\ Finish(r)
    /\ Release(r)
    /\ UNCHANGED <<rows, drawn, snap, synced, ended, reauth, crashes>>

(* AuthMiddleware::invoke lets a request through only when its cookie is in *)
(* the cache.  It sends a client whose address or agent changed to          *)
(* "mismatch"; the others reach a handler.  Handlers that change neither    *)
(* copy of the session are not followed.                                    *)
Admit(r, t, to) ==
    /\ req[r].at = "idle"
    /\ t \in handed
    /\ t \in cache
    /\ req' = [req EXCEPT ![r] = [at |-> to, tok |-> t]]
    /\ UNCHANGED <<rows, cache, drawn, snap, conn, synced, crashes, clients>>

(* The middleware deletes the row, not the entry, and answers 401 with      *)
(* requires_reauth whatever became of the statement.                        *)
Mismatch(r) ==
    /\ req[r].at = "mismatch"
    /\ HasIdle
    /\ delete_row(req[r].tok)
    /\ reauth' = reauth \cup {req[r].tok}
    /\ Finish(r)
    /\ UNCHANGED <<cache, drawn, handed, snap, conn, synced, ended, crashes>>

(* AuthCtrl::logout: delete_session, whose result is not looked at, ... *)
delete_session(r) ==
    /\ req[r].at = "logout"
    /\ delete_row(req[r].tok)
    /\ \E c \in Connections : Occupy(c, r)
    /\ Goto(r, "remove")
    /\ UNCHANGED <<cache, drawn, snap, synced, crashes, clients>>

(* Faulty: the entry stays until a synchronisation takes it out. *)
AnswerLogoutOnly(r) ==
    /\ req[r].at = "remove"
    /\ ended' = ended \cup {req[r].tok}
    /\ Finish(r)
    /\ Release(r)
    /\ UNCHANGED <<rows, cache, drawn, handed, snap, synced, reauth, crashes>>

(* ... then remove_session and the answer "success". *)
AnswerLogout(r) ==
    /\ req[r].at = "remove"
    /\ remove_session(req[r].tok)
    /\ ended' = ended \cup {req[r].tok}
    /\ Finish(r)
    /\ Release(r)
    /\ UNCHANGED <<rows, drawn, handed, snap, synced, reauth, crashes>>

(* AuthCtrl::refresh_session looks the token up once more: 401 on a miss. *)
RefreshLookup(r) ==
    /\ req[r].at = "refresh"
    /\ IF req[r].tok \in cache THEN Goto(r, "update") ELSE Finish(r)
    /\ UNCHANGED <<rows, cache, drawn, snap, conn, synced, crashes, clients>>

(* Faulty: goes on without looking at the number of rows it changed. *)
RefreshUnchecked(r) ==
    /\ req[r].at = "update"
    /\ rows' = [rows EXCEPT ![req[r].tok] = IF @ = "absent" THEN @ ELSE "live"]
    /\ \E c \in Connections : Occupy(c, r)
    /\ Goto(r, "reput")
    /\ UNCHANGED <<cache, drawn, snap, synced, crashes, clients>>

(* Faulty: stores the row anew when there is none. *)
RefreshUpsert(r) ==
    /\ req[r].at = "update"
    /\ rows' = [rows EXCEPT ![req[r].tok] = "live"]
    /\ \E c \in Connections : Occupy(c, r)
    /\ Goto(r, "reput")
    /\ UNCHANGED <<cache, drawn, snap, synced, crashes, clients>>

(* The UPDATE has no condition on expires_at.  No row, or an error that     *)
(* leaves the handler: 500.                                                 *)
refresh_session(r) ==
    LET t == req[r].tok
        found == rows[t] # "absent"
    IN  /\ req[r].at = "update"
        /\ \E c \in Connections, o \in Outcomes("update") :
              /\ rows' = IF found /\ o # "refused" THEN [rows EXCEPT ![t] = "live"]
                         ELSE rows
              /\ IF found /\ o = "done"
                 THEN Occupy(c, r) /\ Goto(r, "reput")
                 ELSE conn[c] = Idle /\ Finish(r) /\ UNCHANGED conn
        /\ UNCHANGED <<cache, drawn, snap, synced, crashes, clients>>

(* Faulty: trusts the entry it looked up before the UPDATE to be there. *)
AnswerRefreshOnly(r) ==
    /\ req[r].at = "reput"
    /\ Finish(r)
    /\ Release(r)
    /\ UNCHANGED <<rows, cache, drawn, snap, synced, crashes, clients>>

(* put_session with the new expiry *)
AnswerRefresh(r) ==
    /\ req[r].at = "reput"
    /\ put_session(req[r].tok)
    /\ Finish(r)
    /\ Release(r)
    /\ UNCHANGED <<rows, drawn, snap, synced, crashes, clients>>

-----------------------------------------------------------------------------
(* Background work, time, and restarts *)

(* Faulty: gives the connection back while it builds the new cache. *)
SyncSelectUnheld(s) ==
    /\ ~snap[s].read
    /\ snap' = [snap EXCEPT ![s] = [read |-> TRUE, live |-> Live]]
    /\ HasIdle
    /\ UNCHANGED <<rows, cache, drawn, req, conn, synced, crashes, clients>>

(* sync_from_db reads the unexpired rows (a failed SELECT is logged and     *)
(* changes nothing) ...                                                     *)
SyncSelect(s) ==
    /\ ~snap[s].read
    /\ snap' = [snap EXCEPT ![s] = [read |-> TRUE, live |-> Live]]
    /\ \E c \in Connections : Occupy(c, s)
    /\ UNCHANGED <<rows, cache, drawn, req, synced, crashes, clients>>

(* Faulty: adds the rows it read to the cache. *)
SyncMerge(s) ==
    /\ snap[s].read
    /\ cache' = cache \cup snap[s].live
    /\ snap' = [snap EXCEPT ![s] = NoSnap]
    /\ synced' = TRUE
    /\ Release(s)
    /\ UNCHANGED <<rows, drawn, req, crashes, clients>>

(* ... and replaces the whole cache by them. *)
SyncInstall(s) ==
    /\ snap[s].read
    /\ cache' = snap[s].live
    /\ snap' = [snap EXCEPT ![s] = NoSnap]
    /\ synced' = TRUE
    /\ Release(s)
    /\ UNCHANGED <<rows, drawn, req, crashes, clients>>

(* DELETE FROM sessions WHERE expires_at < CURRENT_TIMESTAMP *)
Cleanup ==
    /\ HasIdle
    /\ rows' = [t \in Tokens |-> IF rows[t] = "expired" THEN "absent" ELSE rows[t]]
    /\ UNCHANGED <<cache, drawn, req, snap, conn, synced, crashes, clients>>

(* The clock passes a row's expires_at. *)
Expire(t) ==
    /\ rows[t] = "live"
    /\ rows' = [rows EXCEPT ![t] = "expired"]
    /\ UNCHANGED <<cache, drawn, req, snap, conn, synced, crashes, clients>>

(* The process dies and starts again: the table and the clients' cookies    *)
(* outlive it.                                                              *)
Crash ==
    /\ crashes < MaxCrashes
    /\ crashes' = crashes + 1
    /\ cache' = {}
    /\ req' = [r \in Requests |-> NoRequest]
    /\ snap' = [s \in Syncs |-> NoSnap]
    /\ conn' = [c \in Connections |-> Idle]
    /\ synced' = FALSE
    /\ UNCHANGED <<rows, drawn, clients>>

-----------------------------------------------------------------------------
(* What a coroutine does when its connection calls it back *)
Resume(r) == AnswerLogin(r) \/ AnswerLogout(r) \/ AnswerRefresh(r)

Step(r) ==
    \/ \E kind \in Kinds, t \in Tokens : Login(r, kind, t)
    \/ create_session(r)
    \/ \E t \in Tokens, to \in {"mismatch", "logout", "refresh"} : Admit(r, t, to)
    \/ Mismatch(r)
    \/ delete_session(r)
    \/ RefreshLookup(r)
    \/ refresh_session(r)
    \/ Resume(r)

Sync(s) == SyncSelect(s) \/ SyncInstall(s)

Next ==
    \/ \E r \in Requests : Step(r)
    \/ \E s \in Syncs : Sync(s)
    \/ Cleanup
    \/ \E t \in Tokens : Expire(t)
    \/ Crash

Spec == Init /\ [][Next]_vars

(* A coroutine that was called back runs to its next wait; the timer starts *)
(* synchronisations forever, and the client serves waiting statements in    *)
(* their order, so a SELECT that can run again and again finally runs.      *)
(* Nothing is assumed about clients, expiry or the cleanup.                 *)
Fairness ==
    /\ \A r \in Requests : WF_vars(Resume(r))
    /\ \A s \in Syncs : WF_vars(SyncInstall(s)) /\ SF_vars(SyncSelect(s))

FairSpec == Spec /\ Fairness

-----------------------------------------------------------------------------
(* Properties *)

(* A token whose logout was answered is never again in the cache the        *)
(* middleware admits from: no synchronisation that was already reading, no  *)
(* refresh in flight and no restart brings it back (auth_ctrl.cpp logout).  *)
(* It relies on one connection and on deletes that take effect.             *)
LogoutIsFinal == ended \cap cache = {}

(* The whole machinery keeps the one-step promise of SessionGate: the cache *)
(* is its door, and a logout counts from the step that answers it.          *)
Gate == INSTANCE SessionGate WITH usable <- cache
GateSpec == Gate!Spec

(* Once the first synchronisation is installed, a client whose row is       *)
(* unexpired is admitted, unless the handler that creates or refreshes that *)
(* row is about to put it in the cache: no synchronisation throws out a     *)
(* login or a refresh that ran beside it (session_cache.cpp sync_from_db).  *)
LiveSessionsAreCached ==
    synced => \A t \in Live :
        \/ t \in cache
        \/ \E r \in Requests : req[r].tok = t /\ req[r].at \in {"answer", "reput"}

(* A synchronisation leaves no entry without a row behind, so what the      *)
(* cleanup, a mismatch or an unstored login leaves in the cache lasts for   *)
(* one period at most (session_cache.cpp sync_from_db).                     *)
SyncEvictsDead ==
    [][\A s \in Syncs : SyncInstall(s) => \A t \in cache' : rows[t] # "absent"]_vars

(* A logged-out session has no row, and no refresh or login in flight makes *)
(* one: this holds for any number of connections.                           *)
EndedStayDeleted == \A t \in ended : rows[t] = "absent"

(* The cache follows the table, however many connections, crashes and lost  *)
(* answers: a session that stays valid ends up admitted for good, one that  *)
(* stays expired or deleted ends up refused for good.                       *)
CacheFollowsTable ==
    \A t \in Tokens : /\ <>[](rows[t] = "live") => <>[](t \in cache)
                      /\ <>[](rows[t] # "live") => <>[](t \notin cache)

(* With any number of connections an answered logout wins in the end: no    *)
(* race of refreshes, synchronisations and restarts keeps the token alive.  *)
LogoutWins == \A t \in Tokens : t \in ended ~> [](t \notin cache)

(* A client never gets the cookie of a session that only the cache knows    *)
(* and the next synchronisation would drop, when every client logs in by    *)
(* password; login_totp hands such cookies out (auth_ctrl.cpp login,        *)
(* docs/ARCHITECTURE.md:63).                                                *)
HandedOutIsStored ==
    [][\A t \in Tokens : t \in handed' \ handed => rows[t] # "absent"]_vars

-----------------------------------------------------------------------------
(* What a document says and the code does otherwise *)

(* docs/SECURITY_GUIDE.md:10: a session whose address or device changed is  *)
(* invalidated and needs re-authentication.                                 *)
MismatchEndsSession == reauth \cap cache = {}
=============================================================================
