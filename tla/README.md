# Formal models of the Drogon Auth Microservice

TLA+ models of the service's own logic, TLC runs that check them on small
instances, and TLAPS proofs of the properties that matter most for every value
of the parameters. Paths are those of the repository, where the service's
sources are in `src/`, its headers in `include/` and its documents in `docs/`.

## The system

A C++ service on the Drogon framework. HTTP handlers are coroutines; each
`co_await` on the database is a point where other handlers run.

| Component | State | Operations | Hard behaviour |
| --- | --- | --- | --- |
| Sessions: `auth_ctrl.cpp`, `auth_middleware.cpp`, `session_cache.cpp` | table `sessions`; the in-memory `SessionCache`; cookies of clients | login, login_totp, logout, refresh; the middleware's check; synchronisation every 60 s; cleanup every 300 s | two copies changed in separate steps; results applied late; failed and unacknowledged statements; restarts |
| Web sessions: `auth_middleware.cpp`, `auth_ctrl.cpp`, `admin_ctrl.cpp` | the user in the framework's session | filled by the middleware and login unless it has one, emptied by logout, read by the profile and administration handlers | a cookie of its own; threads; two locked look-ups |
| Account: `auth_ctrl.cpp`, `auth_repository.cpp` | one row of `users`, its TOTP secret, its reset tokens | login decision, TOTP set-up and verification, password changes, resets, administration | decisions on data read in several statements; errors read as "no" |
| RBAC: `rbac_service.cpp`, `admin_ctrl.cpp`, `admin_repository.cpp` | `roles`, `user_roles`, the role cache | has_role, update_user, create/update/delete_role | read-through cache against invalidation |
| Readers: `auth_grpc_srv.cpp`, `auth_ctrl.cpp`, `admin_repository.cpp` | none | GetUserStatus, me, get_all_users | answers read in several statements |
| Accounts' tables: `seeder_utils.cpp`, `auth_repository.cpp`, `admin_repository.cpp` | `users`, `user_profiles`, `user_communications`, `user_roles` | ensureAdminExists; create_user twice; update_user; update_user_profile; create/update/delete_role | count-then-insert, a role that comes and goes, exceptions in transactions, abandoned transactions |
| Rate limiter: `rate_limiter.hpp` | a record of times per address | is_allowed | endpoints with different windows share the record |
| Metrics and ring buffer: `metrics_registry.hpp`, `ring_buffer.hpp` | atomics, a ring of events | push, snapshot | a producer and a reader without a lock |
| TOTP and JWT: `auth_srv.cpp`, `totp_utils.cpp` | none | generate, verify | bit buffer that overflows; time-window arithmetic |
| System controller, configuration, password utilities, audit plugin, schema | none of their own, or external | status output, start-up, hashing, logging | - |

They interact through the database (one client, pool size set in
`main.cpp:127`), through the singletons `SessionCache`, `RbacService`,
`RateLimiter` and `MetricsRegistry`, and by the middleware calling the handlers. The correctness of
each part, in short: a session answered as ended stays ended and a valid one
stays usable; a login was justified; an answered change of roles is seen; a
limit is kept; an event shown was an event recorded; a handler acts for the user
of its request, and for nobody after a logout; what is stored of an account is
whole and what was answered; an administrator exists after the start.

`PROJECT.json` lists the hazards, each at its line, and the properties for them.

## Modules

| Module | Models |
| --- | --- |
| `Sessions` | the life of a session in both copies |
| `SessionGate` | the abstract promise: a door that a logout shuts in one step for good |
| `MCSessions` | instances of `Sessions` for TLC |
| `SessionsProofs` | theorems about `Sessions`, and that it implements `SessionGate` |
| `Account` | one account: password, flags, TOTP secret, reset tokens |
| `AccountProofs` | theorems about `Account` |
| `RoleCache` | one user's roles: table, cache, administration |
| `UserStatus` | `RoleCache` with the three handlers that read the user in several statements |
| `MCUserStatus` | its instance for TLC |
| `UserStatusProofs` | theorems about `RoleCache` and, resting on them, about `UserStatus` |
| `UserTables` | the transactions that make and change accounts, and the role admin |
| `UserTablesProofs` | theorems about `UserTables` |
| `WebSession`, `MCWebSession` | which user a handler acts for, and its instance |
| `WebSessionProofs` | theorems about `WebSession` |
| `RingBuffer` | the ring buffer, one access to shared memory at a time |
| `RecentEvents` | its abstract promise: a log of the latest events |
| `RingBufferProofs` | theorems about `RingBuffer`, and that it implements `RecentEvents` |
| `RateLimiter`, `MCRateLimiter` | the limiter as one address meets it, and its instance |
| `RateLimiterProofs` | theorems about `RateLimiter` |
| `Totp`, `TotpProofs` | the key of a TOTP secret and the acceptance of codes, with theorems |

Operators whose comment starts with "Faulty:" are not part of a model. Each is
a version of an operation with a plausible bug, which a property of the runs
must catch (`mutants` in `PROJECT.json`).

### Sessions

| Model | Code |
| --- | --- |
| `rows[t]` | the row of a token: absent, live, or past `expires_at` |
| `cache` | keys of `SessionCache::cache_`; on PostgreSQL the metadata never changes after creation |
| `req[r]` | where a handler's coroutine is suspended, and the token it holds |
| `snap[s]` | the result of the SELECT a `sync_from_db` has not yet installed |
| `conn[c]` | which coroutine a connection has called back |
| `handed`, `ended`, `reauth`, `drawn` | histories: cookies given out, logouts answered, `requires_reauth` answered, tokens generated |

One action is one statement with the code up to the next wait. After its
statement a coroutine acts *inside* the result callback of its connection, and
the connection takes no other statement until the coroutine waits anew or ends:
`Occupy` and `Release`. This behaviour of the database client is not in the
repository and is marked external in the map. It is what makes the code correct: with one
connection (the value in `main.cpp`) no statement runs between a statement and
the change of the cache that follows it. Cache look-ups need no connection and
do interleave everywhere.

A statement ends in one of three ways: done, refused (`Refusable`), or done
with the answer lost (`Unacked`). `delete_session` catches every error;
`create_session` reports one, which `login` heeds and `login_totp` does not;
`refresh_session` lets it escape, which answers 500.

### Account

The row of the user is `password`, `must_pwd_change`, `is_active`; `secret` is
the row of `totp_secrets`; `resets` maps a token to unused, open or used (an
expired token is as good as used). `req[r].fit` records what was true when a request
began, so that a later decision can be compared with that moment. Failing
statements that end a request without a change are not followed; the two whose
errors go unnoticed (`check_totp`, `mark_used`) are in `Refusable`.

### RoleCache

`version` counts the replacements of the user's roles and an entry carries the
version it was read at, so that "older" has a meaning. An empty entry counts as
a miss, as in the code. `has_role` is three steps: the look-up, which needs no
connection; the SELECT; and storing what it read, over whatever the entry has
become. So a check that missed may store after others did. The roles are replaced in one transaction and appear at
its COMMIT.

### UserStatus

`UserStatus` extends `RoleCache`, whose actions go on beside three handlers that
read past the cache. `call[r]` is one run: the statements left (`todo`), the
version of the roles when it began (`since`) and when the user's row was read
(`user`), and what was read of permissions and roles with the version of that
moment. An update may change `is_active` in the same transaction as the roles.
The errors differ per handler as in the code: GetUserStatus and list_users end
on any, `me` takes errors of the last two statements for empty lists.

### UserTables

`db[n]` is the set of parts stored of the account `n` (its row, profile,
contact, role admin, and whether its columns have their second value), `draft`
what the open transaction sees, `tx` that transaction and the statements it
still has to do. How the database client ends a transaction (an error rolls
back, destruction without an error commits) is external; the seeder's success
path has no COMMIT and relies on it, and its comment at `seeder_utils.cpp:68`
assumes the opposite. The same rule decides what a JSON value of the wrong type
leaves behind (`Throw`): it raises a C++ exception between two statements, the
`catch (...)` answers an error, and the destructor commits what was done. The
columns an administrator changes are updated one by one, here by two UPDATEs.

A COMMIT may fail in two ways: without effect (`CommitsFail`), or with it
(`Unacked`); the answer is the same error. The history `told` holds for each
account what the answers allow it to be: one state after a success, one more
after each error of a COMMIT, and anything after a coroutine left half-way.
`edited` are the accounts changed since they were made.

Administrators also create, rename and delete roles (`ChangeRole`), each in one
statement outside the transactions. With the role admin its assignments go
(`ON DELETE CASCADE`); a role that is renamed to admin brings its own. An
administrator whose roles were cached goes on (`cleared`). When the role is
gone at a start, the seeder finds no administrator and runs into the situation
`seeder_late` shows, where every later start fails too, on the unique login
name: no administrator is made without a repair by hand.

### WebSession

`entry` is the user of each token in `SessionCache`, `web` the attribute
`user_id` of each web session, `req` the requests between the middleware and
their answer. `find` and `get` of the framework's session lock separately, so
they are two steps. `insert` is that of a `std::map`: a key that is there stays
as it is. It is external, like the rest of the framework. Two histories:
`came[w]` are the users whose requests came with `w` since the last logout from
it, or had at that logout passed the look-up and not yet inserted; `disturbed`
are the requests beside which such a logout was under way.

The web session has a cookie apart from the token, and a client may send
any combination of the two, which the model lets it do. The key of that cookie
is configured: `data/prv_config.json:14` gives it a name of its own, while
`data/config.example.json:113` gives it the name of the token's, `JSESSIONID`;
the model follows the first. Without a configuration file the framework keeps no
sessions and the handlers that read one answer 401 or 403.

### RingBuffer

An access to `head_`, `tail_` or an element is one action; assigning and copying
an element take two, because it is an object of three strings and a number, and
a copy that a write touches is `Torn`. `buffer` holds numbers of events. `pushed`,
`first` and `last` are histories. The producers are the threads that resume
coroutines after a statement, one for each connection to the database: with one
connection there is one producer. `record_auth_event` is called by login alone;
`get_recent_auth_events` and `pop` have no caller, and `pop`, a second writer of
`head_`, is not modelled.

### Totp

`base32Decode` as a loop over the secret: the buffer is an `unsigned int` that is
never masked, so it loses bits on its left. Its width is a parameter, `UInt`; the
proofs need only the 16 bits that C++ guarantees (`WordSize`). `letters`, `spelled` and `key` are
histories that relate the letters read to the bytes made. The code of a step
(HMAC-SHA1) is a constant operator. A NUL in a secret, for which `strchr` finds the
end of the alphabet, cannot come from `generateSecret` and is left out.

### RateLimiter

Time is in ticks, `Second` to a second, because the code truncates ages to
whole seconds. `grants` is history: every call that was allowed, with its
endpoint and time. `record` is the code's vector, as the set of the numbers of
the grants whose times it holds: a call drops times by their age, counts them and
adds one, so their order is of no account to it, and equal times stay apart.

## Runs

| Run | Instance | Shows |
| --- | --- | --- |
| `sessions_one` | 3 tokens, 2 requests, 2 synchronisations, 1 connection, 1 restart, password logins; inserts and updates may be refused, deletes unacknowledged | an answered logout is final; valid sessions stay admitted; dead ones are evicted; a cookie handed out has a row; `SessionGate` is implemented |
| `sessions_pool` | 1 token, 3 requests, 2 synchronisations, 2 connections, 1 restart; all answers may be lost; fairness | logged-out rows stay deleted; the cache converges to the table; a logout wins in the end |
| `mismatch` | violated | the middleware leaves a mismatched session in the cache |
| `account` | 2 passwords, 2 secrets, 2 reset tokens, 2 requests | a password login was justified at one moment; an answered reset token is spent |
| `user_status` | 2 roles, 2 checks, 2 updates, 2 changes, 1 call, 1 connection | an answered update is seen by every later check; an answer never joins older roles to a newer row or newer permissions |
| `user_tables` | 2 names, one of them the administrator's; late migration, roles administered, 1 failing statement or COMMIT, 1 restart, JSON values of the wrong type | registered and created accounts are and stay whole; the answers are true; a logged success left an administrator |
| `seeder_late` | violated | an abandoned seeding transaction is committed |
| `rate_limiter` | limits 3, 3, 2, windows 1, 1, 3 s, 2 ticks per second, 8 ticks | the login limit holds in every window; the record is bounded |
| `reset_limit` | violated | the reset limit does not hold in its window |
| `ring_buffer` | 4 slots, 10 events, 1 producer | the buffer is a log of the latest events; a snapshot that was not overtaken is exact |
| `web_session` | 2 users, 2 tokens, 1 web session, 3 requests | a logout ends whom a web session stands for; a handler is refused only beside one |
| `web_session_user` | violated, with 1 request at a time | a web session keeps its first user, and handlers act for that one on requests of another |

The violated runs are disagreements between code and documents; `findings` in
`PROJECT.json` quotes both.

**Why the bounds are enough.** Sessions never compare two tokens: a race is
about one token, two let a synchronisation carry one while another changes, and
a third leaves a fresh login beside both. A race has two handlers and a
synchronisation; the second synchronisation gives overlapping ones. One restart
separates "before" from "after". The liveness run has a single token because
its properties speak of each token alone. Histories of `Account`
grow with one more request of each kind; two overlapping ones make every order
of two statements possible. In `user_status` one call meets two updates, before
and after each of its statements; two calls never look at each other. Two checks
make every order of two look-ups, reads and stores around an update; roles,
checks and updates are alike (`Symmetry`), and no property tells them apart. In
`user_tables` transactions do not overlap (one connection), so one name that
may be the administrator's and one that may not be suffice, and a failing
statement and a restart each separate before from after. Ten events go round
four slots twice and leave two to overtake a snapshot. Three requests on one
web session are a handler, one that inserts another user and one that logs
out; they, the users and the tokens are alike. In `rate_limiter` eight ticks hold a whole longest window and a shortest
one on either side of its edge; limits and windows are scaled, keeping their
order.

**What fails outside these instances.** With two connections `LogoutIsFinal`,
`LiveSessionsAreCached` and `AnsweredUpdateIsSeen` are violated: a
synchronisation installs what it read before a logout that ran on the other
connection. A configuration with `number_of_connections` above 1 gives up these
properties; what remains is what `sessions_pool` checks. With
`Refusable = {"check_totp"}` `PasswordLoginJustified` is violated (a failing
look-up lets a login through without the second factor, against
`docs/ARCHITECTURE.md:162`), and with `{"mark_used"}` `ResetTokenSpent` is.
`VerifyActivates` of `Account` is false after a set-up alone: `login` asks for a
code as soon as `totp/setup` has stored a secret (`auth_ctrl.cpp:335`), while
`docs/API_DOCUMENTATION.md:17` says that `totp/verify` activates it. With
`Postgres = TRUE` no reset token is ever found (`OpenTokenIsFound`):
`used` is a BOOLEAN there and the statement compares it with 0. With `"seed"`
in `CommitsFail` `ClaimHolds` is violated: success is logged before the commit.

With `"delete"` in the `Refusable` of `Sessions` `LogoutIsFinal` is violated:
`logout` ignores the false of a failed DELETE (`auth_ctrl.cpp:230`) and answers
success, against `docs/API_DOCUMENTATION.md:12`, and the next synchronisation
brings the session back. With `"login_totp"` in `Kinds` `HandedOutIsStored` is
violated: `login_totp` ignores the result of `create_session`
(`auth_ctrl.cpp:188`) and hands out a cookie that the next synchronisation makes
worthless, against `docs/ARCHITECTURE.md:63`.

With two producers `RecentSpec` is violated: both take the same slot. The
buffer keeps 99 events and not the 100 of `CHANGELOG.md:22`, because one slot
stays free. A snapshot during which the producer fills the ring up to the loaded
head is empty; `SnapshotExact` is about snapshots that did not meet this.

That a handler acts for the user of its own request (`ActsForItself`) holds only
where every web session is used by one user between two logouts: `insert` does
not replace the user that is there (`auth_middleware.cpp:106`,
`auth_ctrl.cpp:150,208`), whoever logs in later. What remains is `LogoutForgets`.
A transaction that a coroutine left half-way may have changed the account
although it was answered with an error: an update of the roles with a wrong JSON
type answers 500 and has removed the roles. So may a COMMIT that raises an
error; `AnswersAreTrue` allows both.

`metrics` (`system_ctrl.cpp:162`) answers 0 for what it could not read, so its
counter of failed logins falls after one error.

A refresh may revive a session whose `expires_at` has passed while it is still
cached (`auth_repository.cpp:210` has no condition on it); the model contains
this transition and no property forbids it.

**Fairness.** Weak fairness for a coroutine that was called back (it runs to
its next wait without further help) and for installing a synchronisation's
result; strong fairness for the SELECT of a synchronisation, because the
timer starts one every 60 seconds and the database client serves waiting
statements in their order. Nothing is assumed about clients, about expiry, the
cleanup or any statement of a handler.

## Proofs

All proofs are for arbitrary sets and bounds.

*Sessions.* `TypeCorrect` needs nothing but the assumptions on the constants.
`LogoutFinal`, `SyncEvicts` and `GateRefined` assume one connection and deletes
that take effect (both are necessary, as the runs show); `LiveCached` also that
no write's answer is lost; `EndedDeleted` holds for any number of connections.
`LogoutIsFinal` is not inductive. The strengthening `LogoutInv` adds that whoever
was called back occupies a connection (`Occupied`), that the token of a login in
flight is its own and every other request is about a token that was handed out
(`Ownership`), that what a refresh or a synchronisation has learnt from the
table is still true (`NotStale`), and that an ended session, or one a logout is
about to end, has no row (`EndedHaveNoRow`). On one connection `NotStale` is
kept because `Occupied` lets no statement run while a result waits to be
applied; `Ownership` keeps an INSERT from reviving an ended token. `CachedInv`
adds the converse of `NotStale` for `LiveSessionsAreCached`
(`SnapshotsComplete`): a live row is in the snapshot that will replace the
cache. The refinement maps `usable` to `cache` and uses `LogoutInv` at each
step that puts a token in the cache. `HandedStored` assumes one connection and
that nobody logs in by code; it needs only `Occupied` and `AnswersStored`: a login
about to answer occupies the connection, so no statement takes away the row
its INSERT made.

*Account.* `PasswordLogins` strengthens by `Awaited`: a login that will look for
the secret either found everything right or there is a secret by now, because
secrets are replaced and never removed. `ResetTokensSpent` strengthens by
`ConfirmedAreUsed`. Each assumes that the one statement whose error goes
unnoticed does not fail.

*RoleCache, UserStatus.* `UpdatesAreSeen` strengthens by `Busy` (who has read or
committed occupies a connection; who has only looked into the cache does not) and `Fresh` (what a check has read is as new
as what was answered). On one connection the first makes the second inductive.
Every step of `UserStatus` is one of `RoleCache` or leaves its variables alone
(`StatusSteps`), which carries the theorem over. `AnswersAreOrdered` needs no
bound on the connections: `InOrder` says for each statement a call has left which
versions it has read already, in ascending order, and versions only grow.

*WebSession.* `LogoutEndsIt` and `RefusalsExplained` share the invariant
`WebInv`. `Announced` says that whoever has still to insert is in `came`, also when
a logout starts that history anew; `Marked` that whoever is under way beside a
logout to come is in `disturbed`; `Found` that a request past its own insert finds a
user unless it is marked. `insert` never takes a user away, so only an erasure can,
and whoever erases was a logout under way (`Erasing`).

*RingBuffer.* For one producer and any size. `Window` counts back from the
tail: the slot `d` before it holds the event `d` before the next, for as many
`d` as there are slots, the one under assignment excepted. With it each step of
push is a step of `RecentEvents` or a stutter (`KeepsTheLatest`). For
`SnapshotIsExact`, `Copying` says that as long as the producer has not come
round, what was copied is a run of consecutive events, and the slot being copied
is not the one being written.

*Totp.* `KeyIsTheSecret` is inductive as it stands: every letter adds five bits to
`spelled` and to the low bits of the buffer, an emitted byte takes the upper eight
of them; the carry into the bits already emitted is cut off by `& 0xFF`, and what
the buffer loses on its left lies above all bits in use, because at most 12 are and
`unsigned int` has 16 or more. The time
theorems are arithmetic of whole divisions by 30.

*UserTables.* For any names, failures and restarts. None of the three invariants
is inductive. `TablesInv` adds what is true in the middle of a transaction: its
draft differs from what is stored in one account alone (`Framed`); a maker
stands at a stage of one of its plans, has found no account of that name, and
its draft holds all the account requires except what the statements left are
going to insert (`Making`); one that changes an account has one, and has taken
away nothing but assignments, contacts and the value of its columns
(`Changing`). `Steps` sorts the actions by what they do to the tables: a
transaction stores when it is committed (`Finishes`, whatever is answered) or
abandoned (`Leaves`), and then one account (`OneStored`); a role that comes or
goes (`Regrants`) changes assignments of admin only. Then `AccountsWhole` rests on
`MakerIsDone`: nothing is `Ahead` of a transaction that ends, and create_user,
the one maker that JSON can break off, breaks off only at the assignment of a
role, which comes last. `AnswersTrue` rests on `Framed`, and on `Regrants` doing to what was told what it
does to the tables. `ClaimTrue` rests on `SettledStays`: no later transaction makes
that account again, and the claim ends with the role. It assumes that
the seeder's COMMIT does not fail, which is necessary (see above).

*RateLimiter.* For any endpoints, limits and windows. `LoginLimit` strengthens
by `Kept`: a grant that is no longer in the record is older than every shortest
window, because a call drops only what is older than its own window, and that is
no shorter. So what a call with the shortest window was granted in the stretch
that ends now is still in the record it counts, and it is granted only below the
limit. `RecordBounded` is inductive beside the types: a call that appends leaves
at most its own limit, one that is refused no more than there was.

Only model-checked: the liveness properties of `sessions_pool`, which are out of
the prover's reach. Every invariant and every other action property of a passing
run is proved. Only proved: `Totp`, which has no run: its theorems are about
every secret and every time.

## Not modelled

CSRF tokens, cookies' attributes, JSON checks that answer an error before
anything is read or written, audit calls, the latency map, hashing and
signatures, the wording of answers, the number of rows a user may have,
`get_user_profile`'s three reads, the gRPC calls GetUserProfile and CheckHealth (one
statement each), the permission cache (no caller), and everything listed as
`not_modelled` in `PROJECT.json`. On PostgreSQL an entry of the cache has its
row's metadata, so entries are only tokens. On SQLite the INSERT of a session
turns its address into a number (`CAST ... AS INET`, `auth_repository.cpp:151`), and
a session that a synchronisation installs has another address than the one its
login cached; this is not modelled.

## Later work

1. `Sessions` and `Account` composed, for what a deactivation or a password
   change means for sessions that exist.
2. The ring buffer with several producers: what a snapshot may still promise.
