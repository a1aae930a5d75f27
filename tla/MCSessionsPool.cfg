CONSTANTS
    Tokens = {t1}
    NoToken = NoToken
    Requests = {r1, r2, r3}
    Syncs = {s1, s2}
    Connections = {c1, c2}
    Idle = Idle
    Kinds = {"login", "login_totp"}
    Refusable = {"insert", "update"}
    Unacked = {"insert", "update", "delete"}
    MaxCrashes = 1
SPECIFICATION FairSpec
INVARIANTS
    EndedStayDeleted
PROPERTIES
    CacheFollowsTable
    LogoutWins
