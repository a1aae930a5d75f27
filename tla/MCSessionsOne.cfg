CONSTANTS
    Tokens = {t1, t2, t3}
    NoToken = NoToken
    Requests = {r1, r2}
    Syncs = {s1, s2}
    Connections = {c1}
    Idle = Idle
    Kinds = {"login"}
    Refusable = {"insert", "update"}
    Unacked = {"delete"}
    MaxCrashes = 1
SPECIFICATION Spec
SYMMETRY Symmetry
INVARIANTS
    TypeOK
    LogoutIsFinal
    LiveSessionsAreCached
PROPERTIES
    SyncEvictsDead
    HandedOutIsStored
    GateSpec
