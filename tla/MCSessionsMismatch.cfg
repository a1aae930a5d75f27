CONSTANTS
    Tokens = {t1, t2}
    NoToken = NoToken
    Requests = {r1, r2}
    Syncs = {s1, s2}
    Connections = {c1}
    Idle = Idle
    Kinds = {"login"}
    Refusable = {}
    Unacked = {}
    MaxCrashes = 1
SPECIFICATION Spec
INVARIANT
    MismatchEndsSession
