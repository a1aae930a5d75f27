CONSTANTS
    Roles = {admin, user}
    Checks = {k1, k2}
    Updates = {u1, u2}
    Connections = {c1}
    Idle = Idle
    Unacked = TRUE
    MaxVersion = 2
    Calls = {r1}
SYMMETRY Symmetry
SPECIFICATION StatusSpec
INVARIANTS
    StatusTypeOK
    AnsweredUpdateIsSeen
    RolesNotOlder
