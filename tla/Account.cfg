CONSTANTS
    Passwords = {p1, p2}
    Secrets = {a1, a2}
    NoSecret = NoSecret
    ResetTokens = {k1, k2}
    None = None
    Requests = {r1, r2}
    Postgres = FALSE
    Refusable = {}
SPECIFICATION Spec
INVARIANTS
    TypeOK
    PasswordLoginJustified
    ResetTokenSpent
