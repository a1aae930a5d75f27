CONSTANTS
    Users = {a, b}
    NoUser = NoUser
    Tokens = {t1, t2}
    NoToken = NoToken
    Webs = {w1}
    NoWeb = NoWeb
    Requests = {r1, r2, r3}
SYMMETRY Symmetry
SPECIFICATION Spec
INVARIANTS
    TypeOK
    LogoutForgets
    RefusedByLogout
