CONSTANTS
    Users = {a, b}
    NoUser = NoUser
    Tokens = {t1, t2}
    NoToken = NoToken
    Webs = {w1}
    NoWeb = NoWeb
    Requests = {r1}
SPECIFICATION Spec
INVARIANT
    ActsForItself
