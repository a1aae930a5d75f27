CONSTANTS
    Endpoints = {"login", "login_totp", "reset"}
    Limit <- CallLimit
    Window <- CallWindow
    Second = 2
    MaxTime = 8
SPECIFICATION Spec
INVARIANTS
    TypeOK
    LoginLimit
    RecordBounded
