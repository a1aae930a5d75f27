CONSTANTS
    Names = {admin, n1}
    AdminName = admin
    NoName = NoName
    Late = TRUE
    CommitsFail = {"register", "create", "update", "profile"}
    Unacked = {"register", "create", "update", "profile"}
    Throws = {"create", "update", "profile"}
    MaxFailures = 1
    MaxCrashes = 1
SPECIFICATION Spec
INVARIANTS
    TypeOK
    StoredWhole
    AnswersAreTrue
    ClaimHolds
