CONSTANTS
    Names = {admin, n1, n2}
    AdminName = admin
    NoName = NoName
    Late = TRUE
    CommitsFail = {"register", "create"}
    Unacked = {}
    Throws = {"create", "update", "profile"}
    MaxFailures = 2
    MaxCrashes = 2
SPECIFICATION Spec
INVARIANT
    AllOrNothing
