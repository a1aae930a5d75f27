CONSTANTS
    Producers = {p}
    Size = 4
    MaxEvents = 10
SPECIFICATION Spec
INVARIANTS
    TypeOK
    SnapshotExact
PROPERTY
    RecentSpec
