SPECIFICATION FairSpec
CONSTANTS
    Skills = {s1, s2, s3}
    MaxFaults = 2
INVARIANTS
    TypeOK
    RowsGrounded
    ShownIsStored
PROPERTIES
    OutlineFrozen
    PlanPromise
    GateEnds
    PlanReached
CHECK_DEADLOCK FALSE
