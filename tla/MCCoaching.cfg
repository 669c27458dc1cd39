SPECIFICATION Spec
CONSTANTS
    NumTopics = 3
    Expected = 2
    Outcomes <- AllOutcomes
    r1 = r1
    r2 = r2
    Runs <- MCRuns
    MaxNotes = 1
    MaxFaults = 1
SYMMETRY RunSymmetry
INVARIANTS
    TypeOK
    CompletedMeasured
    ExtensionEarned
PROPERTIES
    NeverReopened
    JourneyPromise
CHECK_DEADLOCK FALSE
