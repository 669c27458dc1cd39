SPECIFICATION Spec
CONSTANTS
    NumTopics = 3
    Expected = 2
    Outcomes <- PoorAndGood
    r1 = r1
    r2 = r2
    Runs <- MCRuns
    MaxNotes = 0
    MaxFaults = 2
INVARIANT
    SustainedTrend
CHECK_DEADLOCK FALSE
