SPECIFICATION FairSpec
CONSTANTS
    NumTopics = 2
    Expected = 2
    Outcomes <- PoorAndGood
    r1 = r1
    r2 = r2
    Runs <- MCRuns
    MaxNotes = 1
    MaxFaults = 0
PROPERTY
    HighDelivered
CHECK_DEADLOCK FALSE
