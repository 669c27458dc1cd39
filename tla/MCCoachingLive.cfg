SPECIFICATION FairSpec
CONSTANTS
    NumTopics = 2
    Expected = 2
    Outcomes <- PoorAndGood
    r1 = r1
    r2 = r2
    Runs <- MCRuns
    MaxNotes = 2
    MaxFaults = 1
INVARIANT
    NotesSound
PROPERTY
    GoalReached
CHECK_DEADLOCK FALSE
