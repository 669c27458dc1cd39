SPECIFICATION FairSpec
CONSTANTS
    NumQuestions = 2
    MaxAttempts = 3
    t1 = t1
    t2 = t2
    t3 = t3
    Texts <- MCTexts
    NoSlot = NoSlot
    NoResult = NoResult
    Interrupts = TRUE
    MaxFaults = 2
INVARIANTS
    TypeOK
    EarlierAttemptsFailed
    CompletionSound
    FreshRetry
    CapUpToFaults
PROPERTIES
    QuizPromise
    QuizEnds
CHECK_DEADLOCK FALSE
