SPECIFICATION Spec
CONSTANTS
    NumQuestions = 2
    MaxAttempts = 3
    t1 = t1
    t2 = t2
    t3 = t3
    Texts <- MCTexts
    NoSlot = NoSlot
    NoResult = NoResult
    Interrupts = FALSE
    MaxFaults = 1
INVARIANT
    RetryCap
CHECK_DEADLOCK FALSE
