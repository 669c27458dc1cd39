SPECIFICATION FairSpec
CONSTANTS
    Calls = {c1, c2, c3}
    Interval = 2
    MaxAttempts = 2
    None = none
INVARIANTS
    TypeOK
    Spaced
    OneHangs
PROPERTIES
    HangIsFinal
    OthersEnd
    HangFailsTheRest
