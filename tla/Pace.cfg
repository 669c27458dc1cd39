SPECIFICATION Spec
CONSTANTS
    WeeklyHours = {2, 4, 10}
    MaxDays = 7
    MaxTopics = 3
INVARIANTS
    TypeOK
    UnderstandingDecides
    OneTopicIsNoTrend
    ImprovementHelps
CHECK_DEADLOCK FALSE
