SPECIFICATION Spec
CONSTANTS
    a = a
    b = b
    t1 = t1
    t2 = t2
    Skills <- MCSkills
    TrustThreshold = 2
    NumRoles = 2
    Cron = cron
    Sessions = {s1}
    Topics <- MCTopics
    SkillOf <- MCSkillOf
    Answers <- MCAnswers
    MaxCron = 2
    MaxMonths = 1
    MaxFaults = 1
INVARIANTS
    TypeOK
    RiseReachesLearner
    NotesJustified
    HighNeedsAnchor
SYMMETRY TopicSymmetry
CHECK_DEADLOCK FALSE
