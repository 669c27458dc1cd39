SPECIFICATION Spec
CONSTANTS
    Skills = {s1, s2, s3}
    MaxFaults = 0
INVARIANT
    ExitBuildsNothing
CHECK_DEADLOCK FALSE
