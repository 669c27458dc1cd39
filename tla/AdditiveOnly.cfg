SPECIFICATION Spec
CONSTANTS
    Skills = {s1, s2, s3}
    MaxFaults = 0
PROPERTY
    AdditiveOnly
CHECK_DEADLOCK FALSE
