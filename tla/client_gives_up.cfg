SPECIFICATION Spec
CONSTANTS
    Configs <- NoLimit
    MaxAttempts = 4
    MaxUserStarts = 2
INVARIANTS NeverGivesUp
CHECK_DEADLOCK FALSE
