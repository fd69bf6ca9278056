CONSTANTS
    MaxFaults = 0
    MayCrash = FALSE
SPECIFICATION Spec
INVARIANT RolledBack
CHECK_DEADLOCK FALSE
