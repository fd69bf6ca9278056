CONSTANTS
    MaxFaults = 2
    MayCrash = TRUE
SPECIFICATION Spec
INVARIANTS
    WellFormed
    PreviousKept
    EndsAsAnnounced
PROPERTIES
    HelperEnds
CHECK_DEADLOCK FALSE
