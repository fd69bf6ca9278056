CONSTANTS
    Threads = {t1, t2}
    SharedDelete = FALSE
    DamageKinds = {"corrupt"}
    FaultKinds = {"write", "rename"}
    MaxGen = 3
    MaxDamages = 1
    MaxFaults = 2
    MaxCrashes = 1
SPECIFICATION Spec
INVARIANTS
    WellFormed
    AcknowledgedSurvives
    NeverSilentlyEmpty
PROPERTIES
    NoLostUpdate
    OperationsEnd
