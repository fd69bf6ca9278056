CONSTANTS
    Threads = {t1, t2}
    SharedDelete = FALSE
    DamageKinds = {}
    FaultKinds = {"read"}
    MaxGen = 3
    MaxDamages = 0
    MaxFaults = 1
    MaxCrashes = 1
SPECIFICATION Spec
INVARIANT AcknowledgedSurvives
