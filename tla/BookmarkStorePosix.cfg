CONSTANTS
    Threads = {t1, t2}
    SharedDelete = TRUE
    DamageKinds = {"corrupt"}
    FaultKinds = {}
    MaxGen = 3
    MaxDamages = 1
    MaxFaults = 2
    MaxCrashes = 1
SPECIFICATION Spec
INVARIANT NeverSilentlyEmpty
