\* that NeverStuck's guards are those of the actions (not one of the listed runs: the
\* theorem NoDeadlock states NeverStuck for every value of the constants)
CONSTANTS
    w1 = w1
    w2 = w2
    NoItem = NoItem
    NumFiles = 3
    Workers = {w1, w2}
    Limit = 2
    Amounts = {0, 1, 3}
    EventsCap = 1
    ReportEvery = 1
SPECIFICATION Spec
INVARIANTS
    CanStepMeansEnabled
    NeverStuck
