\* 4 files, 2 workers; a file takes nothing or more than the budget
CONSTANTS
    w1 = w1
    w2 = w2
    NoItem = NoItem
    NumFiles = 4
    Workers = {w1, w2}
    Limit = 2
    Amounts = {0, 3}
    EventsCap = 1
    ReportEvery = 2
SPECIFICATION Spec
SYMMETRY WorkerSymmetry
INVARIANTS
    TypeOK
    PublishedComplete
    OneOwner
    ReturnLeavesNothing
    VerdictHonest
