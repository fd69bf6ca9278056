\* 3 files that take nothing, half the budget or more than all of it; no symmetry, for the
\* refinement and for liveness
CONSTANTS
    w1 = w1
    w2 = w2
    NoItem = NoItem
    NumFiles = 3
    Workers = {w1, w2}
    Limit = 2
    Amounts = {0, 1, 3}
    EventsCap = 1
    ReportEvery = 1
SPECIFICATION Spec
INVARIANTS
    MemoryAccounted
PROPERTIES
    ImplementsAtomicDocument
    EveryGoroutineEnds
