CONSTANTS
    Generations = {g1}
    Scans = {}
    Saved = {d1, d2}
    Copies = {c1}
    NoDoc = NoDoc
SPECIFICATION ContentSpec
INVARIANTS
    CachedIsCurrent
