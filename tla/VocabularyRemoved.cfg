CONSTANTS
    t1 = t1
    t2 = t2
    t3 = t3
    p = p
    q = q
    Tokenizers = {t1, t3}
    Processes = {p, q}
    ProcessOf <- MCTwoProcesses
    ReadFaults = FALSE
    MaxCrashes = 0
SPECIFICATION VocabularySpec
PROPERTIES
    VerifiedStays
