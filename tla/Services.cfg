CONSTANTS
    \* ProjectScan
    Listing <- MCListing
    Links <- MCLinks
    ExcludedDirs <- MCExcludedDirs
    ExcludedFiles = {"y"}
    Rules <- MCRules
    IgnoreFiles <- MCIgnoreFiles
    DirFaults = TRUE
    IgnoreFaults = TRUE
    NoDirectory = NoDirectory
    \* TokenCache
    g1 = g1
    g2 = g2
    a1 = a1
    a2 = a2
    a3 = a3
    big = big
    huge = huge
    long = long
    Goroutines = {g1, g2}
    Texts = {a1, a2, a3, big, huge, long}
    Size <- MCSize
    CountIn <- MCCountIn
    MaxBytes = 3
    MaxEntries = 2
    MaxCached = 4
    Modes = {"exact", "estimate"}
    Watched = {a1}
    Nil = Nil
    \* Vocabulary
    t1 = t1
    t2 = t2
    t3 = t3
    p = p
    q = q
    Tokenizers = {t1, t2, t3}
    Processes = {p, q}
    ProcessOf <- MCProcessOf
    ReadFaults = TRUE
    MaxCrashes = 1
    \* Versions
    Ladder <- MCLadder
    Others <- MCOthers
SPECIFICATION Spec
INVARIANTS
    ListedIsInScope
    CompleteUnlessReincluded
    CacheIsConsistent
    OneCountPerText
    VocabularyIsSound
    NoReturn
    PrecedenceIsHonoured
PROPERTIES
    VocabularySteps
