SPECIFICATION ScanSpec
CONSTANTS
    Listing <- MCListing
    Links <- MCLinks
    ExcludedDirs <- MCExcludedDirs
    ExcludedFiles = {"y"}
    Rules <- MCRules
    IgnoreFiles <- MCIgnoreFiles
    DirFaults = FALSE
    IgnoreFaults = FALSE
    NoDirectory = NoDirectory
INVARIANTS Complete
