CONSTANTS
    Paths <- MCPaths
    Fold <- MCFold
    Ids = {1, 2, 3}
    Stamps = {1, 2}
    Notes = {"none", "text"}
    NoNote = "none"
    OldIds = {1, 2}
    OldOrders = {0, 1}
    Keys = {"k"}
    NoKey = ""
    MaxResults = 2
    MaxListed = 2
    Incoming <- MCIncoming
    NoResult = NoResult
SPECIFICATION Spec
INVARIANTS
    WellFormed
    HistoryMatchesLedger
PROPERTIES
    OrderIsStable
