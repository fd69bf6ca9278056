CONSTANTS
    Checks = {c1}
    Downloads = {d1, d2}
    Applies = {p1}
    Assets = {v1}
    SharedDelete = TRUE
    None = None
SPECIFICATION Spec
SYMMETRY DownloadSymmetry
INVARIANTS
    WellFormed
    ReadyIsVerifiedUndisturbed
    HelperIsVerified
PROPERTIES
    ClosedAnnouncesNothing
