CONSTANTS
    \* ProjectStats
    N = 3
    Workers = 4
    MaxWorkers = 2
    NoFile = NoFile
    \* Lifecycle
    Requests = {r1}
    Stoppers = {s1, s2}
    NoCause = NoCause
    \* ContentView
    Generations = {g1, g2}
    Scans = {s1}
    Saved = {d1, d2}
    Copies = {c1, c2}
    NoDoc = NoDoc
    \* UpdateView
    Checks = {c1}
    Polls = {p1}
SPECIFICATION Spec
INVARIANTS
    CountsEveryFile
    ExitIsHonest
    ContentIsCurrent
    ControlsMatchWork
    CardMatchesUpdate
PROPERTIES
    CountingEnds
    ExitsWhenAsked
    ReadyIsShown
