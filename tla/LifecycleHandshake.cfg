SPECIFICATION LifecycleSpec
CONSTANTS
    Requests = {r1}
    Stoppers = {s1}
    NoCause = NoCause
PROPERTIES HandshakeMeansServing
