\* Two threads looking up and storing two paths through the shared select and insert statements.
CONSTANTS
    Threads <- MCThreads
    Paths <- MCPaths
    Names <- MCNames
    Versions = {1}
    MTimes = {1}
    MetaTTL = 1
    DirTTL = 1
    NegTTL = 1
    MaxTime = 0
    IOFailures = FALSE
    ThreadOps <- RaceOps
SPECIFICATION Spec
INVARIANT MetaLookupSound
