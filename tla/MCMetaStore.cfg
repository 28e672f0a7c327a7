\* One thread making every cache_meta.c call in any order, with insert
\* failures: lookups are current, TTLs hold, listings are whole.
CONSTANTS
    Threads <- MCThread
    Paths <- MCPath
    Names <- MCNames
    Versions = {1, 2}
    MTimes = {1, 2}
    MetaTTL = 1
    DirTTL = 1
    NegTTL = 1
    MaxTime = 2
    IOFailures = TRUE
    ThreadOps <- SeqOps
SPECIFICATION Spec
INVARIANT LookupCurrent DirLookupCurrent
VIEW SeqView
