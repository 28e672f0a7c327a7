\* Two threads storing and looking up one directory's listing: the two queries of cache_dir_lookup against a concurrent store.
CONSTANTS
    Threads <- MCThreads
    Paths <- MCPath
    Names <- MCNames
    Versions = {1}
    MTimes = {1}
    MetaTTL = 1
    DirTTL = 1
    NegTTL = 1
    MaxTime = 0
    IOFailures = FALSE
    ThreadOps <- DirRaceOps
SPECIFICATION Spec
INVARIANT DirLookupSafe
