CONSTANTS
    Threads = {t1, t2}
    Paths = {p1}
    Hash <- MCHashDistinct
    NBlocks = 2
    BlockSize = 2
    MaxCacheSize = 3
    CounterMod = 16
    MaxIno = 4
    MaxTime = 1
    IOFailures = FALSE
    Versions = {1}
SPECIFICATION Spec
INVARIANT CounterCoversDisk
VIEW View
