CONSTANTS
    Threads = {t1, t2}
    Paths = {p1}
    Hash <- MCHashDistinct
    NBlocks = 1
    BlockSize = 2
    MaxCacheSize = 1
    CounterMod = 4
    MaxIno = 3
    MaxTime = 0
    IOFailures = TRUE
    Versions = {1}
SPECIFICATION Spec
INVARIANT NoForeignBytes
PROPERTY InvalidationRemoves
VIEW View
