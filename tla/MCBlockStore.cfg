\* One thread calling every block cache operation, each call taken by a
\* thread that is scheduled until it returns: the store implements the
\* contract of cache_block.h and the counter never undercounts the disk.
CONSTANTS
    Threads = {t1}
    Paths = {p1}
    Hash <- MCHashDistinct
    NBlocks = 2
    BlockSize = 2
    MaxCacheSize = 3
    CounterMod = 16
    MaxIno = 3
    MaxTime = 1
    IOFailures = FALSE
    Versions = {1}
SPECIFICATION FairSpec
INVARIANT CounterCoversDisk
PROPERTY BlockCacheRefined
