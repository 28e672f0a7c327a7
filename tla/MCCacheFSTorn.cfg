\* Two readers of one file and no writer: a reader opens a cached block
\* between another fill's open(O_TRUNC) and its write.  Run name: cfs_torn.
CONSTANTS
    Threads = {t1, t2}
    Readers = {t1, t2}
    Writers = {}
    Paths = {p1}
    Hash <- MCHash
    NBlocks = 2
    BlockSize = 2
    FileLen = 3
    MaxCacheSize = 2
    CounterMod = 16
    MaxIno = 4
    MaxTime = 1
    MaxWrites = 2
    IOFailures = FALSE
SPECIFICATION CFSSpec
INVARIANT ReadNotShort
VIEW View
