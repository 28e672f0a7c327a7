CONSTANTS
    Threads = {t1, t2}
    Readers = {t1}
    Writers = {t2}
    Paths = {p1}
    Hash <- MCHash
    NBlocks = 2
    BlockSize = 2
    FileLen = 3
    MaxCacheSize = 2
    CounterMod = 16
    MaxIno = 4
    MaxTime = 1
    MaxWrites = 2
    IOFailures = FALSE
SPECIFICATION CFSSpec
INVARIANT NoStaleRead
VIEW View
