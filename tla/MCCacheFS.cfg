CONSTANTS
    Threads = {t1}
    Readers = {t1}
    Writers = {t1}
    Paths = {p1}
    Hash <- MCHash
    NBlocks = 2
    BlockSize = 2
    FileLen = 3
    MaxCacheSize = 2
    CounterMod = 16
    MaxIno = 4
    MaxTime = 1
    MaxWrites = 2
    IOFailures = FALSE
SPECIFICATION CFSSpec
INVARIANT CFSTypeOK
INVARIANT NoStaleRead
VIEW View
