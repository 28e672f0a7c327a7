\* t1 stores attributes while t2 stores a listing whose insert fails and rolls back the connection's transaction.
CONSTANTS
    Threads <- MCThreads
    Paths <- MCPath
    Names <- MCNames
    Versions = {1}
    MTimes = {1}
    MetaTTL = 1
    DirTTL = 1
    NegTTL = 1
    MaxTime = 0
    IOFailures = TRUE
    ThreadOps <- SplitOps
SPECIFICATION Spec
INVARIANT StoreDurable
