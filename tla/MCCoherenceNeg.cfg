\* S3 under the spec's getattr protocol: a getattr that saw ENOENT puts its
\* negative record after a concurrent create invalidated the path, so a later
\* getattr gets ENOENT for a file that exists.  Run name: coh_negrace.
CONSTANTS
    Threads <- MCThreads
    Paths <- MCPath
    Names = {}
    Versions = {1, 2}
    MTimes = {}
    MetaTTL = 3
    DirTTL = 1
    NegTTL = 2
    MaxTime = 2
    IOFailures = FALSE
    ThreadOps <- EngineOps
    MaxVer = 2
    MaxInode = 2
SPECIFICATION CohSpec
INVARIANT NoENOENTAfterCreate
VIEW CohView
