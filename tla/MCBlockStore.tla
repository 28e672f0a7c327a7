---------------------------- MODULE MCBlockStore ----------------------------
(***************************************************************************)
(* The block cache on its own: every thread calls the cache_block_* API    *)
(* with any arguments from small sets, as the FUSE read and write paths    *)
(* do.  Buffers are tagged with the path and a version so that a read can  *)
(* be traced back to the write that stored it.                             *)
(***************************************************************************)
EXTENDS BlockStore, TLC

CONSTANTS Versions

MCHashDistinct  == [p \in Paths |-> p]
MCHashCollide   == [p \in Paths |-> "h"]

\* The buffers a caller stores for block b of p: a full or short block.
Bufs(p, b) == {[j \in 1..k |-> <<p, b, v, j>>] : k \in 1..BlockSize, v \in Versions}

Client(t) ==
    \/ \E p \in Paths, b \in Idx, off \in 0..(BlockSize - 1) :
          CallRead(t, p, b, off, BlockSize - off)
    \/ \E p \in Paths, b \in Idx : \E d \in Bufs(p, b) : CallWrite(t, p, b, d)
    \/ \E p \in Paths, o \in 0..(NBlocks * BlockSize - 1), n \in 1..BlockSize :
          CallInvalidateRange(t, p, o, n)
    \/ \E p \in Paths : CallInvalidateFile(t, p)

Next == Tick \/ \E t \in Threads : Client(t) \/ Step(t)

Spec == Init /\ [][Next]_bsVars

\* A FUSE worker inside a cache_block_* call waits on no lock and no other
\* thread: it keeps being scheduled until the call returns.
FairSpec == Spec /\ \A t \in Threads : WF_bsVars(Step(t))

BC == INSTANCE BlockCache WITH
          Buffers <- UNION {Bufs(p, b) : p \in Paths, b \in Idx},
          cached <- AbsCached, data <- AbsData, call <- AbsCall

\* The block cache implements its interface (cache_block.h): every call
\* takes effect at one instant with the result the interface describes,
\* eviction happens only inside a write, every write returns with the
\* store within max_cache_size, and every call returns.
BlockCacheRefined == BC!Spec

\* An inode that no name links and no thread holds open can never be read
\* again: states that differ only in such inodes are the same state.
View == <<dir, [i \in Inos |-> IF i \in Live THEN content[i] ELSE <<>>],
          [i \in Inos |-> IF i \in Live THEN atime[i] ELSE 0],
          cacheSize, now, pc, lc, hist>>

=============================================================================
