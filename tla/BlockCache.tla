----------------------------- MODULE BlockCache -----------------------------
(***************************************************************************)
(* What the block cache interface promises (src/src/cache_block.h): a map *)
(* from (path, block index) to the bytes last written there, with calls   *)
(* that take effect at one instant.  cache_block_read returns the bytes   *)
(* of the block from offset on, or -1 when the block is not cached;       *)
(* cache_block_write stores the buffer (0) or fails and changes nothing  *)
(* (-1); the invalidations return once no affected block is cached; the  *)
(* store never holds more than max_cache_size bytes after a write.  While *)
(* a write is in progress the cache may drop any block (eviction).        *)
(*                                                                         *)
(* call[t] is the call thread t is in or last returned from: its          *)
(* arguments, the bytes a read returned (data), the return value (res) and *)
(* whether it is still in progress (busy).                                *)
(***************************************************************************)
EXTENDS Integers, Sequences, FiniteSets, FiniteSetsExt

CONSTANTS Threads, Paths, NBlocks, BlockSize, MaxCacheSize,
          Buffers   \* the buffers callers pass to cache_block_write

Idx  == 0..(NBlocks - 1)
Keys == Paths \X Idx

VARIABLES
    cached,     \* the (path, block) pairs cache_block_exists reports
    data,       \* data[k]: bytes of block k (<<>> when not cached)
    call        \* call[t]: thread t's current or last call

absVars == <<cached, data, call>>

NoCall == [op |-> "none", p |-> CHOOSE p \in Paths : TRUE, b |-> 0, off |-> 0,
           len |-> 0, data |-> <<>>, res |-> 0, busy |-> FALSE]

\* A call in progress with the given arguments.
Args(op, p, b, off, len) ==
    [NoCall EXCEPT !.op = op, !.p = p, !.b = b, !.off = off, !.len = len,
                   !.busy = TRUE]

\* cache_block_get_stats: bytes of the cached blocks.
CurrentSize == MapThenSumSet(LAMBDA k : Len(data[k]), cached)

\* cache_block_init on an empty cache root.
Init ==
    /\ cached = {}
    /\ data = [k \in Keys |-> <<>>]
    /\ call = [t \in Threads |-> NoCall]

Free(t) == ~call[t].busy

Finish(t, d, r) ==
    call' = [call EXCEPT ![t].data = d, ![t].res = r, ![t].busy = FALSE]

\* Bytes a read of len bytes at offset off within block d returns.
Bytes(d, off, len) == SubSeq(d, off + 1, IF off + len < Len(d) THEN off + len ELSE Len(d))

-----------------------------------------------------------------------------
(* cache_block_read                                                       *)
ReadMiss(t, p, b, off, len) ==
    /\ Free(t) /\ <<p, b>> \notin cached
    /\ call' = [call EXCEPT ![t] = [Args("read", p, b, off, len) EXCEPT
                                       !.res = -1, !.busy = FALSE]]
    /\ UNCHANGED <<cached, data>>

ReadBegin(t, p, b, off, len) ==
    /\ Free(t) /\ <<p, b>> \in cached
    /\ call' = [call EXCEPT ![t] = Args("read", p, b, off, len)]
    /\ UNCHANGED <<cached, data>>

ReadEnd(t) ==
    /\ call[t].busy /\ call[t].op = "read"
    /\ LET c == call[t]
           d == Bytes(data[<<c.p, c.b>>], c.off, c.len)
       IN Finish(t, d, Len(d))
    /\ UNCHANGED <<cached, data>>

(* cache_block_write: the buffer is stored when the call begins; the call *)
(* returns once the store is within max_cache_size.                       *)
WriteBegin(t, p, b, d) ==
    /\ Free(t)
    /\ cached' = cached \cup {<<p, b>>}
    /\ data' = [data EXCEPT ![<<p, b>>] = d]
    /\ call' = [call EXCEPT ![t] = Args("write", p, b, 0, 0)]

WriteFail(t, p, b) ==
    /\ Free(t)
    /\ call' = [call EXCEPT ![t] = [Args("write", p, b, 0, 0) EXCEPT
                                       !.res = -1, !.busy = FALSE]]
    /\ UNCHANGED <<cached, data>>

WriteEnd(t) ==
    /\ call[t].busy /\ call[t].op = "write"
    /\ MaxCacheSize = 0 \/ CurrentSize <= MaxCacheSize
    /\ Finish(t, <<>>, 0)
    /\ UNCHANGED <<cached, data>>

\* A write in progress may evict any block.
Evict(k) ==
    /\ k \in cached
    /\ \E t \in Threads : call[t].busy /\ call[t].op = "write"
    /\ cached' = cached \ {k}
    /\ data' = [data EXCEPT ![k] = <<>>]
    /\ UNCHANGED call

-----------------------------------------------------------------------------
(* cache_block_invalidate_range and cache_block_invalidate_file            *)
Overlapping(o, n) == {i \in Idx : i * BlockSize < o + n /\ o < (i + 1) * BlockSize}

\* Blocks the call must remove before it returns.
Affected(c) ==
    {<<c.p, i>> : i \in IF c.op = "invrange" THEN Overlapping(c.off, c.len) ELSE Idx}

Invalidating(t) == call[t].busy /\ call[t].op \in {"invrange", "invfile"}

InvRangeBegin(t, p, o, n) ==
    /\ Free(t)
    /\ call' = [call EXCEPT ![t] = Args("invrange", p, 0, o, n)]
    /\ UNCHANGED <<cached, data>>

InvFileBegin(t, p) ==
    /\ Free(t)
    /\ call' = [call EXCEPT ![t] = Args("invfile", p, 0, 0, 0)]
    /\ UNCHANGED <<cached, data>>

\* An invalidation may remove blocks of its path beyond the affected ones.
Drop(t, k) ==
    /\ Invalidating(t) /\ k \in cached /\ k[1] = call[t].p
    /\ cached' = cached \ {k}
    /\ data' = [data EXCEPT ![k] = <<>>]
    /\ UNCHANGED call

InvEnd(t) ==
    /\ Invalidating(t)
    /\ Affected(call[t]) \cap cached = {}
    /\ Finish(t, <<>>, 0)
    /\ UNCHANGED <<cached, data>>

-----------------------------------------------------------------------------
\* Steps that bring thread t's call to its return.
Progress(t) == ReadEnd(t) \/ WriteEnd(t) \/ InvEnd(t) \/ \E k \in Keys : Drop(t, k)

Next ==
    \/ \E t \in Threads :
          \/ \E p \in Paths, b \in Idx :
                \/ WriteFail(t, p, b)
                \/ \E off \in 0..(BlockSize - 1), len \in 1..BlockSize :
                      ReadMiss(t, p, b, off, len) \/ ReadBegin(t, p, b, off, len)
                \/ \E d \in Buffers : WriteBegin(t, p, b, d)
          \/ \E p \in Paths : \E o \in 0..(NBlocks * BlockSize - 1),
                                   n \in 1..(NBlocks * BlockSize) :
                                 InvRangeBegin(t, p, o, n)
          \/ \E p \in Paths : InvFileBegin(t, p)
          \/ Progress(t)
    \/ \E k \in Keys : Evict(k)

\* Every call that has begun returns.
Spec == Init /\ [][Next]_absVars /\ \A t \in Threads : WF_absVars(Progress(t))

=============================================================================
