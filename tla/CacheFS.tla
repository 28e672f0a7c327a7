------------------------------- MODULE CacheFS -------------------------------
(***************************************************************************)
(* The read and write paths of the CacheFS dispatcher (spec 4.4 "Read" and *)
(* "Write") over the backend file and the block cache of BlockStore.  The  *)
(* dispatcher source (cachefs.c) is not in the repository: these actions   *)
(* follow the spec; every block cache call they make is BlockStore's model *)
(* of cache_block.c, step by step.                                         *)
(*                                                                         *)
(* File bytes are abstracted to stamps: the backend byte at offset i holds *)
(* the number of the last backend pwrite that covered it, so a byte served *)
(* to a reader can be compared with the writes that completed before the   *)
(* read began.                                                             *)
(***************************************************************************)
EXTENDS BlockStore

CONSTANTS
    FileLen,    \* length in bytes of every backend file (writes do not grow it)
    Readers,    \* threads that may issue read()
    Writers,    \* threads that may issue write()
    MaxWrites   \* bound: number of backend writes

Offsets == 0..(FileLen - 1)

VARIABLES
    back,       \* back[p][i]: backend byte i of p (a stamp)
    stamp,      \* number of backend pwrites so far
    committed,  \* committed[p][i]: stamp of the last write covering i that completed
    dpc,        \* dpc[t]: program point of thread t in the dispatcher
    dl          \* dl[t]: arguments and locals of thread t's FUSE call

cfsVars == <<back, stamp, committed, dpc, dl>>
vars    == <<bsVars, cfsVars>>

NoOp == [op |-> "none", p |-> CHOOSE p \in Paths : TRUE, off |-> 0, len |-> 0,
         b |-> 0, hi |-> 0, buf |-> <<>>, res |-> <<>>,
         s |-> 0, snap |-> [i \in Offsets |-> 0]]

CFSInit ==
    /\ Init
    /\ back = [p \in Paths |-> [i \in Offsets |-> 0]]
    /\ stamp = 0
    /\ committed = [p \in Paths |-> [i \in Offsets |-> 0]]
    /\ dpc = [t \in Threads |-> "idle"]
    /\ dl = [t \in Threads |-> NoOp]

Min2(a, b) == IF a < b THEN a ELSE b
Max2(a, b) == IF a > b THEN a ELSE b

\* End (exclusive) of the bytes a read of [off, off+len) returns: the
\* backend pread never crosses the end of the file.
ReadEnd(off, len) == Min2(off + len, FileLen)

\* The part of block b that a read of [off, off+len) wants: offset within
\* the block and number of bytes.
Within(b, off)      == IF b * BlockSize < off THEN off - b * BlockSize ELSE 0
Want(b, off, len)   == Min2((b + 1) * BlockSize, ReadEnd(off, len))
                         - (b * BlockSize + Within(b, off))

\* Mutant: the backend pread is not clamped to one block.
BackendBlockToEOF(p, b) ==
    [j \in 1..(FileLen - b * BlockSize) |-> back[p][b * BlockSize + j - 1]]

\* Backend pread of the whole of block b (the last block may be short).
BackendBlock(p, b) ==
    [j \in 1..(Min2((b + 1) * BlockSize, FileLen) - b * BlockSize) |->
        back[p][b * BlockSize + j - 1]]

-----------------------------------------------------------------------------
(* read(path, offset, length): the block span, then block after block.     *)
StartRead(t, p, off, len) ==
    /\ dpc[t] = "idle"
    /\ t \in Readers
    /\ dpc' = [dpc EXCEPT ![t] = "rd_check"]
    /\ dl' = [dl EXCEPT ![t] = [NoOp EXCEPT !.op = "read", !.p = p, !.off = off,
                 !.len = len, !.b = off \div BlockSize,
                 !.hi = (ReadEnd(off, len) - 1) \div BlockSize,
                 !.snap = committed[p]]]
    /\ UNCHANGED <<bsVars, back, stamp, committed>>

\* Next block of the span: cache_block_exists, then cache_block_read on a
\* hit; a miss goes to the backend.  Past the span the read returns.
ReadCheck(t) ==
    /\ dpc[t] = "rd_check"
    /\ LET l == dl[t] IN
       IF l.b > l.hi
       THEN /\ dpc' = [dpc EXCEPT ![t] = "idle"]
            /\ UNCHANGED bsVars
       ELSE IF Present(Name(l.p, l.b))
       THEN /\ CallRead(t, l.p, l.b, Within(l.b, l.off), Want(l.b, l.off, l.len))
            /\ dpc' = [dpc EXCEPT ![t] = "rd_cached"]
       ELSE /\ dpc' = [dpc EXCEPT ![t] = "rd_fetch"]
            /\ UNCHANGED bsVars
    /\ UNCHANGED <<back, stamp, committed, dl>>

\* cache_block_read returned: append its bytes; if it failed (the block
\* vanished after the exists check) fall back to the backend.
ReadCached(t) ==
    /\ dpc[t] = "rd_cached"
    /\ pc[t] = "idle"
    /\ IF lc[t].ok
       THEN /\ dpc' = [dpc EXCEPT ![t] = "rd_check"]
            /\ dl' = [dl EXCEPT ![t].res = @ \o lc[t].ret, ![t].b = @ + 1]
       ELSE /\ dpc' = [dpc EXCEPT ![t] = "rd_fetch"]
            /\ dl' = dl
    /\ UNCHANGED <<bsVars, back, stamp, committed>>

\* Miss: backend pread of the whole block into the buffer.
ReadFetch(t) ==
    /\ dpc[t] = "rd_fetch"
    /\ dl' = [dl EXCEPT ![t].buf = BackendBlock(dl[t].p, dl[t].b)]
    /\ dpc' = [dpc EXCEPT ![t] = "rd_store"]
    /\ UNCHANGED <<bsVars, back, stamp, committed>>

\* Then cache_block_write of the buffer, a separate call: a write's pwrite
\* and invalidation may run between the two.
ReadStore(t) ==
    /\ dpc[t] = "rd_store"
    /\ CallWrite(t, dl[t].p, dl[t].b, dl[t].buf)
    /\ dpc' = [dpc EXCEPT ![t] = "rd_fill"]
    /\ UNCHANGED <<back, stamp, committed, dl>>

\* cache_block_write returned (whatever its result): serve the slice from
\* the buffer read from the backend.
ReadFill(t) ==
    /\ dpc[t] = "rd_fill"
    /\ pc[t] = "idle"
    /\ LET l == dl[t] IN
       dl' = [dl EXCEPT ![t].res = @ \o Slice(l.buf, Within(l.b, l.off),
                                                    Want(l.b, l.off, l.len)),
                        ![t].b = @ + 1, ![t].buf = <<>>]
    /\ dpc' = [dpc EXCEPT ![t] = "rd_check"]
    /\ UNCHANGED <<bsVars, back, stamp, committed>>

-----------------------------------------------------------------------------
(* write(path, buf, offset, length): backend pwrite first, then            *)
(* cache_block_invalidate_range over the bytes written.                    *)
StartWrite(t, p, o, n) ==
    /\ dpc[t] = "idle"
    /\ t \in Writers
    /\ stamp < MaxWrites
    /\ back' = [back EXCEPT ![p] = [i \in Offsets |->
                   IF o <= i /\ i < o + n THEN stamp + 1 ELSE @[i]]]
    /\ stamp' = stamp + 1
    /\ CallInvalidateRange(t, p, o, n)
    /\ dpc' = [dpc EXCEPT ![t] = "wr_inv"]
    /\ dl' = [dl EXCEPT ![t] = [NoOp EXCEPT !.op = "write", !.p = p, !.off = o,
                 !.len = n, !.s = stamp + 1]]
    /\ UNCHANGED committed

\* The invalidation returned: the write is complete.
WriteDone(t) ==
    /\ dpc[t] = "wr_inv"
    /\ pc[t] = "idle"
    /\ LET l == dl[t] IN
       committed' = [committed EXCEPT ![l.p] = [i \in Offsets |->
                       IF l.off <= i /\ i < l.off + l.len THEN Max2(@[i], l.s)
                                                          ELSE @[i]]]
    /\ dpc' = [dpc EXCEPT ![t] = "idle"]
    /\ UNCHANGED <<bsVars, back, stamp, dl>>

-----------------------------------------------------------------------------
Dispatch(t) ==
    \/ ReadCheck(t) \/ ReadCached(t) \/ ReadFetch(t) \/ ReadStore(t) \/ ReadFill(t)
    \/ WriteDone(t)

\* FUSE calls the threads may start: any read within the file by a reader
\* thread, and any write within the file by a writer thread.
Call(t) ==
    \/ \E p \in Paths, off \in Offsets : \E len \in 1..(FileLen - off) :
          StartRead(t, p, off, len)
    \/ \E p \in Paths, o \in Offsets : \E n \in 1..(FileLen - o) :
          StartWrite(t, p, o, n)

CFSNext ==
    \/ Tick /\ UNCHANGED cfsVars
    \/ \E t \in Threads :
          \/ Call(t) \/ Dispatch(t)
          \/ Step(t) /\ UNCHANGED cfsVars

CFSSpec == CFSInit /\ [][CFSNext]_vars

-----------------------------------------------------------------------------
CFSTypeOK ==
    /\ TypeOK
    /\ back \in [Paths -> [Offsets -> 0..MaxWrites]]
    /\ committed \in [Paths -> [Offsets -> 0..MaxWrites]]
    /\ stamp \in 0..MaxWrites
    /\ dpc \in [Threads -> {"idle", "rd_check", "rd_cached", "rd_fetch",
                            "rd_store", "rd_fill", "wr_inv"}]

ReadDone(t) == dpc[t] = "idle" /\ dl[t].op = "read"

\* Spec P1 and spec 5 ("no reader ever observes a partial block"): a read
\* returns all the bytes of [off, off+len) that the file has -- a short
\* read would tell the application the file ended there.  A cached block
\* is opened with O_TRUNC and then written (cache_block_write, 399-405),
\* so a reader of that block between the two reads fewer bytes.
ReadNotShort ==
    \A t \in Threads :
        ReadDone(t) => Len(dl[t].res) = ReadEnd(dl[t].off, dl[t].len) - dl[t].off

\* Spec P3: a read never returns a byte older than a write that completed
\* (backend pwrite and cache invalidation both done) before the read began.
NoStaleRead ==
    \A t \in Threads :
        ReadDone(t) =>
            \A j \in 1..Len(dl[t].res) : dl[t].res[j] >= dl[t].snap[dl[t].off + j - 1]

=============================================================================
