----------------------------- MODULE BlockStore -----------------------------
(***************************************************************************)
(* The block cache of CacheFS (cache_block.c, src/unnamed/part_005).       *)
(*                                                                         *)
(* Blocks are files blocks/XX/YY/<hash>-<idx> whose name depends only on   *)
(* hash_path(path) and the block index.  The file system under the cache   *)
(* root is modelled as POSIX does it: a directory maps names to inodes,    *)
(* an inode holds content and an atime, and an open descriptor refers to   *)
(* an inode, not to a name.  current_cache_size is a plain size_t shared   *)
(* by every FUSE thread with no lock; every "+=" / "-=" on it is a load    *)
(* and a store that other threads may interleave with.                     *)
(*                                                                         *)
(* Each thread runs one call at a time; pc[t] is where it is in the call   *)
(* and lc[t] holds the call's arguments and locals.                        *)
(***************************************************************************)
EXTENDS Integers, Sequences, FiniteSets, SequencesExt

CONSTANTS
    Threads,        \* FUSE worker threads calling into the block cache
    Paths,          \* backend paths
    Hash,           \* Hash[p]: hash_path(p), DJB2 (collisions possible)
    NBlocks,        \* block indices are 0..NBlocks-1
    BlockSize,      \* ctx->block_size
    MaxCacheSize,   \* ctx->max_cache_size, 0 = unlimited
    CounterMod,     \* 2^(width of size_t), abstracted to a small power of 2
    MaxIno,         \* inode numbers of the cache file system (reused)
    MaxTime,        \* bound: seconds of the clock
    IOFailures      \* TRUE: open() may fail and write() may be short

Idx    == 0..(NBlocks - 1)
Hashes == {Hash[p] : p \in Paths}
Names  == Hashes \X Idx                 \* "<hash>-<idx>" under blocks/XX/YY
Inos   == 1..MaxIno
\* Enough inode numbers for every block file plus one open file per thread.
ASSUME MaxIno >= Cardinality(Names) + Cardinality(Threads)
NoIno  == 0
Fail   == -1

VARIABLES
    dir,        \* dir[nm]: inode linked at block file name nm, or NoIno
    content,    \* content[i]: bytes of inode i (a sequence of tags)
    atime,      \* atime[i]: st_atime of inode i
    cacheSize,  \* ctx->current_cache_size
    now,        \* time(NULL)
    pc,         \* pc[t]: program point of thread t
    lc,         \* lc[t]: arguments and locals of thread t's current call
    hist        \* hist[p][b]: every buffer passed to cache_block_write(p, b)

bsVars == <<dir, content, atime, cacheSize, now, pc, lc, hist>>

\* get_block_path: the file name ignores the path except through its hash.
Name(p, b) == <<Hash[p], b>>

Present(nm) == nm \in Names /\ dir[nm] # NoIno
Size(i)     == Len(content[i])
\* Inodes a name links or a thread holds open; the others are free.
Live        == Range(dir) \cup {lc[t].fd : t \in Threads}
FreeIno     == CHOOSE i \in Inos : i \notin Live
\* Bytes of block files on disk: what calculate_cache_size would return.
DiskBytes   == MapThenSumSet(LAMBDA nm : Size(dir[nm]), {nm \in Names : Present(nm)})

\* pread(fd, buf, len, off) on a file holding d.
Slice(d, off, len) ==
    SubSeq(d, off + 1, IF off + len < Len(d) THEN off + len ELSE Len(d))

\* Mutant: the file opened with O_APPEND, so the write lands at its end.
WriteAppend(c, d, w) == c \o SubSeq(d, 1, w)

\* write(fd, d, ...) at offset 0 that wrote w bytes over a file holding c.
WriteAt0(c, d, w) == SubSeq(d, 1, w) \o SubSeq(c, w + 1, Len(c))

\* size_t arithmetic
Plus(a, b)  == (a + b) % CounterMod
Minus(a, b) == (a - b) % CounterMod

\* Locals of a thread between calls.  Fields an operation does not use keep
\* these values.
NoCall == [op |-> "none", p |-> CHOOSE p \in Paths : TRUE, b |-> 0,
           data |-> <<>>, off |-> 0, len |-> 0, fd |-> NoIno, i |-> 0,
           hi |-> 0, tmp |-> 0, cur |-> 0, written |-> 0, target |-> 0,
           order |-> <<>>, evicted |-> 0, pending |-> {}, ok |-> TRUE,
           ret |-> 0, raced |-> {}]

Init ==
    /\ dir = [nm \in Names |-> NoIno]
    /\ content = [i \in Inos |-> <<>>]
    /\ atime = [i \in Inos |-> 0]
    \* cache_block_init: current_cache_size = calculate_cache_size(ctx)
    /\ cacheSize = DiskBytes
    /\ now = 0
    /\ pc = [t \in Threads |-> "idle"]
    /\ lc = [t \in Threads |-> NoCall]
    /\ hist = [p \in Paths |-> [b \in Idx |-> {}]]

\* A call returns r; only the arguments a caller can still see are kept.
Returned(l, r, ok) ==
    [NoCall EXCEPT !.op = l.op, !.p = l.p, !.b = l.b, !.off = l.off,
                   !.len = l.len, !.ret = r, !.ok = ok]

Return(t, r) ==
    /\ pc' = [pc EXCEPT ![t] = "idle"]
    /\ lc' = [lc EXCEPT ![t] = Returned(@, r, TRUE)]

ReturnFail(t) ==
    /\ pc' = [pc EXCEPT ![t] = "idle"]
    /\ lc' = [lc EXCEPT ![t] = Returned(@, Fail, FALSE)]

-----------------------------------------------------------------------------
(* cache_block_read: open(O_RDONLY) the block file, then pread from it.    *)
(* The open is part of the call step; the descriptor keeps the inode.      *)
CallRead(t, p, b, off, len) ==
    /\ pc[t] = "idle"
    /\ LET nm == Name(p, b) IN
       IF Present(nm)
       THEN /\ pc' = [pc EXCEPT ![t] = "r_pread"]
            /\ lc' = [lc EXCEPT ![t] = [NoCall EXCEPT !.op = "read", !.p = p,
                          !.b = b, !.off = off, !.len = len, !.fd = dir[nm]]]
       ELSE /\ pc' = pc
            /\ lc' = [lc EXCEPT ![t] = Returned([NoCall EXCEPT !.op = "read",
                          !.p = p, !.b = b, !.off = off, !.len = len], Fail, FALSE)]
    /\ UNCHANGED <<dir, content, atime, cacheSize, now, hist>>

\* pread updates atime or not, as the cache file system's atime policy
\* (strictatime, relatime, noatime) decides.
ReadPread(t) ==
    /\ pc[t] = "r_pread"
    /\ LET fd == lc[t].fd IN
       /\ Return(t, Slice(content[fd], lc[t].off, lc[t].len))
       /\ atime' \in {atime, [atime EXCEPT ![fd] = now]}
    /\ UNCHANGED <<dir, content, cacheSize, now, hist>>

\* Ghost: l with block b recorded as raced in the locals of every other
\* thread that is inside an invalidation of path p.
WithRaced(l, t, p, b) ==
    [u \in Threads |->
        IF u # t /\ pc[u] \in {"ir_unlink", "ir_store", "if_unlink", "if_store"}
              /\ lc[u].p = p
        THEN [l[u] EXCEPT !.raced = @ \cup {b}] ELSE l[u]]

-----------------------------------------------------------------------------
\* Mutant: open without O_TRUNC, so a shorter write keeps the old tail.
CallWriteNoTrunc(t, p, b, d) ==
    /\ pc[t] = "idle"
    /\ LET nm  == Name(p, b)
           new == [NoCall EXCEPT !.op = "write", !.p = p, !.b = b, !.data = d]
       IN \/ /\ Present(nm)
             /\ pc' = [pc EXCEPT ![t] = "w_write"]
             /\ lc' = WithRaced([lc EXCEPT ![t] = [new EXCEPT !.fd = dir[nm]]], t, p, b)
             /\ UNCHANGED <<dir, content, atime>>
          \/ /\ ~Present(nm)
             /\ LET i == FreeIno IN
                /\ dir' = [dir EXCEPT ![nm] = i]
                /\ content' = [content EXCEPT ![i] = <<>>]
                /\ atime' = [atime EXCEPT ![i] = now]
                /\ pc' = [pc EXCEPT ![t] = "w_write"]
                /\ lc' = WithRaced([lc EXCEPT ![t] = [new EXCEPT !.fd = i]], t, p, b)
          \/ /\ IOFailures
             /\ pc' = pc
             /\ lc' = [lc EXCEPT ![t] = Returned(new, Fail, FALSE)]
             /\ UNCHANGED <<dir, content, atime>>
    /\ hist' = [hist EXCEPT ![p][b] = @ \cup {d}]
    /\ UNCHANGED <<cacheSize, now>>

(* cache_block_write: create_block_dir, open(O_WRONLY|O_CREAT|O_TRUNC),     *)
(* write, close, current_cache_size += written, and an eviction pass when  *)
(* the counter exceeds max_cache_size.                                     *)
CallWrite(t, p, b, d) ==
    /\ pc[t] = "idle"
    /\ LET nm  == Name(p, b)
           new == [NoCall EXCEPT !.op = "write", !.p = p, !.b = b, !.data = d]
       IN \/ \* open succeeds on the existing file and truncates it in place
             /\ Present(nm)
             /\ content' = [content EXCEPT ![dir[nm]] = <<>>]
             /\ pc' = [pc EXCEPT ![t] = "w_write"]
             /\ lc' = WithRaced([lc EXCEPT ![t] = [new EXCEPT !.fd = dir[nm]]], t, p, b)
             /\ UNCHANGED <<dir, atime>>
          \/ \* open creates the file on a free inode
             /\ ~Present(nm)
             /\ LET i == FreeIno IN
                /\ dir' = [dir EXCEPT ![nm] = i]
                /\ content' = [content EXCEPT ![i] = <<>>]
                /\ atime' = [atime EXCEPT ![i] = now]
                /\ pc' = [pc EXCEPT ![t] = "w_write"]
                /\ lc' = WithRaced([lc EXCEPT ![t] = [new EXCEPT !.fd = i]], t, p, b)
          \/ \* open fails: return -1
             /\ IOFailures
             /\ pc' = pc
             /\ lc' = [lc EXCEPT ![t] = Returned(new, Fail, FALSE)]
             /\ UNCHANGED <<dir, content, atime>>
    /\ hist' = [hist EXCEPT ![p][b] = @ \cup {d}]
    /\ UNCHANGED <<cacheSize, now>>

\* write(fd, buf, size) into the inode (linked or not), close; on a short
\* write return -1 leaving the file as written.  Otherwise load the counter.
WriteData(t) ==
    /\ pc[t] = "w_write"
    /\ \E w \in IF IOFailures THEN 0..Len(lc[t].data) ELSE {Len(lc[t].data)} :
          /\ content' = [content EXCEPT ![lc[t].fd] = WriteAt0(@, lc[t].data, w)]
          /\ IF w # Len(lc[t].data)
             THEN ReturnFail(t)
             ELSE /\ pc' = [pc EXCEPT ![t] = "w_store"]
                  /\ lc' = [lc EXCEPT ![t].written = w, ![t].tmp = cacheSize]
    /\ UNCHANGED <<dir, atime, cacheSize, now, hist>>

\* Store of "current_cache_size += written" and the eviction test.
WriteStore(t) ==
    /\ pc[t] = "w_store"
    /\ LET v == Plus(lc[t].tmp, lc[t].written) IN
       /\ cacheSize' = v
       /\ IF MaxCacheSize > 0 /\ v > MaxCacheSize
          THEN /\ pc' = [pc EXCEPT ![t] = "e_scan"]
               /\ lc' = [lc EXCEPT ![t].target = (MaxCacheSize * 9) \div 10]
          ELSE Return(t, 0)
    /\ UNCHANGED <<dir, content, atime, now, hist>>

-----------------------------------------------------------------------------
(* evict_lru_blocks(target)                                               *)
Entry(nm) == [name |-> nm, atime |-> atime[dir[nm]], size |-> Size(dir[nm])]

\* The orders qsort(compare_block_atime) may produce: qsort is not stable,
\* so entries with equal atime come out in any order.
SortedByAtime(S) ==
    {s \in SetToSeqs(S) : IsSorted(s, LAMBDA x, y : x.atime <= y.atime)}

\* Early return when under target; otherwise stat every block file.
EvictScan(t) ==
    /\ pc[t] = "e_scan"
    /\ IF cacheSize <= lc[t].target
       THEN Return(t, 0)
       ELSE LET S == {Entry(nm) : nm \in {n \in Names : Present(n)}} IN
            IF S = {}
            THEN Return(t, 0)
            ELSE \E s \in SortedByAtime(S) :
                    /\ pc' = [pc EXCEPT ![t] = "e_unlink"]
                    /\ lc' = [lc EXCEPT ![t].order = s, ![t].i = 1,
                                        ![t].evicted = 0]
    /\ UNCHANGED <<dir, content, atime, cacheSize, now, hist>>

\* One iteration of the unlink loop; the loop test re-reads the counter.
\* The evicted size is the size stat() saw during the scan.
EvictUnlink(t) ==
    /\ pc[t] = "e_unlink"
    /\ LET i == lc[t].i
           e == lc[t].order[i]
       IN IF i <= Len(lc[t].order)
             /\ Minus(cacheSize, lc[t].evicted) > lc[t].target
          THEN /\ IF Present(e.name)
                  THEN /\ dir' = [dir EXCEPT ![e.name] = NoIno]
                       /\ lc' = [lc EXCEPT ![t].i = i + 1,
                                           ![t].evicted = @ + e.size]
                  ELSE /\ lc' = [lc EXCEPT ![t].i = i + 1]
                       /\ dir' = dir
               /\ pc' = pc
          ELSE /\ pc' = [pc EXCEPT ![t] = "e_store"]
               /\ lc' = [lc EXCEPT ![t].tmp = cacheSize]
               /\ dir' = dir
    /\ UNCHANGED <<content, atime, cacheSize, now, hist>>

\* Store of "current_cache_size -= evicted_size".
EvictStore(t) ==
    /\ pc[t] = "e_store"
    /\ cacheSize' = Minus(lc[t].tmp, lc[t].evicted)
    /\ Return(t, 0)
    /\ UNCHANGED <<dir, content, atime, now, hist>>


-----------------------------------------------------------------------------
(* cache_block_invalidate_range: unlink blocks offset/bs .. (offset+size)/bs *)
(* of the path, subtracting each unlinked file's stat size from the counter.*)
\* Mutant: the loop stops before the block holding byte offset+size.
CallInvalidateRangeExcl(t, p, o, n) ==
    /\ pc[t] = "idle"
    /\ pc' = [pc EXCEPT ![t] = "ir_unlink"]
    /\ lc' = [lc EXCEPT ![t] = [NoCall EXCEPT !.op = "invrange", !.p = p,
                  !.off = o, !.len = n, !.i = o \div BlockSize,
                  !.hi = (o + n) \div BlockSize - 1]]
    /\ UNCHANGED <<dir, content, atime, cacheSize, now, hist>>

\* Mutant: the first block is rounded up, skipping a partly written one.
CallInvalidateRangeRoundUp(t, p, o, n) ==
    /\ pc[t] = "idle"
    /\ pc' = [pc EXCEPT ![t] = "ir_unlink"]
    /\ lc' = [lc EXCEPT ![t] = [NoCall EXCEPT !.op = "invrange", !.p = p,
                  !.off = o, !.len = n, !.i = (o + BlockSize - 1) \div BlockSize,
                  !.hi = (o + n) \div BlockSize]]
    /\ UNCHANGED <<dir, content, atime, cacheSize, now, hist>>

CallInvalidateRange(t, p, o, n) ==
    /\ pc[t] = "idle"
    /\ pc' = [pc EXCEPT ![t] = "ir_unlink"]
    /\ lc' = [lc EXCEPT ![t] = [NoCall EXCEPT !.op = "invrange", !.p = p,
                  !.off = o, !.len = n, !.i = o \div BlockSize,
                  !.hi = (o + n) \div BlockSize]]
    /\ UNCHANGED <<dir, content, atime, cacheSize, now, hist>>

\* One loop iteration: stat, unlink, and the load of "-= st.st_size".
\* Mutant: block_size subtracted instead of the file's st_size.
InvRangeUnlinkBlockSize(t) ==
    /\ pc[t] = "ir_unlink"
    /\ LET nm == Name(lc[t].p, lc[t].i) IN
       IF lc[t].i > lc[t].hi
       THEN Return(t, 0) /\ dir' = dir
       ELSE IF Present(nm)
       THEN /\ dir' = [dir EXCEPT ![nm] = NoIno]
            /\ pc' = [pc EXCEPT ![t] = "ir_store"]
            /\ lc' = [lc EXCEPT ![t].cur = BlockSize, ![t].tmp = cacheSize]
       ELSE /\ lc' = [lc EXCEPT ![t].i = @ + 1]
            /\ UNCHANGED <<dir, pc>>
    /\ UNCHANGED <<content, atime, cacheSize, now, hist>>

\* Mutant: the index advances only when a block was found.
InvRangeUnlinkStuck(t) ==
    /\ pc[t] = "ir_unlink"
    /\ LET nm == Name(lc[t].p, lc[t].i) IN
       IF lc[t].i > lc[t].hi
       THEN Return(t, 0) /\ dir' = dir
       ELSE IF Present(nm)
       THEN /\ dir' = [dir EXCEPT ![nm] = NoIno]
            /\ pc' = [pc EXCEPT ![t] = "ir_store"]
            /\ lc' = [lc EXCEPT ![t].cur = Size(dir[nm]), ![t].tmp = cacheSize]
       ELSE UNCHANGED <<dir, pc, lc>>
    /\ UNCHANGED <<content, atime, cacheSize, now, hist>>

InvRangeUnlink(t) ==
    /\ pc[t] = "ir_unlink"
    /\ LET nm == Name(lc[t].p, lc[t].i) IN
       IF lc[t].i > lc[t].hi
       THEN Return(t, 0) /\ dir' = dir
       ELSE IF Present(nm)
       THEN /\ dir' = [dir EXCEPT ![nm] = NoIno]
            /\ pc' = [pc EXCEPT ![t] = "ir_store"]
            /\ lc' = [lc EXCEPT ![t].cur = Size(dir[nm]), ![t].tmp = cacheSize]
       ELSE /\ lc' = [lc EXCEPT ![t].i = @ + 1]
            /\ UNCHANGED <<dir, pc>>
    /\ UNCHANGED <<content, atime, cacheSize, now, hist>>

InvRangeStore(t) ==
    /\ pc[t] = "ir_store"
    /\ cacheSize' = Minus(lc[t].tmp, lc[t].cur)
    /\ pc' = [pc EXCEPT ![t] = "ir_unlink"]
    /\ lc' = [lc EXCEPT ![t].i = @ + 1]
    /\ UNCHANGED <<dir, content, atime, now, hist>>

(* cache_block_invalidate_file: readdir blocks/XX/YY and unlink every entry *)
(* named "<hash>-*".  readdir returns the entries present at opendir that   *)
(* are still there; one created meanwhile may be missed.                    *)
CallInvalidateFile(t, p) ==
    /\ pc[t] = "idle"
    /\ pc' = [pc EXCEPT ![t] = "if_unlink"]
    /\ lc' = [lc EXCEPT ![t] = [NoCall EXCEPT !.op = "invfile", !.p = p,
                  !.pending = {i \in Idx : Present(Name(p, i))}]]
    /\ UNCHANGED <<dir, content, atime, cacheSize, now, hist>>

InvFileUnlink(t) ==
    /\ pc[t] = "if_unlink"
    /\ IF lc[t].pending = {}
       THEN Return(t, 0) /\ dir' = dir
       ELSE \E i \in lc[t].pending :
              LET nm == Name(lc[t].p, i) IN
              IF Present(nm)
              THEN /\ dir' = [dir EXCEPT ![nm] = NoIno]
                   /\ pc' = [pc EXCEPT ![t] = "if_store"]
                   /\ lc' = [lc EXCEPT ![t].cur = Size(dir[nm]),
                                       ![t].tmp = cacheSize,
                                       ![t].pending = @ \ {i}]
              ELSE /\ lc' = [lc EXCEPT ![t].pending = @ \ {i}]
                   /\ UNCHANGED <<dir, pc>>
    /\ UNCHANGED <<content, atime, cacheSize, now, hist>>

InvFileStore(t) ==
    /\ pc[t] = "if_store"
    /\ cacheSize' = Minus(lc[t].tmp, lc[t].cur)
    /\ pc' = [pc EXCEPT ![t] = "if_unlink"]
    /\ UNCHANGED <<lc, dir, content, atime, now, hist>>

\* The clock advances (bounded by MaxTime).
Tick ==
    /\ now < MaxTime
    /\ now' = now + 1
    /\ UNCHANGED <<dir, content, atime, cacheSize, pc, lc, hist>>

\* Every step a thread takes inside a block cache call.
Step(t) ==
    \/ ReadPread(t)
    \/ WriteData(t) \/ WriteStore(t)
    \/ EvictScan(t) \/ EvictUnlink(t) \/ EvictStore(t)
    \/ InvRangeUnlink(t) \/ InvRangeStore(t)
    \/ InvFileUnlink(t) \/ InvFileStore(t)

Idle == \A t \in Threads : pc[t] = "idle"

-----------------------------------------------------------------------------
(* Refinement mapping to BlockCache, the interface of cache_block.h.  A   *)
(* block is cached when its file exists; a block whose file a thread has  *)
(* opened for writing already holds, abstractly, the buffer being written *)
(* (cache_block_write takes effect at its open).                          *)
AbsCached == {k \in Paths \X Idx : Present(Name(k[1], k[2]))}

Writing(k) == {t \in Threads : pc[t] = "w_write" /\ <<lc[t].p, lc[t].b>> = k}

AbsData ==
    [k \in Paths \X Idx |->
        IF Writing(k) # {} THEN lc[CHOOSE t \in Writing(k) : TRUE].data
        ELSE IF Present(Name(k[1], k[2])) THEN content[dir[Name(k[1], k[2])]]
        ELSE <<>>]

AbsCall ==
    [t \in Threads |->
        LET l    == lc[t]
            busy == pc[t] # "idle"
        IN [op |-> l.op, p |-> l.p, b |-> l.b, off |-> l.off, len |-> l.len,
            data |-> IF ~busy /\ l.op = "read" /\ l.ok THEN l.ret ELSE <<>>,
            res  |-> IF busy THEN 0
                     ELSE IF ~l.ok THEN -1
                     ELSE IF l.op = "read" THEN Len(l.ret) ELSE 0,
            busy |-> busy]]

-----------------------------------------------------------------------------
TypeOK ==
    /\ dir \in [Names -> {NoIno} \cup Inos]
    /\ atime \in [Inos -> 0..MaxTime]
    /\ cacheSize \in 0..(CounterMod - 1)
    /\ now \in 0..MaxTime
    \* a block file never holds more than one block
    /\ \A nm \in Names : Present(nm) => Size(dir[nm]) <= BlockSize
    /\ pc \in [Threads -> {"idle", "r_pread", "w_write", "w_store", "e_scan",
                           "e_unlink", "e_store", "ir_unlink", "ir_store",
                           "if_unlink", "if_store"}]

\* Weaker contract that survives concurrency and failed writes: every byte a
\* successful cache_block_read(p, b) returns sits, in its block, at the
\* position where some cache_block_write(p, b) put it -- never a byte of
\* another path or block, never a byte moved.
NoForeignBytes ==
    \A t \in Threads :
        (pc[t] = "idle" /\ lc[t].op = "read" /\ lc[t].ok) =>
            \A j \in 1..Len(lc[t].ret) :
                \E d \in hist[lc[t].p][lc[t].b] :
                    /\ lc[t].off + j <= Len(d)
                    /\ lc[t].ret[j] = d[lc[t].off + j]

\* current_cache_size never undercounts the block files on disk when no
\* call is in progress (an undercount lets the store outgrow max_cache_size
\* and wraps the size_t on a later subtraction).
CounterCoversDisk == Idle => cacheSize >= DiskBytes

\* Spec 4.3: "a running counter tracks current_bytes": when no call is in
\* progress, current_cache_size equals the bytes of block files on disk.
CounterTracksDisk == Idle => cacheSize = DiskBytes

\* Blocks whose byte range meets [o, o+n).
Overlapping(o, n) == {i \in Idx : i * BlockSize < o + n /\ o < (i + 1) * BlockSize}

\* When cache_block_invalidate_range(p, o, n) returns, no block of p whose
\* range meets [o, o+n) exists; when cache_block_invalidate_file(p)
\* returns, no block of p exists -- except a block another thread began
\* writing while the invalidation ran (invalidate_file's readdir need not
\* see a file created after opendir).
InvalidationRemoves ==
    [][\A t \in Threads :
         (pc[t] \in {"ir_unlink", "if_unlink"} /\ pc'[t] = "idle") =>
            \A i \in (IF lc[t].op = "invrange"
                      THEN Overlapping(lc[t].off, lc[t].len) ELSE Idx) :
                i \notin lc[t].raced => ~Present(Name(lc[t].p, i))'
      ]_bsVars

=============================================================================
