# CacheFS — TLA+ models

These are TLA+ models of CacheFS. CacheFS is a FUSE file system, forked from bindfs, that caches a slow backend (SMB, NFS) on local disk. The specification is `spec.md`. The source in this repository is:

| file | what it is |
|---|---|
| `src/unnamed/part_005` | `cache_block.c`, the block store |
| `src/unnamed/part_004` | `cache_meta.c`, the metadata store, in an SQLite build and an LMDB build |
| `src/unnamed/part_003` | notes on a rename (lines 1-71), then `cache_coherency.c` (lines 72-165): `validate_meta`, `validate_dir`, `check_and_invalidate` |
| `src/unnamed/part_006` | the headers `cache_coherency.h` and `cache_meta.h` |
| `src/unnamed/part_000` | the requirements specification |
| the remaining parts | packaging scripts and Homebrew formulae |

The dispatcher (`cachefs.c`) is not in the repository, and nothing in it calls the coherence functions of part_003. Where a model needs the dispatcher's protocol (the attribute query, the read and write paths, the lazy initialisation), it follows spec 4.4/4.5, and `PROJECT.json` marks those definitions `spec_modelled`.

## 1. The system

| part | state | operations | interacts with |
|---|---|---|---|
| Backend adapter (spec 4.1) | none (the backend file system) | pread, pwrite, stat, create, unlink, rename | dispatcher |
| Metadata store (spec 4.2, part_004) | one SQLite connection with six prepared statements, or one LMDB environment; the tables meta(path → attrs, type, cached_at, valid_until) and dirs(path → names, dir_mtime, valid_until) | meta lookup/store/store_negative/invalidate; dir lookup/store/invalidate | coherence engine |
| Block store (spec 4.3, part_005) | the files `blocks/XX/YY/<hash>-<idx>` under the cache root (name → inode → bytes, atime); `current_cache_size`, a plain `size_t` in the shared context | exists, read, write (create dir, open O_TRUNC, write, counter += and synchronous LRU eviction), invalidate_range, invalidate_file, stats; init scans the disk for the size | dispatcher (read fills, write invalidations) |
| Coherence engine (spec 4.4) | none of its own | validate meta/dir against a backend stat; check-and-invalidate on open | both stores |
| Dispatcher (spec 4.5) | per-mount init state UNINIT → INITIALIZING → READY → DISABLED | the FUSE callbacks: read, write, getattr, readdir, create, unlink, rename | everything |

FUSE runs the callbacks on several threads at once. Every store is shared by all of them.

**Concurrency in the block store.** It has no lock. `current_cache_size` is updated by `+=` and `-=` from writes, evictions and invalidations, and each update is a separate load and store. Spec 5 says the opposite: a mutex and atomic write-temp+rename.

**Concurrency in the metadata store.**
- SQLite build: one connection is opened in the default threading mode, with WAL and a 100 ms busy timeout. Every thread uses the same six prepared statements through reset/bind/step/column.
- LMDB build: a transaction per call, but all of its directory functions return -1.

### The hard behaviours

- Interleavings of block writes, reads, evictions and invalidations on the same block file, and on the shared counter.
- A crash between `open(O_TRUNC)` and `write`, or a short write, leaves a partial block under the block's own name.
- The dispatcher fetches from the backend and then stores the block. A concurrent write's backend pwrite and invalidation can land in between.
- Eviction decides from a scan (stat sizes and atimes) and acts later by name. Ties between equal atimes are broken by an unstable `qsort`.
- Hash collisions: a block name carries only the path's DJB2 hash.
- Metadata store:
  - the shared prepared statements;
  - the `BEGIN ... COMMIT` of `cache_dir_store` on the shared connection;
  - the two-query `cache_dir_lookup`;
  - TTL edges (`now < valid_until`, in whole seconds);
  - the negative-entry TTL.

### The properties each part should have

- **Block store** (spec 4.3 "coherence contract"):
  - a read returns what a write stored, never a partial block;
  - after an invalidation the affected blocks are absent;
  - the counter tracks the bytes on disk;
  - the disk stays within `max_cache_size` (P5).
- **Dispatcher read/write:**
  - P1: no short or foreign bytes;
  - P3: no read older than a completed write.
- **Metadata store and coherence:**
  - P7: no expired record is served;
  - P4: no ENOENT after a create;
  - P2: inode numbers are never stale;
  - directory listings agree with the backend after its mtime changes.
- **Init state machine:** one initialiser; DISABLED is absorbing; in DISABLED there is no cache access.

## 2. Modules

### `BlockStore.tla` — `cache_block.c`

**The file system.** The cache root is modelled as POSIX sees it:
- `dir` maps block names to inodes;
- `content` and `atime` belong to inodes;
- a thread's open descriptor (`lc[t].fd`) holds an inode, not a name. An unlinked file stays readable through it, and an `O_TRUNC` open truncates the inode in place.
- Inode numbers are reused once nothing links or holds them (`FreeIno`).

**Block names.** `Name(p, b) == <<Hash[p], b>>` is `get_block_path`. `Hash` is a constant function, so a configuration can make two paths collide.

**Threads.** Each thread runs one call at a time. `pc[t]` is its program point and `lc[t]` holds its locals. Each call is split only where another thread can observe a difference:

| call | steps |
|---|---|
| `cache_block_read` | open (`CallRead`), then pread+close (`ReadPread`) |
| `cache_block_write` | mkdir+open/truncate (`CallWrite`); write+close and the counter load (`WriteData`); the counter store and eviction test (`WriteStore`) |
| `evict_lru_blocks` | scan+sort (`EvictScan`); one unlink per loop iteration (`EvictUnlink`); the final `-=` store (`EvictStore`) |
| `cache_block_invalidate_range` | `CallInvalidateRange`, `InvRangeUnlink`, `InvRangeStore` |
| `cache_block_invalidate_file` | `CallInvalidateFile`, `InvFileUnlink`, `InvFileStore` |

**Data and arithmetic.**
- The counter is taken modulo `CounterMod`, the width of a `size_t` scaled down, so an underflow wraps as it does in C.
- A read's atime update is nondeterministic: strictatime, relatime and noatime all occur.
- `invalidate_file`'s readdir works on a snapshot of the directory taken at opendir.
- `hist[p][b]` is a ghost variable: every buffer ever passed to `cache_block_write(p, b)`.
- `lc[t].raced` is a ghost: the blocks of its path that other threads began writing while t's invalidation ran. InvalidationRemoves exempts them, since a write that begins during the call may legitimately leave its block cached.

`MCBlockStore.tla` lets each thread call any operation on small arguments. Each buffer byte is tagged `<<path, block, version, position>>`, so a misplaced or foreign byte is visible. A `VIEW` forgets the content of inodes that nothing references.

### `BlockCache.tla` — the contract of `cache_block.h`

An abstract block cache, read from the header's documentation (`src/src/cache_block.h`):
- `cached` is the set of (path, block) pairs `cache_block_exists` reports, and `data[k]` the bytes of block k;
- `call[t]` is thread t's call: its arguments, a read's bytes, the return value and whether it is still running.

Each call takes effect at one instant:
- a read returns the bytes of the block from the offset on, or -1 for a block that is not cached;
- a write stores the buffer when it begins, or fails and changes nothing;
- an invalidation may drop blocks of its path, and returns once no affected block is cached;
- while a write runs, any block may be evicted, and the write returns only within `max_cache_size`.

`Spec` asks weak fairness of each thread's progress steps: every call that began returns.

**Refinement.** `MCBlockStore.tla` maps BlockStore's state to BlockCache's (`AbsCached`, `AbsData`, `AbsCall` in `BlockStore.tla`):
- a block is cached when its name is linked;
- its data is the buffer of a write in progress, else the linked file's content;
- a call's result is read from the thread's locals when it returns.

`BlockCacheRefined == BC!Spec` is checked by `bs_seq` as a temporal property of `FairSpec`, which is BlockStore with weak fairness of each thread's `Step(t)`. The fairness is justified because no block-store call takes a lock or waits on another thread: a FUSE worker inside it is always able to run its next statement. The refinement holds for one thread without I/O failures. With two threads, or with short writes, the torn reads of `bs_conc`'s scenarios and the partial file a failed write leaves are exactly what it would reject. Within it, the contract subsumes the separate checks a one-thread run could make: a read returns exactly the bytes the last write stored (`O_TRUNC`), and a write returns only within `max_cache_size`.

### `MetaStore.tla` — `cache_meta.c`, SQLite build

**State.**
- `meta[p]` and `dirRows[d]` are the tables `metadata` and `dir_entries`.
- `stmt[s]` is each of the six prepared statements: bound parameters (which survive `sqlite3_reset`), the rows of its query, and its position.
- `inTxn`/`undo` are the connection's transaction.
- `now` is `time(NULL)`.
- `mpc[t]`/`ml[t]` are a thread's program point and locals.

**Steps.** The connection is opened in SQLite's default serialized mode, so each API call is atomic, but nothing makes a sequence of calls atomic. Every function is therefore split at its calls on the shared statements:

| function | steps |
|---|---|
| `cache_meta_lookup` | reset (`CallLookup`), bind, step, column reads + validity (`LkCol`) |
| `cache_meta_store` / `_negative` | clock + reset, the binds (one step), step (may fail) |
| `cache_meta_invalidate` | reset, bind, step |
| `cache_dir_store` | BEGIN + reset, bind, delete + clock, then per entry reset, bind, step (a failure ROLLBACKs), COMMIT |
| `cache_dir_lookup` | reset, bind, counting steps, reset, bind, reading steps, each followed by its column reads |
| `cache_dir_invalidate` | reset, bind, step |

A select computes its rows at its first step (and again after `SQLITE_DONE`, as SQLite auto-resets). Columns read without a current row are NULL (0). `strdup` of a NULL name stops the thread at `segv`. BEGIN inside a transaction fails and is ignored; COMMIT and ROLLBACK end whatever transaction the connection is in. Ghost variables record:
- what the returned calls would leave (`wantMeta`, `wantDir`);
- everything stores were asked to write (`storedMeta`, `storedDir`);
- the last acknowledged store of each path (`acked`).

`MCMetaStore.tla` gives the threads' call sets per configuration. `SeqView` drops values no later step can read:
- the rows of a statement not on a row;
- a binding no thread is about to step;
- the locals of returned non-lookup calls;
- the ghost sets the sequential properties do not use.

### `MetaStoreLMDB.tla` — `cache_meta.c`, LMDB build

This build (part_004, lines 475-880) keeps MetaStore's variables. The statements, the directory table and the connection's transaction stay at their initial values. Each call opens its own LMDB transaction:
- a read-only snapshot for the lookup;
- a write transaction for a store, a negative store or an invalidation. LMDB serialises write transactions with its writer lock.

So each transaction is one step. The clock is read outside it, which makes some calls two steps:

| function | steps |
|---|---|
| `cache_meta_lookup` | the read transaction (`LmLookup`; a failed begin or `MDB_NOTFOUND` returns -1), then `time(NULL)` and the validity test (`LmValid`) |
| `cache_meta_store` / `_negative` | `time(NULL)` and the record (`LmStore`, `LmStoreNegative`), then put + commit, or -1 when any of them fails (`LmPut`) |
| `cache_meta_invalidate` | one write transaction (`LmInvalidate`); `MDB_NOTFOUND` returns 0 |
| `cache_dir_*` | the stubs: -1 and no effect (`LmDirStub`) |

The negative record's TTL is the literal 2 seconds of line 749. The key is `{strlen(path), path}` (`Key`). The build is exercised through the engine that calls it (`coh_negrace` and `init_remount`, below); `LmNext`/`LmSpec` give it on its own, every thread making every call.

Neither build declares the fields the other uses. The LMDB functions use `ctx->env`, `ctx->meta_dbi` and `ctx->dir_dbi`, but the `struct cache_meta_ctx` at lines 491-500 declares the SQLite handle and statements, and the file includes `sqlite3.h`, not `lmdb.h`. As written, this half of part_004 does not compile. The model follows what its functions do.

### `Coherence.tla` — the coherence engine over the LMDB build

`cache_coherency_validate_meta` (part_003:97-115) is `ValidateMeta`: false when the stat failed, otherwise the cached (mtime, size) equal the stat's. The protocol that calls it is the dispatcher's, so the rest of the engine follows spec 4.4 (spec_modelled). `validate_dir` is not reached (the LMDB directory functions are stubs) and `check_and_invalidate` has no caller in the repository. Every metadata call it makes is MetaStoreLMDB's own action, step by step; an engine step waits until its call has returned (`mpc[t] = "idle"`), and other threads' LMDB steps run in between. The backend is `bex`/`bver`/`bino` per path: exists, (mtime, size) as a version, inode.

| operation | steps |
|---|---|
| getattr | `GaStart` (lookup) → `GaNegHit` (valid NEGATIVE: ENOENT) / `GaRevalidate` (valid record: stat, compare (mtime, size) — `cache_coherency_validate_meta` — and return with the live inode, or go on with the fresh stat) / `GaStat` (miss or expired: stat) → `GaInvalidate` on a mismatch → `GaPut` (store, or put_negative on ENOENT) → `GaDone` |
| create, unlink, write | `Create`/`Unlink`/`Write` (the backend call, through `Mutation`) → `MutInvalidate` (invalidate_attr) → `MutInvalidateDir` (invalidate_dir(parent), the LMDB stub) for create and unlink |
| readdir | `ListStart` (lookup_dir: the stub misses) → `ListPut` (put_dir: the stub refuses) |

A failed store or invalidation is logged and the operation goes on (spec 4.4 "log and continue"). The ghost `settled[p]` says p exists and every mutation of p has returned; a getattr records in `cl[t].must` whether it began settled. `MCCoherence.tla` gives the view `CohView`: it drops the locals no later step reads and keeps instead whether the invariant holds, so no violating state is merged with a passing one.

### `LazyInit.tla` — the per-mount cache initialisation (spec 4.5; spec_modelled but for `cache_meta_init`/`cache_meta_destroy`)

EXTENDS Coherence and puts the state machine of spec 4.5 in front of it. `istate` is UNINIT, INITIALIZING, READY or DISABLED; `ilock` is the init mutex's holder; `mounts` counts mounts.

| step | action |
|---|---|
| getattr, cache READY | `DGetattrReady`: the engine's `GaStart` |
| getattr, cache DISABLED | `DGetattrDisabled`: one backend stat, no cache access (spec 7.4) |
| getattr, cache undecided | `DGetattrInit` (unlocked read of the state) → `InitLock` (take the mutex; re-read: only a caller that still finds UNINIT initialises) → `InitRun` (`cache_meta_init`: a context → READY, or NULL from any of its six failure paths → DISABLED) → `InitUnlock` → `GaBegin` (the engine's lookup, or pass-through) |
| create, unlink, write | the engine's backend step, then `MutInvalidate` if READY, else `MutSkip` (no store to invalidate) |
| readdir | the engine's, only when READY |
| remount | `Remount`, between calls: `cache_meta_destroy` closes the environment, whose files in `/tmp` stay; the new daemon starts UNINIT with a fresh mutex and the records the last mount committed |

`InitSpec` has no fairness: its run checks a safety property. `MCLazyInit.tla` gives the view `InitView` (as `CohView`, with the init variables).

**The remount path to a stale ENOENT.** With one caller, no failures and two mounts, TLC's shortest violation of NoENOENTAfterCreate is sequential. A getattr of a missing file stores a NEGATIVE record. The mount is remounted, and a create runs before any getattr, so the cache is still UNINIT and there is nothing to invalidate. The next getattr initialises, and `mdb_env_open` reopens the old database. The lookup then returns the still-valid NEGATIVE record, and the getattr answers ENOENT for the created file. The run `init_remount` shows it.

### `CacheFS.tla` — the dispatcher's read and write (spec_modelled)

**Read.**
- `StartRead` computes the block span and records the backend bytes already committed.
- Per block (`ReadCheck`): `cache_block_exists`, then on a hit `cache_block_read` (`ReadCached`). A failed read falls back to the backend.
- On a miss: a backend pread of the whole block (`ReadFetch`), then `cache_block_write` of it (`ReadStore`), two calls between which a write's pwrite and invalidation may run; then the slice is served from the fetched buffer (`ReadFill`).
- Reader and writer threads are the constants `Readers` and `Writers`, so a configuration can race two readers, or a reader and a writer.

**Write.** `StartWrite` does the backend pwrite and starts `cache_block_invalidate_range` over the written bytes. `WriteDone` marks the write complete.

**Data.** Backend bytes are stamps: the number of the last pwrite that covered them. `committed` records what completed writes put there. Every block-store call is BlockStore's own action, step by step.

## 3. Runs

| run | threads, bounds | checks | result |
|---|---|---|---|
| `bs_seq` (MCBlockStore.cfg) | 1 thread, 1 path, 2 blocks of 2 bytes, max 3 bytes, clock 0..1, no I/O failures, weak fairness per thread | CounterCoversDisk, BlockCacheRefined | pass (≈126k states, about 2.5 min): BlockStore implements cache_block.h, every call returns, the counter covers the disk |
| `bs_conc` (MCBlockStoreConc.cfg) | 2 threads, 1 block, max 1 byte, counter mod 4, failing open and short writes | NoForeignBytes, InvalidationRemoves | pass (≈1.1M states) |
| `bs_race` (MCBlockStoreRace.cfg) | 2 threads | CounterCoversDisk | violated: lost update on the unlocked counter (spec 5 says mutex) |
| `cfs_seq` (MCCacheFS.cfg) | 1 thread, a 3-byte file over 2 blocks, budget of 2 bytes (eviction on every fill of a second block), 2 writes | CFSTypeOK, NoStaleRead | pass (≈325k states) |
| `cfs_fillrace` (MCCacheFSFillRace.cfg) | reader t1, writer t2 | NoStaleRead | violated: the reader fetches a block, the writer pwrites it and invalidates (nothing is cached yet), the reader's `cache_block_write` stores the old bytes, and a read after the write returned hits them (P3) |
| `cfs_torn` (MCCacheFSTorn.cfg) | readers t1 and t2, no writer | ReadNotShort | violated: one reader's fill has opened the block file with `O_TRUNC` and not yet written it; the other's `cache_block_exists` succeeds and its read returns too few bytes (spec 5 asks for write-temp+rename) |
| `ms_seq` (MCMetaStore.cfg) | 1 thread, 1 path, 2 names, 2 stat versions, 2 mtimes, TTLs 1, clock 0..2, failing inserts | LookupCurrent, DirLookupCurrent | pass (≈190k states) |
| `ms_race` (MCMetaStoreRace.cfg) | 2 threads, 2 paths, lookup + store | MetaLookupSound | violated: a lookup returns an all-NULL record or another path's valid row (shared `select_meta_stmt`) |
| `ms_dirrace` (MCMetaStoreDirRace.cfg) | 2 threads, dir lookup + store | DirLookupSafe | violated: a store between the count and the read query gives a partial listing with NULL slots (spec 4.2 put_dir atomic); another lookup's reset between a step and its column read makes `strdup(NULL)` crash |
| `ms_rollback` (MCMetaStoreRollback.cfg) | t1 stores attributes, t2 stores listings, failing inserts | StoreDurable | violated: t2's ROLLBACK undoes t1's acknowledged store |
| `coh_negrace` (MCCoherenceNeg.cfg) | engine over LMDB; 2 threads, 1 path, 2 writes, 2 inodes, meta_ttl 3, clock 0..2, no failures | NoENOENTAfterCreate | violated: a getattr's put_negative commits after a create's invalidate_attr, and a later getattr answers ENOENT for the created file (P4, S3) |
| `init_remount` (MCLazyInit.cfg) | LazyInit; 1 thread making getattr and mutations, 1 path, 1 inode, clock 0..1, 2 mounts, no failures | NoENOENTAfterCreate | violated: a negative record of the first mount survives the remount, a create before the new mount initialises invalidates nothing, and the next getattr answers ENOENT (P4) |

**Why these bounds are enough.**
- Two blocks of two bytes give full and short blocks, reads at both offsets, and ranges that straddle a boundary or end exactly on one.
- A budget below two blocks makes every second fill evict.
- Two threads are enough for every race above.
- One version per buffer is enough: buffers of every length from 1 to the block size tell an overwrite from the original, which is what the `O_TRUNC` mutant needs.
- For the engine, one path is enough for every race of a getattr with a mutation of the same path (distinct paths share nothing in the LMDB build but the writer lock); two paths exceed 5.6M distinct states. Two writes and two inodes tell a stale record from a fresh one and a recreated file from the original.
- For the metadata store, TTLs of 1 with a clock up to 2 reach lookups before, at and after `valid_until`. Two entry names give a listing of two rows, so a store can land between them. Two versions and two mtimes tell an overwrite from the original.

**Mutants.** Each property of a passing run is shown to catch a plausible bug of the code it is about:

| mutant | caught by |
|---|---|
| `O_TRUNC` dropped | BlockCacheRefined |
| `block_size` subtracted instead of `st_size` | CounterCoversDisk |
| exclusive end block | InvalidationRemoves |
| `O_APPEND` write | NoForeignBytes |
| backend pread not clamped to a block | CFSTypeOK |
| first invalidated block rounded up | NoStaleRead |
| invalidate_range's unlink loop stuck on an absent block | BlockCacheRefined (the call never returns) |
| `INSERT OR IGNORE` instead of `INSERT OR REPLACE` into `metadata` | LookupCurrent |
| `cache_dir_store` without deleting the old entries | DirLookupCurrent |

**Fairness and deadlock.** One run checks liveness: `bs_seq`, through BlockCacheRefined, under weak fairness of each thread's steps, justified above: no block-store call waits on anything. Every run checks deadlock. Nothing blocks, because every call returns, and the clock and write counts are bounded by `MaxTime` and `MaxWrites`.

**Block-store counter leak not kept as a run.** `cache_block_write` opens with `O_TRUNC` and adds the bytes it wrote to `current_cache_size`, without subtracting the size of the block it replaced (part_005:414). CounterTracksDisk (BlockStore) fails in one thread on the first overwrite. A unit test reaches this bug, so it is recorded as a hazard; `bs_seq` checks the weaker CounterCoversDisk.

**Metadata-store divergence not kept as a run.** The SQLite `cache_meta_store_negative` (line 269) sets `valid_until = now + meta_ttl`, where spec 4.2 gives negative entries their own TTL (2 s; the LMDB build uses +2). It is recorded as a hazard.

**Block-store divergences not kept as runs.** Two more disagreements are visible with small changes to these configurations, and are recorded as hazards:
- a `Hash` that maps two paths to one value makes NoForeignBytes fail: a read returns the other path's bytes, while spec 2 says collisions are harmless;
- `IOFailures` with one thread makes BlockCacheRefined fail: a failed write's partial file is served (spec 7.5).

**A spec inconsistency found while modelling.** Scenario S5 says blocks 1 and 2 remain after eviction. The 0.9 × 8192 = 7372 target of spec 4.3 leaves only block 2. The model follows the code (`evict_lru_blocks` loops while counter − evicted > target).

## 4. Not modelled yet, and the plan

1. **An abstract metadata map** that both builds refine. The LMDB build should refine it. The SQLite build fails to refine it under concurrency (the runs above).
2. **Coherence, rest** — `check_and_invalidate` and `validate_dir` once a caller exists, open and rename, the block invalidations of unlink and of a stale revalidation (the composition with BlockStore), and the engine over the SQLite build with its directory cache against the parent mtime (S4).
3. **LazyInit, rest** — READY → DISABLED on a structural store failure found mid-mount (spec 7.4, S6). Neither the code nor the spec says which store errors are structural: every LMDB error returns -1, and the engine treats each as "log and continue". The read path's trigger of the initialisation is not modelled either.
4. **More liveness** — an invalidated block is eventually refetched, and an eviction pass terminates.

Left out on purpose:
- logging and formatting;
- `create_block_dir`'s mkdir chain (it always ends in an existing directory);
- `malloc`/`calloc` failures;
- SQLite's `SQLITE_BUSY` from other processes (one daemon owns the cache root);
- the directory entry type column, which no caller property reads;
- the packaging scripts and formulae, which have no state to check.
