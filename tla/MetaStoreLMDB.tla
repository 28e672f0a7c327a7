--------------------------- MODULE MetaStoreLMDB ----------------------------
(***************************************************************************)
(* The LMDB build of cache_meta.c (src/unnamed/part_004, lines 475-880). *)
(*                                                                         *)
(* Each call opens its own LMDB transaction: cache_meta_lookup a read-only *)
(* one (a snapshot), the stores and the invalidation a write transaction,  *)
(* which LMDB serialises with its writer lock.  A transaction is therefore *)
(* one step here.  The clock is read outside it: before the transaction by *)
(* the stores (696, 745), after it by the lookup (675), so those calls are *)
(* two steps and another thread may commit between them.  The directory   *)
(* functions are stubs returning -1 (814-852).                            *)
(*                                                                         *)
(* The variables are those of MetaStore; the SQLite statements, the       *)
(* directory table and the connection's transaction stay at their initial *)
(* values.  The record stored under a key is the packed                    *)
(* meta_entry_serialized_t of the row (503-513).                          *)
(***************************************************************************)
EXTENDS MetaStore

\* MDB_val key = { strlen(path), path } (639, 716, 758, 791).
Key(p) == p

lmFixed == <<dirRows, stmt, inTxn, undo, wantDir, storedDir>>

\* cache_meta_lookup: the read-only transaction (632-672).  mdb_txn_begin
\* may fail (-1); MDB_NOTFOUND returns -1; otherwise the record is copied
\* out and the transaction aborted.  Every record written has the size of
\* meta_entry_serialized_t, so the size check (655) never fails.
LmLookup(t, p) ==
    /\ Begin(t, "lookup")
    /\ LET r == meta[Key(p)]
           l == [NoLocal EXCEPT !.op = "lookup", !.p = p, !.row = r]
       IN \/ /\ r # NoRow
             /\ ml' = [ml EXCEPT ![t] = l] /\ Go(t, "lm_time")
          \/ /\ r = NoRow \/ IOFailures
             /\ Return(t, [l EXCEPT !.row = NoRow])
    /\ UNCHANGED <<meta, now, ghosts, lmFixed>>

\* time(NULL) after the transaction and the validity test (675-685).
LmValid(t) ==
    /\ mpc[t] = "lm_time"
    /\ Return(t, [ml[t] EXCEPT !.ok = TRUE, !.tnow = now, !.valid = now < ml[t].row.vu])
    /\ UNCHANGED <<meta, now, ghosts, lmFixed>>

\* The record a call will put, built from time(NULL) before its
\* transaction; storedMeta and acked are ghosts.
Prepare(t, op, p, r) ==
    /\ Begin(t, op)
    /\ ml' = [ml EXCEPT ![t] = [NoLocal EXCEPT !.op = op, !.p = p, !.row = r]]
    /\ Go(t, "lm_put")
    /\ storedMeta' = [storedMeta EXCEPT ![p] = @ \cup {r}]
    /\ acked' = [acked EXCEPT ![p] = NoRow]
    /\ UNCHANGED <<meta, now, wantMeta, lmFixed>>

\* cache_meta_store (696-707): a FILE record valid for meta_ttl seconds
\* (no path of the model is a directory).
LmStore(t, p, v) == Prepare(t, "store", p, Row(FILE, v, now, now + MetaTTL))

\* cache_meta_store_negative (745-750): valid for 2 seconds.
LmStoreNegative(t, p) == Prepare(t, "negative", p, Row(NEG, <<>>, now, now + 2))

\* The write transaction of both stores (709-736, 752-776): mdb_put and
\* commit, or -1 with nothing written when begin, put or commit fails.
LmPut(t) ==
    /\ mpc[t] = "lm_put"
    /\ LET p == ml[t].p  r == ml[t].row IN
       \/ /\ meta' = [meta EXCEPT ![Key(p)] = r]
          /\ Return(t, [ml[t] EXCEPT !.ok = TRUE])
          /\ wantMeta' = [wantMeta EXCEPT ![p] = r]
          /\ acked' = [acked EXCEPT ![p] = r]
       \/ /\ IOFailures
          /\ Return(t, ml[t])
          /\ UNCHANGED <<meta, wantMeta, acked>>
    /\ UNCHANGED <<now, storedMeta, lmFixed>>

\* cache_meta_invalidate (785-812): one write transaction; MDB_NOTFOUND
\* returns 0 like a delete; begin, del or commit failing returns -1.
LmInvalidate(t, p) ==
    /\ Begin(t, "invalidate")
    /\ acked' = [acked EXCEPT ![p] = NoRow]
    /\ \/ /\ meta' = [meta EXCEPT ![Key(p)] = NoRow]
          /\ Return(t, [NoLocal EXCEPT !.op = "invalidate", !.p = p, !.ok = TRUE])
          /\ wantMeta' = [wantMeta EXCEPT ![p] = NoRow]
       \/ /\ IOFailures
          /\ Return(t, [NoLocal EXCEPT !.op = "invalidate", !.p = p])
          /\ UNCHANGED <<meta, wantMeta>>
    /\ UNCHANGED <<now, storedMeta, lmFixed>>

\* cache_dir_lookup, cache_dir_store, cache_dir_invalidate (814-852):
\* not implemented, -1 and no effect.
LmDirStub(t, op, p) ==
    /\ Begin(t, op)
    /\ Return(t, [NoLocal EXCEPT !.op = op, !.p = p])
    /\ UNCHANGED <<meta, now, ghosts, lmFixed>>

DirOpNames == {"dir_lookup", "dir_store", "dir_invalidate"}

LmStep(t) == LmValid(t) \/ LmPut(t)

LmCall(t) ==
    \E p \in Paths :
        \/ LmLookup(t, p) \/ LmStoreNegative(t, p) \/ LmInvalidate(t, p)
        \/ \E v \in Versions : LmStore(t, p, <<p, v>>)
        \/ \E op \in DirOpNames : LmDirStub(t, op, p)

\* cache_meta_init (515-621) opens an empty environment with two empty
\* databases: the state of MetaStore's Init.
LmNext == Tick \/ \E t \in Threads : LmCall(t) \/ LmStep(t)

LmSpec == Init /\ [][LmNext]_msVars

=============================================================================
