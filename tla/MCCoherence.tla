----------------------------- MODULE MCCoherence ----------------------------
(* Instances of Coherence for TLC: FUSE threads calling getattr, create,   *)
(* unlink, write and readdir on one path over the LMDB metadata store.             *)
EXTENDS Coherence

MCThreads == {"t1", "t2"}
MCPath == {"a"}

EngineOps == [t \in Threads |-> {"lookup", "store", "negative", "invalidate",
                                  "dir_lookup", "dir_store", "dir_invalidate"}]

\* What later steps can still read.  A thread's metadata locals are read by
\* its engine only while it waits on a lookup, and its engine locals only
\* until it returns; a returned call's locals are read by the invariants
\* alone, so the view keeps, instead of them, whether the invariant holds.
\* Of the rows stores were asked to write, only those a lookup can still
\* return (in the table or a thread's metadata locals) can matter; wantMeta
\* is read by no property of these runs.
MetaLive(t) == mpc[t] # "idle" \/ cpc[t] = "ga_lookup"
Readable == {meta[q] : q \in Paths} \cup {ml[t].row : t \in Threads}
CohView ==
    <<meta, now, mpc, acked, backVars, cpc, settled,
      [t \in Threads |-> IF MetaLive(t) THEN ml[t] ELSE NoLocal],
      [t \in Threads |-> IF cpc[t] # "idle" THEN cl[t] ELSE NoCall],
      [p \in Paths |-> storedMeta[p] \cap Readable],
      NoENOENTAfterCreate>>

=============================================================================
