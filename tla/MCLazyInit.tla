----------------------------- MODULE MCLazyInit -----------------------------
(* Instances of LazyInit for TLC: one FUSE thread on one path, over two    *)
(* mounts of one cache root.                                              *)
EXTENDS LazyInit

MCThreads == {"t1"}
MCPath == {"a"}

EngineOps == [t \in Threads |-> {"lookup", "store", "negative", "invalidate",
                                  "dir_lookup", "dir_store", "dir_invalidate"}]

\* One FUSE thread making attribute queries and mutations, one after the
\* other: no interleaving is needed for what the remount run shows.
MCCalls == [t \in Threads |-> IF t = "t1" THEN {"getattr", "mutate"} ELSE {}]

\* What later steps can still read, as in MCCoherence: a thread's metadata
\* locals while a call is live or its engine waits on a lookup, its engine
\* locals until it returns, the rows a lookup can still return; for the
\* locals dropped, whether the invariant holds.
MetaLive(t) == mpc[t] # "idle" \/ cpc[t] = "ga_lookup"
Readable == {meta[q] : q \in Paths} \cup {ml[t].row : t \in Threads}
InitView ==
    <<meta, now, mpc, acked, backVars, cpc, settled, initVars,
      [t \in Threads |-> IF MetaLive(t) THEN ml[t] ELSE NoLocal],
      [t \in Threads |-> IF cpc[t] # "idle" THEN cl[t] ELSE NoCall],
      [p \in Paths |-> storedMeta[p] \cap Readable],
      NoENOENTAfterCreate>>

=============================================================================
