------------------------------ MODULE LazyInit -------------------------------
(***************************************************************************)
(* The per-mount cache initialisation of spec 4.5 around the coherence     *)
(* engine: UNINIT -> INITIALIZING -> READY or DISABLED.  The first         *)
(* attribute query takes the init mutex; under it, if the state is still   *)
(* UNINIT, it runs cache_meta_init (part_004 515-621), whose every failure *)
(* path returns NULL and leaves the mount DISABLED (spec 7.4: pass-through *)
(* for the rest of the mount).  Callers read the state without the mutex   *)
(* and take it only while the cache is not yet decided.                    *)
(*                                                                         *)
(* The dispatcher is not in the repository, so the state machine follows   *)
(* the spec; cache_meta_init and cache_meta_destroy are the code's.        *)
(* A mutation makes its backend call and then, if the cache is READY,      *)
(* invalidates; otherwise it returns (there is no store to invalidate).    *)
(* A remount closes the environment (cache_meta_destroy, 866-880) and the  *)
(* next cache_meta_init reopens /tmp/cachefs-lmdb-<hash> with the records  *)
(* the last mount committed: nothing removes them.                        *)
(***************************************************************************)
EXTENDS Coherence

CONSTANTS
    MaxMounts,  \* bound of the mounts of one behaviour
    Calls       \* Calls[t]: the FUSE operations thread t makes

NoThread == "none"

VARIABLES
    istate,     \* the mount's cache state
    ilock,      \* the holder of the init mutex, or NoThread
    mounts      \* the mounts so far

initVars == <<istate, ilock, mounts>>
allVars == <<vars, initVars>>

Decided == istate \in {"READY", "DISABLED"}

-----------------------------------------------------------------------------
(* Attribute query                                                        *)

\* The cache is READY: the engine's protocol.
DGetattrReady(t, p) ==
    /\ istate = "READY"
    /\ GaStart(t, p)
    /\ UNCHANGED initVars

\* Locals c with the answer of a backend stat of c.p, as the engine's
\* step 2 computes it.
StatInto(c) == [c EXCEPT !.res = IF bex[c.p] THEN OK ELSE ENOENT,
                         !.ver = bver[c.p], !.ino = bino[c.p]]

PassThrough(t) == cl' = [cl EXCEPT ![t] = StatInto(cl[t])] /\ Done(t)

\* DISABLED: pass-through, no cache read or write.
DGetattrDisabled(t, p) ==
    /\ cpc[t] = "idle" /\ istate = "DISABLED"
    /\ cl' = [cl EXCEPT ![t] = StatInto(GaCall(p))]
    /\ UNCHANGED <<msVars, backVars, cpc, settled, initVars>>

\* Not decided yet: wait for the init mutex.
DGetattrInit(t, p) ==
    /\ cpc[t] = "idle" /\ ~Decided
    /\ cl' = [cl EXCEPT ![t] = GaCall(p)]
    /\ GoC(t, "init_lock")
    /\ UNCHANGED <<msVars, backVars, settled, initVars>>

\* pthread_mutex_lock, then the state read again under the mutex: only
\* the caller that still finds UNINIT initialises.
InitLock(t) ==
    /\ cpc[t] = "init_lock" /\ ilock = NoThread
    /\ ilock' = t
    /\ IF istate = "UNINIT"
       THEN istate' = "INITIALIZING" /\ GoC(t, "init_run")
       ELSE UNCHANGED istate /\ GoC(t, "init_unlock")
    /\ UNCHANGED <<msVars, backVars, cl, settled, mounts>>

\* cache_meta_init: a context, or NULL from any of its failure paths
\* (mdb_env_create, mdb_env_open, mdb_txn_begin, either mdb_dbi_open,
\* mdb_txn_commit).  The databases it opens keep what they hold.
InitRun(t) ==
    /\ cpc[t] = "init_run"
    /\ \/ istate' = "READY"
       \/ IOFailures /\ istate' = "DISABLED"
    /\ GoC(t, "init_unlock")
    /\ UNCHANGED <<msVars, backVars, cl, settled, ilock, mounts>>

InitUnlock(t) ==
    /\ cpc[t] = "init_unlock"
    /\ ilock' = NoThread
    /\ GoC(t, "ga_begin")
    /\ UNCHANGED <<msVars, backVars, cl, settled, istate, mounts>>

\* The query goes on by the state init left.
GaBegin(t) ==
    /\ cpc[t] = "ga_begin"
    /\ \/ istate = "READY" /\ LmLookup(t, cl[t].p) /\ GoC(t, "ga_lookup")
                           /\ UNCHANGED cl
       \/ istate = "DISABLED" /\ PassThrough(t) /\ UNCHANGED msVars
    /\ UNCHANGED <<backVars, settled, initVars>>

-----------------------------------------------------------------------------
(* Mutations and listings                                                 *)

\* After the backend call: invalidate if the cache is READY (then the
\* engine's steps), otherwise return.
MutSkip(t) ==
    /\ cpc[t] = "mut_inv" /\ istate # "READY"
    /\ Done(t) /\ Settle(t, cl[t].p)
    /\ UNCHANGED <<msVars, backVars, cl, initVars>>

\* Unmount and mount again, between calls: cache_meta_destroy closes the
\* environment and leaves its files; the new daemon starts UNINIT with a
\* fresh mutex.
Remount ==
    /\ \A t \in Threads : cpc[t] = "idle" /\ mpc[t] = "idle"
    /\ mounts < MaxMounts
    /\ istate' = "UNINIT" /\ ilock' = NoThread
    /\ mounts' = mounts + 1
    /\ UNCHANGED vars

-----------------------------------------------------------------------------
InitInit ==
    /\ CohInit
    /\ istate = "UNINIT" /\ ilock = NoThread /\ mounts = 1

\* The steps of a call under way; each waits only for the init mutex or
\* for the metadata call it started.
InitStep(t) ==
    \/ InitLock(t) \/ InitRun(t) \/ InitUnlock(t) \/ GaBegin(t)
    \/ MutSkip(t)
    \/ /\ \/ GaNegHit(t) \/ GaRevalidate(t) \/ GaStat(t) \/ GaInvalidate(t)
          \/ GaPut(t) \/ GaDone(t) \/ MutInvalidateDir(t) \/ ListPut(t)
          \/ istate = "READY" /\ MutInvalidate(t)
          \/ LmStep(t) /\ UNCHANGED cohVars
       /\ UNCHANGED initVars

\* A new call: a getattr by the state, a mutation (its backend call), or
\* a listing, which reaches the store only when READY (otherwise it is a
\* backend readdir that changes nothing here).
InitCall(t) ==
    \/ \E p \in Paths :
          \/ /\ "getattr" \in Calls[t]
             /\ DGetattrReady(t, p) \/ DGetattrDisabled(t, p) \/ DGetattrInit(t, p)
          \/ /\ "mutate" \in Calls[t]
             /\ Create(t, p) \/ Unlink(t, p) \/ Write(t, p)
             /\ UNCHANGED initVars
    \/ "readdir" \in Calls[t] /\ istate = "READY" /\ ListStart(t) /\ UNCHANGED initVars

InitNext ==
    \/ Tick /\ UNCHANGED <<cohVars, initVars>>
    \/ Remount
    \/ \E t \in Threads : InitCall(t) \/ InitStep(t)

\* The runs of this module check safety only: the engine's
\* NoENOENTAfterCreate across a remount.
InitSpec == InitInit /\ [][InitNext]_allVars

====
