----------------------------- MODULE Coherence ------------------------------
(***************************************************************************)
(* The coherence engine of spec 4.4 over the LMDB metadata store: the     *)
(* attribute query and the cache side of create, unlink and write.  Only  *)
(* the header cache_coherency.h is in the repository, so the engine is    *)
(* modelled from the spec; every metadata call it makes is MetaStoreLMDB's *)
(* own action, step by step, and a thread waits for it to return          *)
(* (mpc[t] = "idle") before its next engine step.                         *)
(*                                                                         *)
(* The backend holds for each path whether it exists, its (mtime, size)   *)
(* as a version number, and its inode.  The record the engine stores is   *)
(* the version tagged with its path; the inode is never stored.           *)
(***************************************************************************)
EXTENDS MetaStoreLMDB

CONSTANTS
    MaxVer,     \* bound of the writes to one path
    MaxInode    \* bound of the inode numbers creates hand out

ENOENT == "ENOENT"
OK == "OK"

VARIABLES
    bex,        \* bex[p]: p exists on the backend
    bver,       \* bver[p]: its (mtime, size)
    bino,       \* bino[p]: its inode
    nextIno,    \* the next inode number a create hands out
    cpc,        \* cpc[t]: thread t's engine program point
    cl,         \* cl[t]: its engine locals and result
    settled     \* ghost: p exists and every mutation of p has returned

backVars == <<bex, bver, bino, nextIno>>
cohVars == <<backVars, cpc, cl, settled>>
vars == <<msVars, cohVars>>

\* must: the call began after a mutation of p returned and p was not
\* mutated since.
NoCall == [op |-> "none", p |-> NoPath, res |-> OK, ver |-> 0, ino |-> 0,
           must |-> FALSE]

Done(t) == cpc' = [cpc EXCEPT ![t] = "idle"]
GoC(t, pc) == cpc' = [cpc EXCEPT ![t] = pc]

MutPCs == {"mut_inv", "mut_dir"}

-----------------------------------------------------------------------------
(* Attribute query (spec 4.4)                                             *)

\* The locals of a getattr of p that begins now.
GaCall(p) == [NoCall EXCEPT !.op = "getattr", !.p = p,
                            !.must = settled[p]]

\* 1. Ask the metadata store for the record.
GaStart(t, p) ==
    /\ cpc[t] = "idle"
    /\ LmLookup(t, p)
    /\ GoC(t, "ga_lookup")
    /\ cl' = [cl EXCEPT ![t] = GaCall(p)]
    /\ UNCHANGED <<backVars, settled>>

Hit(l, type) == l.ok /\ l.valid /\ l.row.type = type

\* 4. A valid NEGATIVE record: ENOENT without touching the backend.
GaNegHit(t) ==
    /\ cpc[t] = "ga_lookup" /\ mpc[t] = "idle" /\ Hit(ml[t], NEG)
    /\ cl' = [cl EXCEPT ![t].res = ENOENT]
    /\ Done(t)
    /\ UNCHANGED <<msVars, backVars, settled>>

\* cache_coherency_validate_meta: false when the stat failed (no stat to
\* compare), otherwise the cached (mtime, size) equal the stat's.
ValidateMeta(r, p) == bex[p] /\ bver[p] = r.val[2]

\* 3. A valid record: a lightweight stat for the live inode and the current
\* (mtime, size).  On a match the cached attributes are returned with the
\* live inode; otherwise the record is invalidated and the fresh one put
\* (ENOENT from this stat is handled as in 2).
GaRevalidate(t) ==
    /\ cpc[t] = "ga_lookup" /\ mpc[t] = "idle" /\ Hit(ml[t], FILE)
    /\ LET p == cl[t].p IN
       IF ValidateMeta(ml[t].row, p)
       THEN /\ cl' = [cl EXCEPT ![t].ver = ml[t].row.val[2], ![t].ino = bino[p]]
            /\ Done(t)
       ELSE /\ cl' = [cl EXCEPT ![t].res = IF bex[p] THEN OK ELSE ENOENT,
                                ![t].ver = bver[p], ![t].ino = bino[p]]
            /\ GoC(t, "ga_inv")
    /\ UNCHANGED <<msVars, backVars, settled>>

\* 2. A miss or an expired record: backend stat.
GaStat(t) ==
    /\ cpc[t] = "ga_lookup" /\ mpc[t] = "idle"
    /\ ~Hit(ml[t], NEG) /\ ~Hit(ml[t], FILE)
    /\ LET p == cl[t].p IN
       cl' = [cl EXCEPT ![t].res = IF bex[p] THEN OK ELSE ENOENT,
                        ![t].ver = bver[p], ![t].ino = bino[p]]
    /\ GoC(t, "ga_put")
    /\ UNCHANGED <<msVars, backVars, settled>>

\* 3, mismatch: invalidate_attr(path).
GaInvalidate(t) ==
    /\ cpc[t] = "ga_inv"
    /\ LmInvalidate(t, cl[t].p)
    /\ GoC(t, "ga_put")
    /\ UNCHANGED <<backVars, cl, settled>>

\* Store the fresh record with the attribute TTL, or put_negative on
\* ENOENT; the store's result is not checked (log and continue).
GaPut(t) ==
    /\ cpc[t] = "ga_put" /\ mpc[t] = "idle"
    /\ LET p == cl[t].p IN
       IF cl[t].res = ENOENT THEN LmStoreNegative(t, p)
                             ELSE LmStore(t, p, <<p, cl[t].ver>>)
    /\ GoC(t, "ga_done")
    /\ UNCHANGED <<backVars, cl, settled>>

\* Return the fresh attributes with the live inode, or ENOENT.
GaDone(t) ==
    /\ cpc[t] = "ga_done" /\ mpc[t] = "idle"
    /\ Done(t)
    /\ UNCHANGED <<msVars, backVars, cl, settled>>

-----------------------------------------------------------------------------
(* Mutations: backend first, then invalidate_attr(path), then for create  *)
(* and unlink invalidate_dir(parent).  The block invalidation of unlink    *)
(* belongs to the block store and is not a step here.                     *)

\* Every getattr of p in progress sees p's new backend state and loses its
\* guarantee; thread t starts mutation op of p.
Mutation(t, p, op, ex, ver, ino) ==
    /\ cpc[t] = "idle"
    /\ bex' = [bex EXCEPT ![p] = ex]
    /\ bver' = [bver EXCEPT ![p] = ver]
    /\ bino' = [bino EXCEPT ![p] = ino]
    /\ GoC(t, "mut_inv")
    /\ settled' = [settled EXCEPT ![p] = FALSE]
    /\ cl' = [[u \in Threads |->
                 IF cpc[u] # "idle" /\ cl[u].op = "getattr" /\ cl[u].p = p
                 THEN [cl[u] EXCEPT !.must = FALSE]
                 ELSE cl[u]]
              EXCEPT ![t] = [NoCall EXCEPT !.op = op, !.p = p]]
    /\ UNCHANGED msVars

\* create / mkdir: the backend creates p with a fresh inode.
Create(t, p) ==
    /\ ~bex[p] /\ nextIno <= MaxInode
    /\ Mutation(t, p, "create", TRUE, 1, nextIno)
    /\ nextIno' = nextIno + 1

\* unlink / rmdir.
Unlink(t, p) ==
    /\ bex[p]
    /\ Mutation(t, p, "unlink", FALSE, 0, 0)
    /\ UNCHANGED nextIno

\* write: the backend pwrite changes (mtime, size).
Write(t, p) ==
    /\ bex[p] /\ bver[p] < MaxVer
    /\ Mutation(t, p, "write", TRUE, bver[p] + 1, bino[p])
    /\ UNCHANGED nextIno

\* p is settled once its mutation returns, unless another mutation of p is
\* still in progress.
Settle(t, p) ==
    settled' = [settled EXCEPT ![p] =
                   bex[p] /\ \A u \in Threads \ {t} : ~(cpc[u] \in MutPCs /\ cl[u].p = p)]

\* invalidate_attr(path) once the backend call succeeded.  A write to a
\* file that existed returns; create and unlink go on to the directory.
MutInvalidate(t) ==
    /\ cpc[t] = "mut_inv"
    /\ LmInvalidate(t, cl[t].p)
    /\ IF cl[t].op = "write"
       THEN Done(t) /\ Settle(t, cl[t].p)
       ELSE GoC(t, "mut_dir") /\ UNCHANGED settled
    /\ UNCHANGED <<backVars, cl>>

\* invalidate_dir(parent(path)): the LMDB stub, which ignores its argument
\* (the parent directory is not a path of the model).  Its -1 is logged and
\* the mutation returns.
MutInvalidateDir(t) ==
    /\ cpc[t] = "mut_dir"
    /\ LmDirStub(t, "dir_invalidate", NoPath)
    /\ Done(t) /\ Settle(t, cl[t].p)
    /\ UNCHANGED <<backVars, cl>>

-----------------------------------------------------------------------------
(* Directory listing (spec 4.4): the backend stat of the directory, then  *)
(* lookup_dir, which misses in the LMDB build; then the backend readdir   *)
(* and put_dir, which the LMDB build also refuses.                        *)

ListStart(t) ==
    /\ cpc[t] = "idle"
    /\ LmDirStub(t, "dir_lookup", NoPath)
    /\ GoC(t, "ls_put")
    /\ cl' = [cl EXCEPT ![t] = [NoCall EXCEPT !.op = "readdir"]]
    /\ UNCHANGED <<backVars, settled>>

ListPut(t) ==
    /\ cpc[t] = "ls_put"
    /\ LmDirStub(t, "dir_store", NoPath)
    /\ Done(t)
    /\ UNCHANGED <<backVars, cl, settled>>

-----------------------------------------------------------------------------
\* Mount time: an empty backend, an empty metadata store, no call running.
CohInit ==
    /\ Init
    /\ bex = [p \in Paths |-> FALSE]
    /\ bver = [p \in Paths |-> 0]
    /\ bino = [p \in Paths |-> 0]
    /\ nextIno = 1
    /\ cpc = [t \in Threads |-> "idle"]
    /\ cl = [t \in Threads |-> NoCall]
    /\ settled = [p \in Paths |-> FALSE]

\* Engine steps wait for the metadata call they started; LMDB steps of
\* that call run in between.
CohStep(t) ==
    \/ GaNegHit(t) \/ GaRevalidate(t) \/ GaStat(t) \/ GaInvalidate(t)
    \/ GaPut(t) \/ GaDone(t) \/ MutInvalidate(t) \/ MutInvalidateDir(t)
    \/ ListPut(t)
    \/ LmStep(t) /\ UNCHANGED cohVars

CohCall(t) ==
    \/ \E p \in Paths : GaStart(t, p) \/ Create(t, p) \/ Unlink(t, p) \/ Write(t, p)
    \/ ListStart(t)

CohNext ==
    \/ Tick /\ UNCHANGED cohVars
    \/ \E t \in Threads : CohCall(t) \/ CohStep(t)

CohSpec == CohInit /\ [][CohNext]_vars

-----------------------------------------------------------------------------
(* Properties                                                             *)

Answered(t, op) == cpc[t] = "idle" /\ cl[t].op = op

\* P4 and scenario S3: a getattr that begins after a create of p returned,
\* with no mutation of p since, does not return ENOENT.
NoENOENTAfterCreate ==
    \A t \in Threads : Answered(t, "getattr") /\ cl[t].must => cl[t].res # ENOENT

====
