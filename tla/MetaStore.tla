----------------------------- MODULE MetaStore ------------------------------
(***************************************************************************)
(* The SQLite build of cache_meta.c (src/unnamed/part_004, lines 1-410).  *)
(*                                                                         *)
(* One connection, opened in SQLite's default (serialized) mode, and six  *)
(* prepared statements created once by cache_meta_init and shared by     *)
(* every FUSE thread.  Serialized mode makes each API call atomic, not a *)
(* sequence of them: a thread's reset, bind, step and column calls on a   *)
(* statement are separate steps here, and another thread may use the same *)
(* statement between them.  The consecutive sqlite3_bind_* calls of one   *)
(* statement use are taken as one step.                                   *)
(*                                                                         *)
(* stmt[s] is statement s: its bound parameters (bindings survive         *)
(* sqlite3_reset), the rows of its current query and the row it is on     *)
(* (pos 0: reset; pos > Len(rows): SQLITE_DONE).  A select computes its   *)
(* rows at its first step.  BEGIN/COMMIT/ROLLBACK act on the connection,  *)
(* not on a thread: inTxn and undo are the connection's transaction.      *)
(***************************************************************************)
EXTENDS Integers, Sequences, FiniteSets, SequencesExt

CONSTANTS
    Threads,
    Paths,        \* file and directory paths
    Names,        \* directory entry names: 1..N, ordered as ORDER BY entry_name
    Versions,     \* distinct stat results of one path
    MTimes,       \* directory mtimes passed to cache_dir_store
    MetaTTL,      \* ctx->meta_ttl
    DirTTL,       \* ctx->dir_ttl
    NegTTL,       \* the negative-entry TTL of spec 4.2
    MaxTime,      \* bound of the clock time(NULL)
    IOFailures,   \* whether sqlite3_step of an insert may fail
    ThreadOps     \* ThreadOps[t]: the calls thread t makes

FILE == 1       \* CACHE_ENTRY_FILE (cache_meta.h)
NEG  == 3       \* CACHE_ENTRY_NEG
NoPath == "null"

Stmts == {"insert_meta", "select_meta", "delete_meta",
          "insert_dir", "select_dir", "delete_dir"}

\* A metadata row: type, the stat fields (a version tagged with its path),
\* cached_at and valid_until.  NoRow is the absent row and, column by
\* column, what sqlite3_column_* return without a current row.
NoRow == [type |-> 0, val |-> <<>>, at |-> 0, vu |-> 0]
Row(type, val, at, vu) == [type |-> type, val |-> val, at |-> at, vu |-> vu]

\* A dir_entries row (without dir_path); name 0 is a NULL column.
NoDirRow == [name |-> 0, m |-> 0, at |-> 0, vu |-> 0]

NoBind == [p |-> NoPath, type |-> 0, val |-> <<>>, at |-> 0, vu |-> 0,
           name |-> 0, m |-> 0]

NoListing == [names |-> {}, m |-> 0]

\* No open transaction: nothing to roll back.
NoUndo == [meta |-> "none", dir |-> "none"]

VARIABLES
    meta,       \* table metadata: meta[p] (NoRow when absent)
    dirRows,    \* table dir_entries: dirRows[d], the rows with dir_path d
    stmt,       \* the prepared statements
    inTxn,      \* the connection is inside BEGIN ... COMMIT
    undo,       \* the tables as they were at BEGIN
    now,        \* time(NULL)
    mpc, ml,    \* per thread: program point and locals
    wantMeta,   \* ghost: meta[p] as the calls that returned would leave it
    storedMeta, \* ghost: every row a store of p was asked to write
    acked,      \* ghost: the row of p's last store that returned 0
    wantDir,    \* ghost: the listing of d the returned calls would leave
    storedDir   \* ghost: every listing a dir store of d was asked to write

msVars == <<meta, dirRows, stmt, inTxn, undo, now, mpc, ml,
            wantMeta, storedMeta, acked, wantDir, storedDir>>
ghosts == <<wantMeta, storedMeta, acked, wantDir, storedDir>>

NoLocal == [op |-> "none", p |-> NoPath, row |-> NoRow, ok |-> FALSE,
            valid |-> FALSE, tnow |-> 0, names |-> <<>>, m |-> 0, cnt |-> 0,
            i |-> 0, got |-> <<>>, fvu |-> 0]

-----------------------------------------------------------------------------
(* SQLite statements                                                      *)

\* The rows a select finds for its bound parameters.
Query(s, b) ==
    IF b.p \notin Paths THEN <<>>
    ELSE IF s = "select_meta"
         THEN IF meta[b.p].type = 0 THEN <<>> ELSE <<meta[b.p]>>
         ELSE SetToSortSeq(dirRows[b.p], LAMBDA x, y : x.name < y.name)

\* sqlite3_reset: the statement returns to its start; bindings are kept.
Reset(s) == stmt' = [stmt EXCEPT ![s].pos = 0]

\* sqlite3_bind_*: the statement's parameters.
Bind(s, b) == stmt' = [stmt EXCEPT ![s].bind = b]

\* sqlite3_step of a select: runs the query on the first step (and after
\* SQLITE_DONE, which resets automatically), else moves to the next row.
StepSelect(s) ==
    LET st == stmt[s] IN
    stmt' = [stmt EXCEPT ![s] =
                IF st.pos = 0 \/ st.pos > Len(st.rows)
                THEN [st EXCEPT !.rows = Query(s, st.bind), !.pos = 1]
                ELSE [st EXCEPT !.pos = st.pos + 1]]

\* Whether statement state st is on a row (sqlite3_step returned SQLITE_ROW).
OnRow(st) == st.pos \in 1..Len(st.rows)

\* sqlite3_column_* of statement state st: the current row, or NULLs.
Column(st, null) == IF OnRow(st) THEN st.rows[st.pos] ELSE null

\* Mutant: "INSERT OR IGNORE", an existing row is kept.
InsertMetaIgnore(b) ==
    IF meta[b.p].type = 0 THEN [meta EXCEPT ![b.p] = Row(b.type, b.val, b.at, b.vu)]
    ELSE meta

\* "INSERT OR REPLACE INTO metadata VALUES (?, ...)"
InsertMeta(b) ==
    [meta EXCEPT ![b.p] = Row(b.type, b.val, b.at, b.vu)]

\* "DELETE FROM metadata WHERE path = ?"
DeleteMeta(b) == [meta EXCEPT ![b.p] = NoRow]

\* "INSERT OR REPLACE INTO dir_entries VALUES (?, ...)": the key is
\* (dir_path, entry_name).
InsertDir(b) ==
    [dirRows EXCEPT ![b.p] = {r \in @ : r.name # b.name} \cup
                             {[name |-> b.name, m |-> b.m, at |-> b.at, vu |-> b.vu]}]

\* "DELETE FROM dir_entries WHERE dir_path = ?"
DeleteDir(b) == [dirRows EXCEPT ![b.p] = {}]

-----------------------------------------------------------------------------
(* Thread steps                                                           *)

Go(t, pc) == mpc' = [mpc EXCEPT ![t] = pc]

\* Return from the call with its results in the locals.
Return(t, l) == /\ mpc' = [mpc EXCEPT ![t] = "idle"]
                /\ ml' = [ml EXCEPT ![t] = l]

\* Thread t is free to start call op.
Begin(t, op) == mpc[t] = "idle" /\ op \in ThreadOps[t]

Locals(t, op, p) == ml' = [ml EXCEPT ![t] = [NoLocal EXCEPT !.op = op, !.p = p]]

\* cache_meta_lookup: reset (191).
CallLookup(t, p) ==
    /\ Begin(t, "lookup") /\ Locals(t, "lookup", p)
    /\ Reset("select_meta") /\ Go(t, "lk_bind")
    /\ UNCHANGED <<meta, dirRows, inTxn, undo, now, ghosts>>

\* bind path (192).
LkBind(t) ==
    /\ mpc[t] = "lk_bind"
    /\ Bind("select_meta", [NoBind EXCEPT !.p = ml[t].p]) /\ Go(t, "lk_step")
    /\ UNCHANGED <<meta, dirRows, inTxn, undo, now, ml, ghosts>>

\* step (194-197): not found returns -1.
LkStep(t) ==
    /\ mpc[t] = "lk_step"
    /\ StepSelect("select_meta")
    /\ IF OnRow(stmt'["select_meta"])
       THEN Go(t, "lk_col") /\ UNCHANGED ml
       ELSE Return(t, ml[t])
    /\ UNCHANGED <<meta, dirRows, inTxn, undo, now, ghosts>>

\* Columns 1-10 and the validity test (199-215).
LkCol(t) ==
    /\ mpc[t] = "lk_col"
    /\ LET r == Column(stmt["select_meta"], NoRow)
       IN Return(t, [ml[t] EXCEPT !.ok = TRUE, !.row = r, !.tnow = now,
                                  !.valid = now < r.vu])
    /\ UNCHANGED <<meta, dirRows, stmt, inTxn, undo, now, ghosts>>

\* cache_meta_store and cache_meta_store_negative: time(NULL), reset
\* (226-228, 256-258).  The row they mean to write is kept in the locals.
CallStore(t, p, v) ==
    /\ Begin(t, "store")
    /\ ml' = [ml EXCEPT ![t] = [NoLocal EXCEPT !.op = "store", !.p = p,
                                   !.row = Row(FILE, v, now, now + MetaTTL)]]
    /\ Reset("insert_meta") /\ Go(t, "st_bind")
    /\ storedMeta' = [storedMeta EXCEPT ![p] = @ \cup {ml'[t].row}]
    /\ acked' = [acked EXCEPT ![p] = NoRow]
    /\ UNCHANGED <<meta, dirRows, inTxn, undo, now, wantMeta, wantDir, storedDir>>

CallStoreNegative(t, p) ==
    /\ Begin(t, "negative")
    /\ ml' = [ml EXCEPT ![t] = [NoLocal EXCEPT !.op = "negative", !.p = p,
                                   !.row = Row(NEG, <<>>, now, now + MetaTTL)]]
    /\ Reset("insert_meta") /\ Go(t, "st_bind")
    /\ storedMeta' = [storedMeta EXCEPT ![p] = @ \cup {ml'[t].row}]
    /\ acked' = [acked EXCEPT ![p] = NoRow]
    /\ UNCHANGED <<meta, dirRows, inTxn, undo, now, wantMeta, wantDir, storedDir>>

\* The eleven binds (229-239, 259-269).
StBind(t) ==
    /\ mpc[t] = "st_bind"
    /\ LET r == ml[t].row
       IN Bind("insert_meta", [NoBind EXCEPT !.p = ml[t].p, !.type = r.type,
                                   !.val = r.val, !.at = r.at, !.vu = r.vu])
    /\ Go(t, "st_step")
    /\ UNCHANGED <<meta, dirRows, inTxn, undo, now, ml, ghosts>>

\* step (241-247, 271-276): inserts what is bound now; -1 when it fails.
StStep(t) ==
    /\ mpc[t] = "st_step"
    /\ LET p == ml[t].p  r == ml[t].row IN
       \/ /\ meta' = InsertMeta(stmt["insert_meta"].bind)
          /\ Return(t, [ml[t] EXCEPT !.ok = TRUE])
          /\ wantMeta' = [wantMeta EXCEPT ![p] = r]
          /\ acked' = [acked EXCEPT ![p] = r]
       \/ /\ IOFailures
          /\ Return(t, ml[t])
          /\ UNCHANGED <<meta, wantMeta, acked>>
    /\ UNCHANGED <<dirRows, stmt, inTxn, undo, now, storedMeta, wantDir, storedDir>>

\* cache_meta_invalidate: reset (285).
CallInvalidate(t, p) ==
    /\ Begin(t, "invalidate") /\ Locals(t, "invalidate", p)
    /\ Reset("delete_meta") /\ Go(t, "mi_bind")
    /\ acked' = [acked EXCEPT ![p] = NoRow]
    /\ UNCHANGED <<meta, dirRows, inTxn, undo, now, wantMeta, storedMeta,
                   wantDir, storedDir>>

\* bind (286).
MiBind(t) ==
    /\ mpc[t] = "mi_bind"
    /\ Bind("delete_meta", [NoBind EXCEPT !.p = ml[t].p]) /\ Go(t, "mi_step")
    /\ UNCHANGED <<meta, dirRows, inTxn, undo, now, ml, ghosts>>

\* step (287-289); the result is not checked and the call returns 0.
MiStep(t) ==
    /\ mpc[t] = "mi_step"
    /\ meta' = DeleteMeta(stmt["delete_meta"].bind)
    /\ Return(t, [ml[t] EXCEPT !.ok = TRUE])
    /\ wantMeta' = [wantMeta EXCEPT ![ml[t].p] = NoRow]
    /\ UNCHANGED <<dirRows, stmt, inTxn, undo, now, storedMeta, acked,
                   wantDir, storedDir>>

\* cache_dir_store: BEGIN TRANSACTION (364), which fails and is ignored when
\* the connection is already in one; then reset of the delete (367).
CallDirStore(t, d, L, m) ==
    /\ Begin(t, "dir_store")
    /\ ml' = [ml EXCEPT ![t] = [NoLocal EXCEPT !.op = "dir_store", !.p = d,
                 !.names = SetToSortSeq(L, LAMBDA x, y : x < y), !.m = m]]
    /\ IF inTxn THEN UNCHANGED <<inTxn, undo>>
       ELSE inTxn' = TRUE /\ undo' = [meta |-> meta, dir |-> dirRows]
    /\ Reset("delete_dir") /\ Go(t, "ds_bind")
    /\ storedDir' = [storedDir EXCEPT ![d] = @ \cup {[names |-> L, m |-> m]}]
    /\ UNCHANGED <<meta, dirRows, now, wantMeta, storedMeta, acked, wantDir>>

\* bind (368).
DsBind(t) ==
    /\ mpc[t] = "ds_bind"
    /\ Bind("delete_dir", [NoBind EXCEPT !.p = ml[t].p]) /\ Go(t, "ds_del")
    /\ UNCHANGED <<meta, dirRows, inTxn, undo, now, ml, ghosts>>

\* Mutant: the old entries are not deleted.
DsDelKeep(t) ==
    /\ mpc[t] = "ds_del"
    /\ ml' = [ml EXCEPT ![t].fvu = now, ![t].i = 1]
    /\ Go(t, IF ml[t].names = <<>> THEN "ds_commit" ELSE "ds_ireset")
    /\ UNCHANGED <<meta, dirRows, stmt, inTxn, undo, now, ghosts>>

\* step of the delete, then time(NULL) (369-373); an empty listing goes
\* straight to COMMIT.
DsDel(t) ==
    /\ mpc[t] = "ds_del"
    /\ dirRows' = DeleteDir(stmt["delete_dir"].bind)
    /\ ml' = [ml EXCEPT ![t].fvu = now, ![t].i = 1]
    /\ Go(t, IF ml[t].names = <<>> THEN "ds_commit" ELSE "ds_ireset")
    /\ UNCHANGED <<meta, stmt, inTxn, undo, now, ghosts>>

\* reset of the insert for entry i (376).
DsIReset(t) ==
    /\ mpc[t] = "ds_ireset"
    /\ Reset("insert_dir") /\ Go(t, "ds_ibind")
    /\ UNCHANGED <<meta, dirRows, inTxn, undo, now, ml, ghosts>>

\* the six binds (377-382); fvu holds the now read at 372.
DsIBind(t) ==
    /\ mpc[t] = "ds_ibind"
    /\ LET l == ml[t] IN
       Bind("insert_dir", [NoBind EXCEPT !.p = l.p, !.name = l.names[l.i],
                              !.m = l.m, !.at = l.fvu, !.vu = l.fvu + DirTTL])
    /\ Go(t, "ds_ins")
    /\ UNCHANGED <<meta, dirRows, inTxn, undo, now, ml, ghosts>>

\* step (384-390): on failure ROLLBACK, which restores the tables of the
\* connection's transaction if one is open, and return -1.
DsIns(t) ==
    /\ mpc[t] = "ds_ins"
    /\ \/ /\ dirRows' = InsertDir(stmt["insert_dir"].bind)
          /\ ml' = [ml EXCEPT ![t].i = @ + 1]
          /\ Go(t, IF ml[t].i < Len(ml[t].names) THEN "ds_ireset" ELSE "ds_commit")
          /\ UNCHANGED <<meta, inTxn, undo>>
       \/ /\ IOFailures
          /\ IF inTxn THEN meta' = undo.meta /\ dirRows' = undo.dir
                      ELSE UNCHANGED <<meta, dirRows>>
          /\ inTxn' = FALSE /\ undo' = NoUndo
          /\ Return(t, ml[t])
    /\ UNCHANGED <<stmt, now, ghosts>>

\* COMMIT (393), which ends whatever transaction the connection is in.
DsCommit(t) ==
    /\ mpc[t] = "ds_commit"
    /\ inTxn' = FALSE /\ undo' = NoUndo
    /\ Return(t, [ml[t] EXCEPT !.ok = TRUE])
    /\ wantDir' = [wantDir EXCEPT ![ml[t].p] =
                      [names |-> ToSet(ml[t].names), m |-> ml[t].m]]
    /\ UNCHANGED <<meta, dirRows, stmt, now, wantMeta, storedMeta,
                   acked, storedDir>>

\* cache_dir_lookup: reset (304), later reset again (324).
CallDirLookup(t, d) ==
    /\ Begin(t, "dir_lookup") /\ Locals(t, "dir_lookup", d)
    /\ Reset("select_dir") /\ Go(t, "dl_bind")
    /\ UNCHANGED <<meta, dirRows, inTxn, undo, now, ghosts>>

DlReset(t) ==
    /\ mpc[t] = "dl_reset"
    /\ Reset("select_dir") /\ Go(t, "dl_bind")
    /\ UNCHANGED <<meta, dirRows, inTxn, undo, now, ml, ghosts>>

\* bind (305, 325).
DlBind(t) ==
    /\ mpc[t] = "dl_bind"
    /\ Bind("select_dir", [NoBind EXCEPT !.p = ml[t].p])
    /\ Go(t, IF ml[t].cnt = 0 THEN "dl_count" ELSE "dl_read")
    /\ UNCHANGED <<meta, dirRows, inTxn, undo, now, ml, ghosts>>

\* the counting loop (308-315): no row at all returns -1.
DlCount(t) ==
    /\ mpc[t] = "dl_count"
    /\ StepSelect("select_dir")
    /\ IF OnRow(stmt'["select_dir"])
       THEN ml' = [ml EXCEPT ![t].cnt = @ + 1] /\ UNCHANGED mpc
       ELSE IF ml[t].cnt = 0 THEN Return(t, ml[t])
            ELSE Go(t, "dl_reset") /\ UNCHANGED ml
    /\ UNCHANGED <<meta, dirRows, inTxn, undo, now, ghosts>>

\* the step of the reading loop (330); the loop ends at the first step that
\* is not a row or once entry_count rows are read, and the call returns
\* entry_count entries, the first row's mtime and its validity (342-352).
DlRead(t) ==
    /\ mpc[t] = "dl_read"
    /\ StepSelect("select_dir")
    /\ IF OnRow(stmt'["select_dir"]) /\ ml[t].i < ml[t].cnt
       THEN Go(t, "dl_col") /\ UNCHANGED ml
       ELSE Return(t, [ml[t] EXCEPT !.ok = TRUE, !.tnow = now,
                                    !.valid = now < ml[t].fvu])
    /\ UNCHANGED <<meta, dirRows, inTxn, undo, now, ghosts>>

\* the column reads of the loop body (331-339).  strdup of a NULL name
\* (no current row) crashes the process: the thread stops at "segv".
DlCol(t) ==
    /\ mpc[t] = "dl_col"
    /\ LET r == Column(stmt["select_dir"], NoDirRow)  l == ml[t] IN
       IF r.name = 0 THEN Go(t, "segv") /\ UNCHANGED ml
       ELSE /\ ml' = [ml EXCEPT ![t].got = Append(l.got, r.name), ![t].i = l.i + 1,
                                ![t].m = IF l.i = 0 THEN r.m ELSE l.m,
                                ![t].fvu = IF l.i = 0 THEN r.vu ELSE l.fvu]
            /\ Go(t, "dl_read")
    /\ UNCHANGED <<meta, dirRows, stmt, inTxn, undo, now, ghosts>>

\* cache_dir_invalidate: reset, bind, step (404-408).
CallDirInvalidate(t, d) ==
    /\ Begin(t, "dir_invalidate") /\ Locals(t, "dir_invalidate", d)
    /\ Reset("delete_dir") /\ Go(t, "di_bind")
    /\ UNCHANGED <<meta, dirRows, inTxn, undo, now, ghosts>>

DiBind(t) ==
    /\ mpc[t] = "di_bind"
    /\ Bind("delete_dir", [NoBind EXCEPT !.p = ml[t].p]) /\ Go(t, "di_step")
    /\ UNCHANGED <<meta, dirRows, inTxn, undo, now, ml, ghosts>>

DiStep(t) ==
    /\ mpc[t] = "di_step"
    /\ dirRows' = DeleteDir(stmt["delete_dir"].bind)
    /\ Return(t, [ml[t] EXCEPT !.ok = TRUE])
    /\ wantDir' = [wantDir EXCEPT ![ml[t].p] = NoListing]
    /\ UNCHANGED <<meta, stmt, inTxn, undo, now, wantMeta, storedMeta, acked,
                   storedDir>>

\* time(NULL) advances.
Tick == /\ now < MaxTime /\ now' = now + 1
        /\ UNCHANGED <<meta, dirRows, stmt, inTxn, undo, mpc, ml, ghosts>>

-----------------------------------------------------------------------------
\* cache_meta_init on a new cache root: empty tables, fresh statements.
Init ==
    /\ meta = [p \in Paths |-> NoRow]
    /\ dirRows = [d \in Paths |-> {}]
    /\ stmt = [s \in Stmts |-> [bind |-> NoBind, rows |-> <<>>, pos |-> 0]]
    /\ inTxn = FALSE
    /\ undo = NoUndo
    /\ now = 0
    /\ mpc = [t \in Threads |-> "idle"]
    /\ ml = [t \in Threads |-> NoLocal]
    /\ wantMeta = meta /\ acked = meta
    /\ storedMeta = [p \in Paths |-> {}]
    /\ wantDir = [d \in Paths |-> NoListing]
    /\ storedDir = [d \in Paths |-> {}]

Step(t) ==
    \/ LkBind(t) \/ LkStep(t) \/ LkCol(t) \/ StBind(t) \/ StStep(t)
    \/ MiBind(t) \/ MiStep(t)
    \/ DsBind(t) \/ DsDel(t) \/ DsIReset(t) \/ DsIBind(t) \/ DsIns(t) \/ DsCommit(t)
    \/ DlReset(t) \/ DlBind(t) \/ DlCount(t) \/ DlRead(t) \/ DlCol(t)
    \/ DiBind(t) \/ DiStep(t)

Call(t) ==
    \E p \in Paths :
        \/ CallLookup(t, p) \/ CallStoreNegative(t, p) \/ CallInvalidate(t, p)
        \/ \E v \in Versions : CallStore(t, p, <<p, v>>)
        \/ CallDirLookup(t, p) \/ CallDirInvalidate(t, p)
        \/ \E L \in SUBSET Names, m \in MTimes : CallDirStore(t, p, L, m)

Next == Tick \/ \E t \in Threads : Call(t) \/ Step(t)

Spec == Init /\ [][Next]_msVars

-----------------------------------------------------------------------------
(* Properties.  A call's results are read when its thread is back at idle. *)

Returned(t, op) == mpc[t] = "idle" /\ ml[t].op = op

\* With the calls made one at a time, cache_meta_lookup returns the row the
\* last returned store, store_negative or invalidate of the path left, and
\* -1 only when that was an invalidate or there was none (spec 4.2 get).
LookupCurrent ==
    \A t \in Threads : Returned(t, "lookup") =>
        IF ml[t].ok THEN ml[t].row = wantMeta[ml[t].p]
                    ELSE wantMeta[ml[t].p] = NoRow

\* With the calls made one at a time, cache_dir_lookup returns exactly the
\* names and mtime of the last cache_dir_store of the directory, as many
\* entries as it counts, and -1 when the directory was invalidated or never
\* stored (spec 4.2 get_dir/put_dir).
DirLookupCurrent ==
    \A t \in Threads : Returned(t, "dir_lookup") =>
        LET d == ml[t].p IN
        IF ml[t].ok THEN /\ ml[t].cnt = Len(ml[t].got)
                         /\ ToSet(ml[t].got) = wantDir[d].names
                         /\ ml[t].m = wantDir[d].m
                    ELSE wantDir[d].names = {}

\* cache_meta_lookup of p returns only a row some store of p was asked to
\* write, whatever other threads do on the shared select statement.
MetaLookupSound ==
    \A t \in Threads : Returned(t, "lookup") /\ ml[t].ok =>
        ml[t].row \in storedMeta[ml[t].p]

\* cache_dir_lookup under concurrent use (spec 4.2: put_dir is atomic and
\* the store is thread-safe): it never passes a NULL entry_name to strdup,
\* and one that succeeds returns one whole listing some cache_dir_store of
\* that directory wrote, every one of its entry_count entries filled.
DirLookupSafe ==
    \A t \in Threads :
        /\ mpc[t] # "segv"
        /\ Returned(t, "dir_lookup") /\ ml[t].ok =>
              /\ ml[t].cnt = Len(ml[t].got)
              /\ [names |-> ToSet(ml[t].got), m |-> ml[t].m] \in storedDir[ml[t].p]

\* A cache_meta_store that returned 0 stays in the table until the path is
\* stored or invalidated again, whatever the directory cache does.
StoreDurable == \A p \in Paths : acked[p] # NoRow => meta[p] = acked[p]

=============================================================================
