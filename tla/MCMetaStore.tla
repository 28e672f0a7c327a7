---------------------------- MODULE MCMetaStore -----------------------------
(* Instances of MetaStore for TLC: paths are strings, entry names small    *)
(* integers, and each configuration says which calls each thread makes.    *)
EXTENDS MetaStore

MCThread == {"t1"}
MCThreads == {"t1", "t2"}

MCPaths == {"a", "b"}
MCPath == {"a"}
MCNames == {1, 2}

AllOps == {"lookup", "store", "negative", "invalidate",
           "dir_lookup", "dir_store", "dir_invalidate"}
MetaOps == {"lookup", "store"}
DirOps == {"dir_lookup", "dir_store"}

\* one thread making every call
SeqOps == [t \in Threads |-> AllOps]
\* threads looking up and storing attributes
RaceOps == [t \in Threads |-> MetaOps]
\* threads looking up and storing listings
DirRaceOps == [t \in Threads |-> DirOps]
\* t1 stores attributes while t2 stores listings
SplitOps == [t \in Threads |-> IF t = "t1" THEN {"store"} ELSE {"dir_store"}]
\* negative entries and lookups
NegOps == [t \in Threads |-> {"negative", "lookup"}]

\* What the next steps and the properties can still read.  A statement that
\* is not on a row runs its query afresh at its next step, so the rows and
\* position it keeps are dead, and so is a binding no thread will step; the locals of a returned call other than a
\* lookup are read by no property; the ghost sets are read only by
\* properties of the concurrent runs (which do not use this view).
\* The program points from a thread's bind of s to its last step of s; a
\* binding is read only by a step, and every call binds before it steps.
AfterBind(s) ==
    CASE s = "select_meta" -> {"lk_step"}
      [] s = "insert_meta" -> {"st_step"}
      [] s = "delete_meta" -> {"mi_step"}
      [] s = "delete_dir"  -> {"ds_del", "di_step"}
      [] s = "insert_dir"  -> {"ds_ins"}
      [] s = "select_dir"  -> {"dl_count", "dl_read", "dl_col"}
LiveStmt(s) ==
    LET st == stmt[s]
        b == IF \E t \in Threads : mpc[t] \in AfterBind(s) THEN st.bind ELSE NoBind
    IN IF OnRow(st) THEN [st EXCEPT !.bind = b]
       ELSE [bind |-> b, rows |-> <<>>, pos |-> 0]
LiveLocals(t) ==
    IF mpc[t] = "idle" /\ ml[t].op \notin {"lookup", "dir_lookup"}
    THEN NoLocal ELSE ml[t]
SeqView == <<meta, dirRows, [s \in Stmts |-> LiveStmt(s)], inTxn, undo,
             now, mpc, [t \in Threads |-> LiveLocals(t)], wantMeta, wantDir>>
====
