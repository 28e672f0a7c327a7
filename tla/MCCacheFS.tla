----------------------------- MODULE MCCacheFS ------------------------------
(***************************************************************************)
(* CacheFS read/write paths for TLC: one backend file of FileLen bytes     *)
(* split into blocks of BlockSize bytes, the last one short.               *)
(***************************************************************************)
EXTENDS CacheFS, TLC

MCHash == [p \in Paths |-> p]

\* Inodes nobody links or holds open cannot be observed again.
View == <<dir, [i \in Inos |-> IF i \in Live THEN content[i] ELSE <<>>],
          [i \in Inos |-> IF i \in Live THEN atime[i] ELSE 0],
          cacheSize, now, pc, lc, hist, cfsVars>>

=============================================================================
