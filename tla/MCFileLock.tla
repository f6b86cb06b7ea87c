----------------------------- MODULE MCFileLock -----------------------------
(* FileLock for TLC.  The run checks liveness, so processes are not taken  *)
(* to be symmetric.                                                        *)
EXTENDS FileLock

(* No time limit, none at all, and a time that is not and one that is a    *)
(* multiple of the sleep interval.                                         *)
NegativeTimeouts == {-1, 0, 3, 4}
OnlyForever == {-1}
=============================================================================
