----------------------------- MODULE MCSysvLock -----------------------------
(* SysvLock for TLC.                                                       *)
EXTENDS SysvLock

ForeverOrNot == {-1, 0}
=============================================================================
