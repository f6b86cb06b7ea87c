---------------------------- MODULE MCVbnvFlash ----------------------------
(* VbnvFlash for TLC.                                                      *)
EXTENDS VbnvFlash, TLC

Symmetry == Permutations(Procs)
=============================================================================
