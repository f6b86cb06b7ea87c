---------------------------- MODULE MCCrosEcLpc ----------------------------
(* CrosEcLpc for TLC.                                                      *)
EXTENDS CrosEcLpc
=============================================================================
