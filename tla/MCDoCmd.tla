------------------------------ MODULE MCDoCmd ------------------------------
(* DoCmd for TLC.                                                          *)
EXTENDS DoCmd
=============================================================================
