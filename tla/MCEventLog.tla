----------------------------- MODULE MCEventLog -----------------------------
(* EventLog for TLC.                                                       *)
EXTENDS EventLog

(* Short, nearly at the threshold of a region of 136 bytes, and one with an *)
(* entry of length 0.                                                      *)
SomeLogs == {<<21>>, <<34, 9, 13, 34>>, <<13, 0>>}

(* Up to one entry below the threshold of a region of 64 bytes.            *)
ShortLogs == {<<13>>, <<13, 13, 13>>}
=============================================================================
