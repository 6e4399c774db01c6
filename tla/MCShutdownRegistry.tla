------------------------- MODULE MCShutdownRegistry -------------------------
(* Small instances of ShutdownRegistry for TLC. *)
EXTENDS ShutdownRegistry

CONSTANTS s1, s2, r1, a1, a2
=============================================================================
