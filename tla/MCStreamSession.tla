--------------------------- MODULE MCStreamSession ---------------------------
(* Small instances of StreamSession for TLC. *)
EXTENDS StreamSession

CONSTANTS s1, s2
=============================================================================
