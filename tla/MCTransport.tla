----------------------------- MODULE MCTransport -----------------------------
(* Small instances of Transport for TLC. *)
EXTENDS TransportRefinement, TLC

CONSTANTS r1, r2

MCRequests == {r1, r2}
Symmetry == Permutations(MCRequests)
=============================================================================
