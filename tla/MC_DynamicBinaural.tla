------------------------- MODULE MC_DynamicBinaural -------------------------
(* Small instances of DynamicBinaural for TLC. *)
EXTENDS DynamicBinaural

CONSTANTS p0, p1

\* Two poses, the second with the longer filters.
MCPoses == {p0, p1}
MCTaps == [p \in MCPoses |-> IF p = p1 THEN 4 ELSE 2]
=============================================================================
