------------------------- MODULE MCContainerRuntime -------------------------
(* Small instances of ContainerRuntime.                                     *)
EXTENDS ContainerRuntime, TLC

CONSTANTS r1, r2, k1, k2, p1, p2

\* Clients and pids are interchangeable in the safety properties.
Symmetry == Permutations(Clients) \cup Permutations(Pids)
=============================================================================
