--------------------------- MODULE MCInterfaceVec ---------------------------
(* Small instances of InterfaceVec. *)
EXTENDS InterfaceVec, TLC

CONSTANTS c1, c2, b1, b2, b3

MCClients == {c1, c2}
MCBlocks == {b1, b2, b3}

\* Clients and blocks are interchangeable: the code compares neither.
Symmetry == Permutations(MCClients) \cup Permutations(MCBlocks)
=============================================================================
