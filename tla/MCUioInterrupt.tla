--------------------------- MODULE MCUioInterrupt ---------------------------
(* Small instances of UioInterrupt. *)
EXTENDS UioInterrupt, TLC

CONSTANTS main, other, r1, r2

MCApps == {main, other}
MCRegs == {r1, r2}
SingleOnly == {TRUE}
AnyMode == {TRUE, FALSE}

\* Registrations are only compared with each other.
Symmetry == Permutations(MCRegs)
=============================================================================
