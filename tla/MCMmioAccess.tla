---------------------------- MODULE MCMmioAccess ----------------------------
(***************************************************************************)
(* MmioAccess with beats of four values each, counters that carry and      *)
(* wrap, and fewer advances than a full turn.                              *)
(***************************************************************************)
EXTENDS MmioAccess
=============================================================================
