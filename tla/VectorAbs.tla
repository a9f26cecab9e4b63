------------------------------ MODULE VectorAbs ------------------------------
(***************************************************************************)
(* What intel_fpga_api_cmn_inf.h promises of the interface vector: "C++    *)
(* vector semantics".  The value is a finite sequence of entries.  resize  *)
(* truncates or appends default entries, and an element changes only       *)
(* through an access below the size.                                       *)
(***************************************************************************)
EXTENDS Integers

CONSTANTS MaxSize, AbsEntry, Default

VARIABLES len, elems

Init == len = 0 /\ elems = [i \in 0..-1 |-> Default]

Resize(n) ==
    /\ len' = n
    /\ elems' = [i \in 0..(n - 1) |-> IF i < len THEN elems[i] ELSE Default]

Assign(i, e) ==
    /\ i < len
    /\ elems' = [elems EXCEPT ![i] = e]
    /\ len' = len

Next ==
    \/ \E n \in 0..MaxSize : Resize(n)
    \/ \E i \in 0..MaxSize, e \in AbsEntry : Assign(i, e)

Spec == Init /\ [][Next]_<<len, elems>>
=============================================================================
