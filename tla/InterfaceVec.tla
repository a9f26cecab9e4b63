---------------------------- MODULE InterfaceVec ----------------------------
(***************************************************************************)
(* The interface vector of common/src/intel_fpga_api_cmn_inf.c: the heap   *)
(* array g_common_fpga_interface_info_vec with its size and its reserved   *)
(* length, the parameter blocks the DFL walker hangs on its entries, and   *)
(* the claims that fpga_open and fpga_interrupt_open take on an entry.     *)
(*                                                                         *)
(* An FPGA_INTERFACE_INFO is abstracted to the set of its claim flags that *)
(* are TRUE ("mmio" for is_mmio_opened, "intr" for is_interrupt_opened)    *)
(* and the set of heap blocks that its parameters pointer reaches.         *)
(***************************************************************************)
EXTENDS Integers

CONSTANTS
    Clients,      \* callers of fpga_open and fpga_interrupt_open
    Blocks,       \* heap blocks available for parameters and their data
    MaxSize       \* bound: the largest size asked of resize and reserve

ASSUME MaxSizeAssumption == MaxSize \in Nat

VARIABLES
    vec,        \* the array: one entry per reserved slot; empty when NULL
    size,       \* g_common_fpga_interface_info_vec_size
    reserved,   \* g_common_fpga_interface_info_vec_reserved
    heap,       \* parameter blocks allocated and not freed
    pending,    \* claims whose flag was found clear and is not yet set
    held,       \* claims returned to a client and not yet closed
    raced,      \* history: claims that two clients tested before one set them
    alive       \* FALSE once the default exception handler has called exit

vars == <<vec, size, reserved, heap, pending, held, raced, alive>>

Kinds == {"mmio", "intr"}
Entry == [open : SUBSET Kinds, params : SUBSET Blocks]
Zero == [open |-> {}, params |-> {}]

TypeOK ==
    /\ size \in 0..MaxSize
    /\ reserved \in 0..MaxSize
    /\ size <= reserved
    /\ vec \in [0..(reserved - 1) -> Entry]
    /\ heap \subseteq Blocks
    /\ pending \subseteq Clients \X Kinds \X (0..MaxSize)
    /\ held \subseteq Clients \X Kinds \X (0..MaxSize)
    /\ raced \subseteq Kinds \X (0..MaxSize)
    /\ alive \in BOOLEAN

Init ==
    /\ vec = [i \in 0..-1 |-> Zero]
    /\ size = 0
    /\ reserved = 0
    /\ heap = {}
    /\ pending = {} /\ held = {} /\ raced = {}
    /\ alive = TRUE

(***************************************************************************)
(* common_fpga_interface_info_vec_reserve, by its effect on each variable. *)
(* Growth zeroes the new slots; otherwise the entries from n to size are   *)
(* freed and zeroed, and the array itself is freed when n is 0.            *)
(***************************************************************************)
\* Slips: growth clears too much; a shrink does not clear; the freeing loop
\* starts one entry late.
ReserveVec_ClearsAll(n) ==
    [i \in 0..((IF n > reserved \/ n = 0 THEN n ELSE reserved) - 1) |->
        IF n > reserved \/ (n <= i /\ i < size) THEN Zero ELSE vec[i]]

ReserveVec_NoClear(n) ==
    [i \in 0..((IF n > reserved \/ n = 0 THEN n ELSE reserved) - 1) |->
        IF i >= reserved THEN Zero ELSE vec[i]]

ReserveHeap_OneLate(n) == heap \ UNION {vec[i].params : i \in (n + 1)..(size - 1)}

ReserveVec(n) ==
    [i \in 0..((IF n > reserved \/ n = 0 THEN n ELSE reserved) - 1) |->
        IF i >= reserved \/ (n <= i /\ i < size) THEN Zero ELSE vec[i]]

ReserveReserved(n) == IF n > reserved \/ n = 0 THEN n ELSE reserved

ReserveSize(n) == IF n < size THEN n ELSE size

ReserveHeap(n) == heap \ UNION {vec[i].params : i \in n..(size - 1)}

\* init and cleanup, which change the length, run while no thread is in
\* fpga_open.
Reserve(n) ==
    /\ alive /\ pending = {}
    /\ vec' = ReserveVec(n)
    /\ reserved' = ReserveReserved(n)
    /\ size' = ReserveSize(n)
    /\ heap' = ReserveHeap(n)
    /\ held' = {h \in held : h[3] < size'}
    /\ raced' = {r \in raced : r[2] < size'}
    /\ UNCHANGED <<pending, alive>>

\* Claims on entries that disappear are void: their handles are stale.
Resize(n) ==
    /\ alive /\ pending = {}
    /\ vec' = ReserveVec(n)
    /\ reserved' = ReserveReserved(n)
    /\ size' = n
    /\ heap' = ReserveHeap(n)
    /\ held' = {h \in held : h[3] < n}
    /\ raced' = {r \in raced : r[2] < n}
    /\ UNCHANGED <<pending, alive>>

\* realloc fails: the runtime exception's default handler ends the process.
ReallocFails(n) ==
    /\ alive
    /\ n > reserved /\ pending = {}
    /\ alive' = FALSE
    /\ UNCHANGED <<vec, size, reserved, heap, pending, held, raced>>

\* The DFL walker gives a fresh entry its parameters array and data blocks.
AttachParameters(i, B) ==
    /\ alive
    /\ i < size
    /\ vec[i].params = {}
    /\ B # {} /\ B \cap heap = {}
    /\ vec' = [vec EXCEPT ![i].params = B]
    /\ heap' = heap \cup B
    /\ UNCHANGED <<size, reserved, pending, held, raced, alive>>

Same(g, h) == g[2] = h[2] /\ g[3] = h[3]

\* Slip: the flag is not tested.
OpenTest_NoTest(c, k, i) ==
    /\ alive
    /\ i < size
    /\ \A p \in pending : p[1] # c
    /\ pending' = pending \cup {<<c, k, i>>}
    /\ raced' = raced \cup {<<k, i>> : p \in {q \in pending : Same(q, <<c, k, i>>)}}
    /\ UNCHANGED <<vec, size, reserved, heap, held, alive>>

\* fpga_open ("mmio") and fpga_interrupt_open ("intr") claim a free entry: the
\* flag is tested, without a lock;
OpenTest(c, k, i) ==
    /\ alive
    /\ i < size
    /\ k \notin vec[i].open
    /\ \A p \in pending : p[1] # c
    /\ pending' = pending \cup {<<c, k, i>>}
    /\ raced' = raced \cup {<<k, i>> : p \in {q \in pending : Same(q, <<c, k, i>>)}}
    /\ UNCHANGED <<vec, size, reserved, heap, held, alive>>

\* then it is set.
OpenSet(c, k, i) ==
    /\ alive
    /\ <<c, k, i>> \in pending
    /\ i < size
    /\ vec' = [vec EXCEPT ![i].open = @ \cup {k}]
    /\ pending' = pending \ {<<c, k, i>>}
    /\ held' = held \cup {<<c, k, i>>}
    /\ UNCHANGED <<size, reserved, heap, raced, alive>>

\* Slip: closing one kind of claim clears the other flag too.
Close_BothFlags(c, k, i) ==
    /\ alive
    /\ <<c, k, i>> \in held
    /\ i < size
    /\ vec' = [vec EXCEPT ![i].open = {}]
    /\ held' = held \ {<<c, k, i>>}
    /\ UNCHANGED <<size, reserved, heap, pending, raced, alive>>

\* fpga_close and fpga_interrupt_close, called by the holder of the claim.
Close(c, k, i) ==
    /\ alive
    /\ <<c, k, i>> \in held
    /\ i < size
    /\ vec' = [vec EXCEPT ![i].open = @ \ {k}]
    /\ held' = held \ {<<c, k, i>>}
    /\ UNCHANGED <<size, reserved, heap, pending, raced, alive>>

Next ==
    \/ \E n \in 0..MaxSize : Reserve(n) \/ Resize(n) \/ ReallocFails(n)
    \/ \E i \in 0..MaxSize, B \in SUBSET Blocks : AttachParameters(i, B)
    \/ \E c \in Clients, k \in Kinds, i \in 0..MaxSize :
          OpenTest(c, k, i) \/ OpenSet(c, k, i) \/ Close(c, k, i)

Spec == Init /\ [][Next]_vars

-----------------------------------------------------------------------------
(***************************************************************************)
(* Properties                                                              *)
(***************************************************************************)

\* Every slot between size and reserved is all zeroes, so that a resize that
\* grows within the reserved length (which clears nothing) still presents
\* fresh entries: no stale claim flag, no stale parameters pointer.
TailZeroed == \A i \in size..(reserved - 1) : vec[i] = Zero

\* The parameter blocks alive on the heap are exactly the ones reachable from
\* an entry below size: shrinking leaks none and leaves no dangling pointer.
HeapReachable == heap = UNION {vec[i].params : i \in 0..(size - 1)}

\* No block is reachable from two entries, so no shrink frees a block twice.
NoSharedBlock ==
    \A i, j \in 0..(size - 1) :
        i # j => vec[i].params \cap vec[j].params = {}

\* fpga_open "claims the exclusive usage of the interface": no two clients
\* hold the same claim at once, unless their calls overlapped between the test
\* and the store of the flag.
ExclusiveClaim ==
    \A g, h \in held : Same(g, h) /\ <<g[2], g[3]>> \notin raced => g = h

Claimed(k, i) == \E c \in Clients : <<c, k, i>> \in held

\* An entry is marked open exactly while some client holds its claim: a claim
\* is neither lost (and given out again) nor stuck (and refused for ever),
\* again unless two calls for it overlapped.
FlagMatchesClaim ==
    \A i \in 0..(size - 1), k \in Kinds :
        <<k, i>> \notin raced => (k \in vec[i].open <=> Claimed(k, i))

\* The vector's value is the sequence of the entries below size.
Abs == INSTANCE VectorAbs WITH
    AbsEntry <- Entry, Default <- Zero, len <- size,
    elems <- [i \in 0..(size - 1) |-> vec[i]]

\* Every step of the array code is a resize or an element assignment of a C++
\* vector, although growth within the reserved length initialises nothing.
RefinesVector == Abs!Spec
=============================================================================
