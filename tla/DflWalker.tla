------------------------------ MODULE DflWalker ------------------------------
(***************************************************************************)
(* The Device Feature List walker, common/src/intel_fpga_api_cmn_dfl.c.    *)
(* common_dfl_scan_multi_interfaces walks the list twice, first to count   *)
(* the interfaces and then to fill one vector entry for each.  The walk is *)
(* recursive: a parameter block with the branch id opens the list of the   *)
(* next level, and dfh_parent_stack remembers, level by level, the index   *)
(* to store as dfh_parent.                                                 *)
(*                                                                         *)
(* A ROM is abstracted to its structure: the node that follows each node   *)
(* on its level (0 at the end of the list), and the parameter blocks of    *)
(* each node, a block being the first node of the level it branches to, or *)
(* 0 when its id is not the branch id.  A node is one way to reach a       *)
(* header, named by "at": several branches may open the same level, and    *)
(* the walk, which sees headers only, goes through it once for each.       *)
(***************************************************************************)
EXTENDS Integers, Sequences

CONSTANTS
    Roms,       \* the ROMs a scan may meet: every branch and list ends
    Incr,       \* DFH_PARENT_STACK_INCR_SIZE
    MaxScans    \* bound: calls of common_dfl_scan_multi_interfaces

ASSUME IncrAssumption == Incr \in Nat \ {0}
ASSUME MaxScansAssumption == MaxScans \in Nat
ASSUME RomsAssumption ==
    \A r \in Roms :
        /\ 1 \in r.nodes /\ r.nodes \subseteq Nat \ {0}
        /\ \E max \in r.nodes : \A n \in r.nodes : n <= max
        /\ r.next \in [r.nodes -> r.nodes \cup {0}]
        /\ DOMAIN r.params = r.nodes /\ DOMAIN r.at = r.nodes
        /\ \A n \in r.nodes : r.params[n] \in Seq(r.nodes \cup {0})

\* The links of a ROM: <<n, 0>> to the next node, <<n, j>> of n's block j.
LinksOf(r) == UNION {{<<n, j>> : j \in 0..Len(r.params[n])} : n \in r.nodes}
Target(r, l) == IF l[2] = 0 THEN r.next[l[1]] ELSE r.params[l[1]][l[2]]

Header(r, n) == IF n = 0 THEN 0 ELSE r.at[n]

\* What a walk finds depends on the header alone, not on how it got there.
ASSUME HeadersAssumption ==
    \A r \in Roms : \A m, n \in r.nodes : r.at[m] = r.at[n] =>
        /\ Len(r.params[m]) = Len(r.params[n])
        /\ \A j \in 0..Len(r.params[n]) :
              Header(r, Target(r, <<m, j>>)) = Header(r, Target(r, <<n, j>>))

\* The ways to reach headers form a tree: but for the first, each has one link
\* to it.  Numbers are not addresses: they name the nodes so that a link goes
\* to a higher one, which the nodes of a tree always can be named.
ASSUME TreesAssumption ==
    \A r \in Roms :
        /\ \A l \in LinksOf(r) : Target(r, l) # 0 => l[1] < Target(r, l)
        /\ \A l, m \in LinksOf(r) : Target(r, l) = Target(r, m) /\ Target(r, l) # 0 => l = m
        /\ \A n \in r.nodes \ {1} : \E l \in LinksOf(r) : Target(r, l) = n

VARIABLES
    phase,    \* "idle", "count", "collect", or "dead" after an exception
    scans,    \* scans begun
    rom,      \* the ROM being walked
    frames,   \* calls in progress, one [node, k] per level; k = 0 on entry,
              \* then the number of the next parameter block
    count,    \* s_scanned_interface_count
    index,    \* s_interface_index
    vecSize,  \* size of the interface vector
    entries,  \* per entry written: its node and its dfh_parent
    top,      \* dfh_parent_stack.top
    capacity, \* dfh_parent_stack.size
    head      \* dfh_parent_stack.head

stackVars == <<top, capacity, head>>
vars == <<phase, scans, rom, frames, count, index, vecSize, entries, stackVars>>

Frame(n, k) == [node |-> n, k |-> k]
Current == frames[Len(frames)]
Params == rom.params[Current.node]
Walking == phase \in {"count", "collect"} /\ frames # <<>>

\* dfh_parent_stack starts zeroed (not as DFH_PARENT_STACK_default), so its
\* slot 0 is never used and an empty stack has top = 0.
Init ==
    /\ phase = "idle" /\ scans = 0
    /\ rom \in Roms
    /\ frames = <<>>
    /\ count = 0 /\ index = 0 /\ vecSize = 0
    /\ entries = [i \in {} |-> 0]
    /\ top = 0 /\ capacity = 0 /\ head = [i \in {} |-> 0]

-----------------------------------------------------------------------------
\* Slip: the array is allocated one element short.
Push_OneShort(v) ==
    LET cap == IF top = capacity THEN capacity + Incr - 1 ELSE capacity
    IN  /\ capacity' = cap
        /\ top' = top + 1
        /\ head' = [i \in 0..(cap - 1) |->
                      IF i = top + 1 THEN v
                      ELSE IF i < capacity THEN head[i] ELSE 0]

\* dfh_parent_stack_push.  The growth test runs before top advances, so the
\* store may fall one past the array; such a store is lost.
Push(v) ==
    LET cap == IF top = capacity THEN capacity + Incr ELSE capacity
    IN  /\ capacity' = cap
        /\ top' = top + 1
        /\ head' = [i \in 0..(cap - 1) |->
                      IF i = top + 1 THEN v
                      ELSE IF i < capacity THEN head[i] ELSE 0]

Pop == top # -1 /\ top' = top - 1 /\ UNCHANGED <<capacity, head>>

\* What dfh_parent_stack_peek may return: past the array, anything.
Peek ==
    IF top < capacity THEN {head[top]} ELSE -1..(vecSize - 1)

-----------------------------------------------------------------------------
StartScan ==
    /\ phase = "idle"
    /\ scans < MaxScans
    /\ scans' = scans + 1
    /\ rom' \in Roms
    /\ phase' = "count"
    /\ count' = 0
    /\ vecSize' = 0 /\ entries' = [i \in {} |-> 0]
    /\ Push(-1)
    /\ frames' = <<Frame(1, 0)>>
    /\ UNCHANGED index

\* deal_with_interface_at_current_level: count or collect the interface.
CountInterface ==
    /\ Walking /\ phase = "count"
    /\ Current.k = 0
    /\ count' = count + 1
    /\ frames' = [frames EXCEPT ![Len(frames)].k = 1]
    /\ UNCHANGED <<phase, scans, rom, index, vecSize, entries, stackVars>>

CollectInterface ==
    /\ Walking /\ phase = "collect"
    /\ Current.k = 0
    /\ index' = index + 1
    /\ \E p \in Peek :
          entries' = [i \in DOMAIN entries \cup {index'} |->
                        IF i = index' THEN [node |-> Current.node, parent |-> p]
                                      ELSE entries[i]]
    /\ frames' = [frames EXCEPT ![Len(frames)].k = 1]
    /\ UNCHANGED <<phase, scans, rom, count, vecSize, stackVars>>

\* Slip: the loop does not move on to the next block.
SkipParam_NoAdvance ==
    /\ Walking
    /\ Current.k \in 1..Len(Params)
    /\ Params[Current.k] = 0
    /\ UNCHANGED vars

\* process_param_list_for_known_param_id: a block of no interest.
SkipParam ==
    /\ Walking
    /\ Current.k \in 1..Len(Params)
    /\ Params[Current.k] = 0
    /\ frames' = [frames EXCEPT ![Len(frames)].k = @ + 1]
    /\ UNCHANGED <<phase, scans, rom, count, index, vecSize, entries, stackVars>>

\* Slips: the parent is the interface before; the list ends with a branch.
Branch_WrongParent ==
    /\ Walking
    /\ Current.k \in 1..Len(Params)
    /\ Params[Current.k] # 0
    /\ Push(index - 1)
    /\ frames' = Append([frames EXCEPT ![Len(frames)].k = @ + 1],
                        Frame(Params[Current.k], 0))
    /\ UNCHANGED <<phase, scans, rom, count, index, vecSize, entries>>

Branch_EndsList ==
    /\ Walking
    /\ Current.k \in 1..Len(Params)
    /\ Params[Current.k] # 0
    /\ Push(index)
    /\ frames' = Append([frames EXCEPT ![Len(frames)].k = Len(Params) + 1],
                        Frame(Params[Current.k], 0))
    /\ UNCHANGED <<phase, scans, rom, count, index, vecSize, entries>>

\* handle_branch_param_id: push the index last assigned, walk the new level.
Branch ==
    /\ Walking
    /\ Current.k \in 1..Len(Params)
    /\ Params[Current.k] # 0
    /\ Push(index)
    /\ frames' = Append([frames EXCEPT ![Len(frames)].k = @ + 1],
                        Frame(Params[Current.k], 0))
    /\ UNCHANGED <<phase, scans, rom, count, index, vecSize, entries>>

\* The next interface of the level; the call is the last thing its caller
\* does, so it takes the caller's place.
NextInterface ==
    /\ Walking
    /\ Current.k > Len(Params)
    /\ rom.next[Current.node] # 0
    /\ frames' = [frames EXCEPT ![Len(frames)] = Frame(rom.next[Current.node], 0)]
    /\ UNCHANGED <<phase, scans, rom, count, index, vecSize, entries, stackVars>>

\* Slip: the level ends without a pop.
EndOfLevel_NoPop ==
    /\ Walking
    /\ Current.k > Len(Params)
    /\ rom.next[Current.node] = 0
    /\ frames' = SubSeq(frames, 1, Len(frames) - 1)
    /\ UNCHANGED <<phase, scans, rom, count, index, vecSize, entries, stackVars>>

EndOfLevel ==
    /\ Walking
    /\ Current.k > Len(Params)
    /\ rom.next[Current.node] = 0
    /\ Pop
    /\ frames' = SubSeq(frames, 1, Len(frames) - 1)
    /\ UNCHANGED <<phase, scans, rom, count, index, vecSize, entries>>

\* Slip: the index is not reset between the walks.
EndCount_KeepIndex ==
    /\ phase = "count" /\ frames = <<>>
    /\ phase' = "collect"
    /\ vecSize' = count
    /\ Push(-1)
    /\ frames' = <<Frame(1, 0)>>
    /\ UNCHANGED <<scans, rom, count, index, entries>>

\* Between the walks: size the vector, and start again to collect.
EndCount ==
    /\ phase = "count" /\ frames = <<>>
    /\ phase' = "collect"
    /\ vecSize' = count
    /\ index' = -1
    /\ Push(-1)
    /\ frames' = <<Frame(1, 0)>>
    /\ UNCHANGED <<scans, rom, count, entries>>

\* dfh_parent_stack_resize(0) frees the array and leaves top alone.
EndScan ==
    /\ phase = "collect" /\ frames = <<>>
    /\ phase' = "idle"
    /\ capacity' = 0 /\ head' = [i \in {} |-> 0]
    /\ UNCHANGED <<scans, rom, frames, count, index, vecSize, entries, top>>

\* realloc fails in a push: the exception's default handler ends the process.
StackAllocFails ==
    /\ phase # "dead"
    /\ top = capacity
    /\ \/ phase = "idle" /\ scans < MaxScans
       \/ phase = "count" /\ frames = <<>>
       \/ Walking /\ Current.k \in 1..Len(Params) /\ Params[Current.k] # 0
    /\ phase' = "dead"
    /\ UNCHANGED <<scans, rom, frames, count, index, vecSize, entries, stackVars>>

WalkStep ==
    \/ CountInterface \/ CollectInterface \/ SkipParam \/ Branch
    \/ NextInterface \/ EndOfLevel \/ EndCount \/ EndScan

Next == StartScan \/ WalkStep \/ StackAllocFails

Spec == Init /\ [][Next]_vars

\* The walk is a sequential computation: once called, it runs.
FairSpec == Spec /\ WF_vars(WalkStep)

-----------------------------------------------------------------------------
(***************************************************************************)
(* Reference: what the list says, read directly off its structure.         *)
(***************************************************************************)
\* The first node of the level on which n stands.
LevelStart(r, n) ==
    LET start[m \in r.nodes] ==
            IF \E p \in r.nodes : r.next[p] = m
            THEN start[CHOOSE p \in r.nodes : r.next[p] = m]
            ELSE m
    IN  start[n]

Opens(r, p, n) == \E j \in 1..Len(r.params[p]) : r.params[p][j] = LevelStart(r, n)

\* The node whose parameter block opens the level on which n stands, or 0.
BranchOwner(r, n) ==
    IF \E p \in r.nodes : Opens(r, p, n)
    THEN CHOOSE p \in r.nodes : Opens(r, p, n) ELSE 0

\* How deep n is nested, the top level being 1.
Depth(r, n) ==
    LET depth[m \in r.nodes] ==
            IF BranchOwner(r, m) = 0 THEN 1 ELSE 1 + depth[BranchOwner(r, m)]
    IN  depth[n]

\* n is on the top level, or on the level that the first branch block of its
\* owner opens.
OnFirstBranch(r, n) ==
    LET o == BranchOwner(r, n)
    IN  o = 0 \/ \E j \in 1..Len(r.params[o]) :
                    /\ r.params[o][j] = LevelStart(r, n)
                    /\ \A l \in 1..(j - 1) : r.params[o][l] = 0

IndexOf(n) == CHOOSE i \in DOMAIN entries : entries[i].node = n

RightParent(i) ==
    LET o == BranchOwner(rom, entries[i].node)
    IN  entries[i].parent = IF o = 0 THEN -1 ELSE IndexOf(o)

Scanned == phase = "idle" /\ scans > 0

-----------------------------------------------------------------------------
(***************************************************************************)
(* Properties                                                              *)
(***************************************************************************)
\* The second walk never writes past the vector the first walk sized, and
\* fills all of it.
WalksAgree ==
    /\ DOMAIN entries \subseteq 0..(vecSize - 1)
    /\ Scanned => DOMAIN entries = 0..(vecSize - 1)

\* A finished scan lists every interface of the ROM, once for each way that
\* leads to it: once when a single branch opens its level, and once for every
\* branch when several do (15, 20, 25 and 35 entries for the lists of
\* common/test/utst/intel_fpga_api_hier_dfl_test.cpp:878-956).
ListedPerBranch ==
    Scanned =>
        /\ {entries[i].node : i \in DOMAIN entries} = rom.nodes
        /\ \A i, j \in DOMAIN entries : entries[i].node = entries[j].node => i = j

\* The parent stack holds one element per level being walked and is empty,
\* ready for another scan, between scans: pushes and pops balance.
StackMirrorsCalls == phase # "dead" => top = Len(frames)

\* Lists nested less deeply than the stack's increment stay in the array.
StackInBounds == Len(frames) < Incr => (top < capacity \/ frames = <<>>)

\* Top-level interfaces, and those on the first branch of their parent, have
\* the right dfh_parent when nested less deeply than the stack's increment.
FirstBranchParent ==
    \A i \in DOMAIN entries :
        OnFirstBranch(rom, entries[i].node) /\ Depth(rom, entries[i].node) < Incr
            => RightParent(i)

\* dfh_parent is the "Index to the FPGA_INTERFACE_INFO of the parent; -1 if
\* there is no parent", for every interface of every list.
ParentIsOwner == \A i \in DOMAIN entries : RightParent(i)

\* Every scan comes to an end.
ScanEnds == phase \in {"count", "collect"} ~> phase \in {"idle", "dead"}
=============================================================================
