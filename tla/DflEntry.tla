------------------------------ MODULE DflEntry ------------------------------
(***************************************************************************)
(* How the Device Feature List walker turns the words of a ROM into        *)
(* interface entries: the bit fields of a Device Feature Header, the       *)
(* parameter blocks with their allocation and copying, and the freeing of  *)
(* both when the vector shrinks (common/src/intel_fpga_api_cmn_dfl.c with  *)
(* intel_fpga_api_cmn_inf.c).  An allocation that fails throws through the *)
(* handler of intel_fpga_api_cmn_msg.c: the default one ends the process,  *)
(* one that the application registered may return.                         *)
(*                                                                         *)
(* Lists have one level here; the recursion is the subject of DflWalker.   *)
(* Field widths are parameters, so that whole words fit the model's        *)
(* integers, and the ROM starts at address 0.                              *)
(***************************************************************************)
EXTENDS Integers, Sequences, SequencesExt

CONSTANTS
    Lists,      \* the lists a ROM may hold, as sequences of interfaces
    FieldBits,  \* 16: width of instance id, version and parameter id
    NextBits,   \* 23: width of the offset of the next header
    AddrMod,    \* 2^64: addresses wrap at this value
    MaxScans    \* bound: calls of common_dfl_scan_multi_interfaces

ASSUME WidthsAssumption == FieldBits \in Nat \ {0} /\ NextBits \in Nat \ {0}
ASSUME BoundsAssumption == AddrMod \in Nat \ {0} /\ MaxScans \in Nat

VARIABLES
    phase,      \* "idle"; "count", "resize", "retry", "entry", "params" or
                \* "next" in a scan; "dead" after exit, "crashed" after a NULL
                \* pointer was dereferenced
    handler,    \* the exception handler: "default" or "app"
    returned,   \* history: the application's handler has returned
    list, rom,  \* what the ROM holds, and its words
    count,      \* s_scanned_interface_count
    vec,        \* the interface vector
    vecPtr,     \* g_common_fpga_interface_info_vec is not NULL
    dfh,        \* current_dfh_addr
    idx,        \* s_interface_index, plus 1
    cur,        \* current_param_block_addr
    blk,        \* param_block_index, plus 1
    heap,       \* blocks of parameters and data allocated and not freed
    scans       \* scans begun

walkVars == <<dfh, idx, cur, blk>>
vars == <<phase, handler, returned, list, rom, count, vec, vecPtr, walkVars, heap, scans>>

\* Powers of two, as the shifts and masks of the code have them.
Pow2[n \in Nat] == IF n = 0 THEN 1 ELSE 2 * Pow2[n - 1]

Bit(w, n) == (w \div Pow2[n]) % 2
Field(w, n, bits) == (w \div Pow2[n]) % Pow2[bits]

-----------------------------------------------------------------------------
(***************************************************************************)
(* The ROM, as the hardware generator lays it out: five words for a        *)
(* header, then the parameter blocks, each a header word and its data.  A  *)
(* list of blocks ends with an empty block, or with a block marked last.   *)
(***************************************************************************)
ParamHeader(id, version, last, next) ==
    id + version * Pow2[FieldBits] + last * Pow2[2 * FieldBits]
       + next * Pow2[2 * FieldBits + 3]

BlockWords(i, j) ==
    LET b == i.blocks[j]
        last == ~i.nullEnd /\ j = Len(i.blocks)
    IN  <<ParamHeader(b.id, b.version, IF last THEN 1 ELSE 0,
                      IF last THEN Len(b.data) ELSE Len(b.data) + 1)>> \o b.data

ParamWords(i) ==
    FlattenSeq([j \in 1..Len(i.blocks) |-> BlockWords(i, j)])
        \o (IF i.nullEnd THEN <<ParamHeader(0, 0, 1, 0)>> ELSE <<>>)

InterfaceWords(i, eol) ==
    LET params == IF i.hasParams THEN ParamWords(i) ELSE <<>>
        next == 8 * (5 + Len(params))
        start == IF eol THEN Pow2[FieldBits + NextBits + 1] ELSE next * Pow2[FieldBits]
    IN  <<start, i.guid[2], i.guid[1], i.csr + (IF i.absolute THEN 1 ELSE 0),
          i.instance + i.group * Pow2[FieldBits]
             + (IF i.hasParams THEN Pow2[2 * FieldBits - 1] ELSE 0)>> \o params

Image(l) == FlattenSeq([i \in 1..Len(l) |-> InterfaceWords(l[i], i = Len(l))])

\* What a generator can lay out: every value fits its field, addresses are even,
\* and a list of blocks without an empty one at its end has a last block, with
\* data in it (otherwise it would be an empty one).
Values(bits) == 0..(Pow2[bits] - 1)

Blocks == [id : Values(FieldBits), version : Values(FieldBits), data : Seq(Nat)]

Interfaces ==
    {i \in [guid : Nat \X Nat, csr : Nat, absolute : BOOLEAN,
            instance : Values(FieldBits), group : Values(FieldBits - 1),
            hasParams : BOOLEAN, blocks : Seq(Blocks), nullEnd : BOOLEAN] :
        /\ i.csr % 2 = 0
        /\ i.hasParams /\ ~i.nullEnd =>
              i.blocks # <<>> /\ i.blocks[Len(i.blocks)].data # <<>>}

\* Lists are not empty, and the next header is within reach of its offset.
ASSUME ListsAssumption ==
    \A l \in Lists :
        /\ l \in Seq(Interfaces) /\ l # <<>>
        /\ \A k \in 1..(Len(l) - 1) : 8 * Len(InterfaceWords(l[k], FALSE)) < Pow2[NextBits]

\* common_dfl_read_64; past the ROM there are zeroes.
Read(a) == IF a \div 8 < Len(rom) THEN rom[(a \div 8) + 1] ELSE 0

-----------------------------------------------------------------------------
(***************************************************************************)
(* The getters                                                             *)
(***************************************************************************)
is_eol(w) == Bit(w, FieldBits + NextBits + 1) = 1
get_next_dfh_addr(w, a) == a + Field(w, FieldBits, NextBits)

get_instance_id(w) == Field(w, 0, FieldBits)
get_group_id(w) == Field(w, FieldBits, FieldBits - 1)
has_params(w) == Bit(w, 2 * FieldBits - 1) = 1

is_last_param_block(w) == Bit(w, 2 * FieldBits) = 1
get_next_param_byte_offset(w) == (w \div Pow2[2 * FieldBits + 3]) * 8
get_param_block_version(w) == Field(w, FieldBits, FieldBits)
get_param_block_param_id(w) == Field(w, 0, FieldBits)

\* An odd value is an absolute address, an even one is relative to the header.
get_base_address(a, csr) ==
    IF csr % 2 = 1 THEN csr - 1 ELSE (a + csr) % AddrMod

-----------------------------------------------------------------------------
ZeroSlot == [id |-> 0, version |-> 0, size |-> 0, data |-> <<>>, has |-> FALSE]
ZeroEntry ==
    [guid |-> <<0, 0>>, base |-> 0, instance |-> 0, group |-> 0,
     ptr |-> FALSE, num |-> 0, slots |-> <<>>]

\* Heap blocks, named by what points to them.
ParamsBlock(i) == <<i, 0>>
DataBlock(i, j) == <<i, j>>

\* Slip: the last slot is taken for the empty block and skipped.
FreedWith_SkipLast(i) ==
    {DataBlock(i, j) : j \in {k \in 1..(vec[i].num - 1) : vec[i].slots[k].has}}
        \cup (IF vec[i].ptr THEN {ParamsBlock(i)} ELSE {})

\* What reserve frees with entry i: the data of num slots, and the array.
FreedWith(i) ==
    {DataBlock(i, j) : j \in {k \in 1..vec[i].num : vec[i].slots[k].has}}
        \cup (IF vec[i].ptr THEN {ParamsBlock(i)} ELSE {})

\* An array lost to a failed realloc still has a number of parameters.
Dangling(i) == vec[i].num > 0 /\ ~vec[i].ptr

Init ==
    /\ phase = "idle" /\ handler = "default" /\ returned = FALSE
    /\ list = <<>> /\ rom = <<>> /\ count = 0
    /\ vec = <<>> /\ vecPtr = FALSE
    /\ dfh = 0 /\ idx = 0 /\ cur = 0 /\ blk = 0
    /\ heap = {} /\ scans = 0

\* fpga_platform_register_runtime_exception_handler, before a scan.
RegisterHandler ==
    /\ phase = "idle"
    /\ handler' = "app"
    /\ UNCHANGED <<phase, returned, list, rom, count, vec, vecPtr, walkVars, heap, scans>>

\* common_fpga_interface_info_vec_resize(0), without lost arrays.
FreeAll ==
    /\ \A i \in DOMAIN vec : ~Dangling(i)
    /\ heap' = heap \ UNION {FreedWith(i) : i \in DOMAIN vec}
    /\ vec' = <<>> /\ vecPtr' = FALSE

StartScan ==
    /\ phase = "idle" /\ scans < MaxScans
    /\ scans' = scans + 1
    /\ list' \in Lists /\ rom' = Image(list')
    /\ FreeAll
    /\ count' = 0 /\ dfh' = 0
    /\ phase' = "count"
    /\ UNCHANGED <<handler, returned, idx, cur, blk>>

\* The vector is emptied by fpga_platform_cleanup.
Cleanup ==
    /\ phase = "idle" /\ vec # <<>>
    /\ FreeAll
    /\ UNCHANGED <<phase, handler, returned, list, rom, count, walkVars, scans>>

CountInterface ==
    /\ phase = "count"
    /\ count' = count + 1
    /\ IF is_eol(Read(dfh))
       THEN phase' = "resize" /\ dfh' = 0
       ELSE phase' = phase /\ dfh' = get_next_dfh_addr(Read(dfh), dfh)
    /\ UNCHANGED <<handler, returned, list, rom, vec, vecPtr, idx, cur, blk, heap, scans>>

\* The vector gets its size; dfl_collect_interfaces_info asks for it again.
SizeVector ==
    /\ phase \in {"resize", "retry"}
    /\ vec' = [i \in 1..count |-> ZeroEntry] /\ vecPtr' = TRUE
    /\ idx' = 1
    /\ phase' = "entry"
    /\ UNCHANGED <<handler, returned, list, rom, count, dfh, cur, blk, heap, scans>>

\* set_interface_properties, up to the parameters; the parent is in DflWalker.
SetProperties ==
    /\ phase = "entry" /\ vecPtr
    /\ LET group == Read(dfh + 32)
       IN  /\ vec' = [vec EXCEPT ![idx].guid = <<Read(dfh + 16), Read(dfh + 8)>>,
                                 ![idx].base = get_base_address(dfh, Read(dfh + 24)),
                                 ![idx].instance = get_instance_id(group),
                                 ![idx].group = get_group_id(group)]
           /\ phase' = IF has_params(group) THEN "params" ELSE "next"
    /\ cur' = dfh + 40 /\ blk' = 1
    /\ UNCHANGED <<handler, returned, list, rom, count, vecPtr, dfh, idx, heap, scans>>

-----------------------------------------------------------------------------
(***************************************************************************)
(* set_parameter_properties, one iteration of its loop at a time           *)
(***************************************************************************)
EmptyBlock(w) == is_last_param_block(w) /\ get_next_param_byte_offset(w) = 0

\* Slip: the header is counted as data in a block marked last.
DataSize_AllHeaders(w) == get_next_param_byte_offset(w) - 8

DataSize(w) ==
    IF is_last_param_block(w) THEN get_next_param_byte_offset(w)
    ELSE get_next_param_byte_offset(w) - 8

\* param_data_allocate and param_data_copy.
Slot(w) ==
    [id |-> get_param_block_param_id(w), version |-> get_param_block_version(w),
     size |-> DataSize(w), has |-> TRUE,
     data |-> [k \in 1..(DataSize(w) \div 8) |-> Read(cur + 8 * k)]]

\* The slots after param_block_init and the assignments of this iteration.
Filled(w) ==
    IF blk = 1 THEN <<Slot(w)>> ELSE [vec[idx].slots EXCEPT ![blk] = Slot(w)]

\* Slip: the array is made with the second block.
UsesArray_Late == blk = 2 \/ vec[idx].ptr

\* param_block_init makes the array with the first block only.
UsesArray == blk = 1 \/ vec[idx].ptr

LastBlock ==
    /\ phase = "params" /\ UsesArray
    /\ is_last_param_block(Read(cur)) /\ ~EmptyBlock(Read(cur))
    /\ vec' = [vec EXCEPT ![idx].slots = Filled(Read(cur)), ![idx].num = blk,
                          ![idx].ptr = TRUE]
    /\ heap' = heap \cup {ParamsBlock(idx), DataBlock(idx, blk)}
    /\ phase' = "next"
    /\ UNCHANGED <<handler, returned, list, rom, count, vecPtr, walkVars, scans>>

\* A block with another one after it, for which param_block_resize makes room.
InnerBlock ==
    /\ phase = "params" /\ UsesArray
    /\ ~is_last_param_block(Read(cur))
    /\ vec' = [vec EXCEPT ![idx].slots = Append(Filled(Read(cur)), ZeroSlot),
                          ![idx].num = blk + 1, ![idx].ptr = TRUE]
    /\ heap' = heap \cup {ParamsBlock(idx), DataBlock(idx, blk)}
    /\ cur' = cur + get_next_param_byte_offset(Read(cur))
    /\ blk' = blk + 1
    /\ UNCHANGED <<phase, handler, returned, list, rom, count, vecPtr, dfh, idx, scans>>

EndOfParams ==
    /\ phase = "params"
    /\ EmptyBlock(Read(cur))
    /\ phase' = "next"
    /\ UNCHANGED <<handler, returned, list, rom, count, vec, vecPtr, walkVars, heap, scans>>

NextInterface ==
    /\ phase = "next"
    /\ IF is_eol(Read(dfh))
       THEN phase' = "idle" /\ UNCHANGED <<dfh, idx>>
       ELSE /\ phase' = "entry"
            /\ dfh' = get_next_dfh_addr(Read(dfh), dfh)
            /\ idx' = idx + 1
    /\ UNCHANGED <<handler, returned, list, rom, count, vec, vecPtr, cur, blk, heap, scans>>

-----------------------------------------------------------------------------
(***************************************************************************)
(* Failing allocations                                                     *)
(***************************************************************************)
\* The default handler calls exit.
HandlerReturns == handler # "default"

\* fpga_throw_runtime_exception, and where a handler that returns goes on.
Throw(next) ==
    /\ phase' = IF HandlerReturns THEN next ELSE "dead"
    /\ returned' = (returned \/ HandlerReturns)
    /\ UNCHANGED <<handler, list, rom, count, scans, dfh>>

\* reserve: the size is set without an array, and once more for the collection.
VectorAllocFails ==
    /\ phase \in {"resize", "retry"}
    /\ Throw(IF phase = "resize" THEN "retry" ELSE "entry")
    /\ vec' = [i \in 1..count |-> ZeroEntry] /\ vecPtr' = FALSE
    /\ idx' = 1
    /\ UNCHANGED <<cur, blk, heap>>

\* param_block_init: the first block is written through NULL.
\* param_data_allocate: so is its data, unless there is none (a malloc of no
\* bytes is taken to succeed).
BlockAllocFails ==
    /\ phase = "params" /\ UsesArray
    /\ ~EmptyBlock(Read(cur))
    /\ blk = 1 \/ DataSize(Read(cur)) > 0
    /\ Throw("crashed")
    /\ UNCHANGED <<vec, vecPtr, idx, cur, blk, heap>>

\* param_block_resize: the array is lost, the loop goes on with the next block.
ResizeFails ==
    /\ phase = "params" /\ UsesArray
    /\ ~is_last_param_block(Read(cur))
    /\ Throw("params")
    /\ vec' = [vec EXCEPT ![idx].slots = Filled(Read(cur)), ![idx].num = blk,
                          ![idx].ptr = FALSE]
    /\ heap' = heap \cup {ParamsBlock(idx), DataBlock(idx, blk)}
    /\ cur' = cur + get_next_param_byte_offset(Read(cur))
    /\ blk' = blk + 1
    /\ UNCHANGED <<vecPtr, idx>>

\* A NULL vector or a NULL parameters array is used.
UseNull ==
    /\ \/ phase = "entry" /\ ~vecPtr
       \/ phase = "params" /\ ~UsesArray /\ ~EmptyBlock(Read(cur))
       \/ phase = "idle" /\ \E i \in DOMAIN vec : Dangling(i)
    /\ phase' = "crashed"
    /\ UNCHANGED <<handler, returned, list, rom, count, vec, vecPtr, walkVars, heap, scans>>

Next ==
    \/ RegisterHandler \/ StartScan \/ Cleanup
    \/ CountInterface \/ SizeVector \/ SetProperties
    \/ LastBlock \/ InnerBlock \/ EndOfParams \/ NextInterface
    \/ VectorAllocFails \/ BlockAllocFails \/ ResizeFails \/ UseNull

Spec == Init /\ [][Next]_vars

-----------------------------------------------------------------------------
(***************************************************************************)
(* Properties                                                              *)
(***************************************************************************)
\* What the list says of interface k, whose header is at address a.  A list of
\* blocks that an empty block ends leaves one zeroed slot behind, which the
\* test of the parameter blocks expects.
Described(k, a) ==
    LET i == list[k]
        blocks == IF i.hasParams THEN i.blocks ELSE <<>>
        slots == [j \in 1..Len(blocks) |->
                    [id |-> blocks[j].id, version |-> blocks[j].version, has |-> TRUE,
                     size |-> 8 * Len(blocks[j].data), data |-> blocks[j].data]]
                 \o (IF blocks # <<>> /\ i.nullEnd THEN <<ZeroSlot>> ELSE <<>>)
    IN  [guid |-> i.guid, instance |-> i.instance, group |-> i.group,
         base |-> IF i.absolute THEN i.csr ELSE (a + i.csr) % AddrMod,
         ptr |-> blocks # <<>>, num |-> Len(slots), slots |-> slots]

HeaderAddress(k) == 8 * Len(FlattenSeq([j \in 1..(k - 1) |-> InterfaceWords(list[j], FALSE)]))

\* After a scan without a failed allocation the vector holds exactly what the
\* list describes, in its order: every field cut from its word, the address
\* relative to the interface's own header, and each parameter block with the
\* data that belongs to it, whether the block is inner, last or followed by an
\* empty one.
EntriesMatchList ==
    phase = "idle" /\ vec # <<>> /\ ~returned =>
        vec = [k \in 1..Len(list) |-> Described(k, HeaderAddress(k))]

PointedTo(i) ==
    {DataBlock(i, j) : j \in {k \in DOMAIN vec[i].slots : vec[i].slots[k].has}}
        \cup (IF vec[i].ptr THEN {ParamsBlock(i)} ELSE {})

\* As long as no handler returned from an exception, every allocated block is
\* pointed to by an entry of the vector and every pointer is to an allocated
\* block, in the middle of a scan, over rescans with shorter lists and after a
\* cleanup: param_block_init, param_block_resize and the loops of
\* common_fpga_interface_info_vec_reserve neither leak nor free twice.
HeapExact ==
    ~returned /\ phase # "dead" => heap = UNION {PointedTo(i) : i \in DOMAIN vec}

\* A NULL array is dereferenced only when an application's handler returned
\* from fpga_throw_runtime_exception, which the interface's comment rules out
\* ("terminates the application"): realloc overwrites the only pointer, and
\* the code after the throw relies on not being reached.
CrashOnlyAfterReturn == phase = "crashed" => returned

=============================================================================
