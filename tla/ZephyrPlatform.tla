--------------------------- MODULE ZephyrPlatform ---------------------------
(***************************************************************************)
(* The Zephyr platform: discovery from the table of devices that the build *)
(* generates, register accesses, interrupts, and sessions.  An interrupt   *)
(* service routine (isr) preempts the main thread between two steps of a   *)
(* call, of fpga_platform_init as well when an earlier session left its    *)
(* irq on, and may make calls itself.  The build with                      *)
(* ZEPHYR_UNIT_TEST_SW_MODEL_MODE has one interface in allocated memory    *)
(* instead of devices.                                                     *)
(*                                                                         *)
(* s_zephyr_single_component_mode and s_zephyr_start_addr are never set    *)
(* and are left out.  An isr and its context are one value.                *)
(***************************************************************************)
EXTENDS Integers, Sequences, FiniteSets

CONSTANTS
    Tables,     \* the tables a build may have: sequences of devices, each with
                \* its type (1 plain, 2 with a ROM, 0 neither), base and irq
    Rom,        \* the interfaces that a ROM describes, in order: whether their
                \* address is absolute, and the address, or its signed distance
                \* from the ROM's base
    CountMod,   \* 256: the number of devices is kept in a uint8_t
    AddrMod,    \* 2^64: addresses wrap at this value
    Isrs,       \* isrs the application registers
    MaxInits,   \* bound: calls of fpga_platform_init
    MaxCalls    \* bound: calls for interrupts that the main thread makes

NoIsr == 0
NoIrq == -1

ASSUME TablesAssumption ==
    \A t \in Tables :
        t \in Seq([type : 0..2, base : 0..(AddrMod - 1), irq : Nat \cup {NoIrq}])
ASSUME RomAssumption ==
    /\ Rom \in Seq([abs : BOOLEAN, addr : Int])
    /\ \A k \in DOMAIN Rom : Rom[k].abs => Rom[k].addr \in 0..(AddrMod - 1)
ASSUME ModAssumption == CountMod \in Nat \ {0} /\ AddrMod \in Nat \ {0}
ASSUME IsrsAssumption == NoIsr \notin Isrs
ASSUME BoundsAssumption == MaxInits \in Nat /\ MaxCalls \in Nat

VARIABLES
    build,      \* "device", or "model" with ZEPHYR_UNIT_TEST_SW_MODEL_MODE
    table,      \* fpga_ip_access_dev_table
    vec,        \* the interface vector
    dflAddr, dflFound,  \* s_zephyr_dfl_addr, s_zephyr_dfl_found
    span, erange,       \* s_zephyr_addr_span, and whether errno is ERANGE
    buffers,    \* memory allocated for the software model and not freed
    result,     \* what the last init returned: "true" or "false"; "none" before
                \* the first, while one runs, and after a cleanup
    inits,      \* calls of init so far
    session,    \* history: calls of init since the last cleanup
    doubled,    \* history: some session had a second call of init
    connected,  \* kernel: the isr of each irq
    on,         \* kernel: the irqs that are enabled
    call,       \* the main thread's call: its operation, handle (in init, the
                \* device it has come to), isr and step
    calls,      \* calls of the main thread so far
    registered, \* history: last isr registered for each interface this session
    left,       \* history: irqs that were on at a cleanup, and unchanged since
    crossed     \* history: irqs that an isr switched where a call or init was
                \* about to overwrite what it stored

platformVars == <<dflAddr, dflFound, span, erange, buffers, result, inits, session,
                  doubled>>
kernelVars == <<connected, on, left>>
callVars == <<call, calls, registered, crossed>>
vars == <<build, table, vec, platformVars, kernelVars, callVars>>

\* The irqs of devices; entries that a ROM describes have irq 0.
IrqsOf(t) == {t[n].irq : n \in DOMAIN t}
Irqs == ({0} \cup UNION {IrqsOf(t) : t \in Tables}) \ {NoIrq}
Idle == [op |-> "none", h |-> 0, isr |-> NoIsr, step |-> "none"]

Entry(base, dfl, dev, irq) ==
    [base |-> base, dfl |-> dfl, dev |-> dev, irq |-> irq, cb |-> NoIsr, flag |-> FALSE]

Init ==
    /\ build \in {"device", "model"}
    /\ table \in IF build = "device" THEN Tables ELSE {<<>>}
    /\ vec = <<>>
    /\ dflAddr = 0 /\ dflFound = FALSE
    /\ span = 0 /\ erange = FALSE /\ buffers = {}
    /\ result = "none" /\ inits = 0 /\ session = 0 /\ doubled = FALSE
    /\ connected = [i \in Irqs |-> NoIsr] /\ on = {} /\ left = {}
    /\ call = Idle /\ calls = 0
    /\ registered = <<>> /\ crossed = {}

-----------------------------------------------------------------------------
(***************************************************************************)
(* Discovery                                                               *)
(***************************************************************************)
\* common_dfl_scan_multi_interfaces empties the vector and lists the ROM;
\* its entries are zeroed first, so that their irq is 0.
RomEntries(base) ==
    [k \in DOMAIN Rom |->
       Entry(IF Rom[k].abs THEN Rom[k].addr ELSE (base + Rom[k].addr) % AddrMod,
             TRUE, 0, 0)]

\* fpga_platform_init in this build: what the arguments say is not used.
InitCalled ==
    /\ build = "device" /\ call = Idle /\ inits < MaxInits
    /\ inits' = inits + 1 /\ session' = session + 1 /\ doubled' = (doubled \/ session > 0)
    /\ UNCHANGED <<build, table, vec, dflAddr, dflFound, span, erange, buffers,
                   kernelVars, calls, registered, crossed>>

\* zephyr_scan_interfaces: discovered_dev_n, a uint8_t, is 0.
InitEmpty ==
    /\ InitCalled
    /\ Len(table) % CountMod = 0
    /\ result' = "false"
    /\ UNCHANGED call

ScanAt(n, step) == [op |-> "init", h |-> n, isr |-> NoIsr, step |-> step]

InitBegins ==
    /\ InitCalled
    /\ Len(table) % CountMod # 0
    /\ result' = "none"
    /\ call' = ScanAt(1, "scan")

\* The loop has come to a device of this type.
AtDevice(type) ==
    call.step = "scan" /\ call.h \in DOMAIN table /\ table[call.h].type = type

scanUnchanged == <<build, table, span, erange, buffers, inits, session, doubled,
                   kernelVars, calls, crossed>>

\* A plain device: common_fpga_interface_info_vec_resize adds a zeroed entry,
DeviceGrows ==
    /\ AtDevice(1)
    /\ vec' = Append(vec, Entry(0, FALSE, 0, 0))
    /\ registered' = Append(registered, NoIsr)
    /\ call' = ScanAt(call.h, "store")
    /\ UNCHANGED <<scanUnchanged, dflAddr, dflFound, result>>

\* which is filled in then.
DeviceStores ==
    /\ call.step = "store"
    /\ LET d == table[call.h]
       IN  vec' = [vec EXCEPT ![Len(vec)] =
                     [@ EXCEPT !.base = d.base, !.dev = call.h, !.irq = d.irq]]
    /\ call' = ScanAt(call.h + 1, "scan")
    /\ UNCHANGED <<scanUnchanged, dflAddr, dflFound, result, registered>>

\* Slip: a ROM keeps the devices already listed.
DeviceIsRom_Append ==
    /\ AtDevice(2) /\ ~dflFound
    /\ LET base == table[call.h].base
       IN  vec' = vec \o RomEntries(base) /\ dflAddr' = base /\ dflFound' = TRUE
    /\ registered' = [h \in DOMAIN vec' |-> NoIsr]
    /\ call' = ScanAt(call.h + 1, "scan")
    /\ UNCHANGED <<scanUnchanged, result>>

\* A ROM.  One step: no irq is on before the first init has returned, and the
\* later ones return at the ROM.
DeviceIsRom ==
    /\ AtDevice(2) /\ ~dflFound
    /\ LET base == table[call.h].base
       IN  vec' = RomEntries(base) /\ dflAddr' = base /\ dflFound' = TRUE
    /\ registered' = [h \in DOMAIN vec' |-> NoIsr]
    /\ call' = ScanAt(call.h + 1, "scan")
    /\ UNCHANGED <<scanUnchanged, result>>

\* A ROM where one has been scanned before: init returns false.
DeviceIsSecondRom ==
    /\ AtDevice(2) /\ dflFound
    /\ result' = "false"
    /\ call' = Idle
    /\ UNCHANGED <<scanUnchanged, vec, dflAddr, dflFound, registered>>

DeviceSkipped ==
    /\ AtDevice(0)
    /\ call' = ScanAt(call.h + 1, "scan")
    /\ UNCHANGED <<scanUnchanged, vec, dflAddr, dflFound, result, registered>>

InitEnds ==
    /\ call.step = "scan" /\ call.h > Len(table)
    /\ result' = "true"
    /\ call' = Idle
    /\ UNCHANGED <<scanUnchanged, vec, dflAddr, dflFound, registered>>

\* zephyr_parse_args: the span and ERANGE after an option, if there is one;
\* errno is not cleared before strtol.
ParseArgs(arg) ==
    CASE arg = "none" -> <<span, erange>>
      [] arg = "text" -> <<0, erange>>
      [] arg = "huge" -> <<0, TRUE>>
      [] arg = "good" -> <<IF erange THEN 0 ELSE 1, erange>>

zephyr_validate_args(n) == build = "model" => n > 0

\* zephyr_create_unit_test_sw_model, unless there is no span.
InitModel ==
    /\ build = "model" /\ call = Idle /\ inits < MaxInits
    /\ inits' = inits + 1 /\ session' = session + 1 /\ doubled' = (doubled \/ session > 0)
    /\ \E arg \in {"none", "text", "huge", "good"} :
         /\ span' = ParseArgs(arg)[1] /\ erange' = ParseArgs(arg)[2]
         /\ IF zephyr_validate_args(span')
            THEN /\ buffers' = buffers \cup {inits'}
                 /\ vec' = IF vec = <<>> THEN <<Entry(inits', FALSE, 0, 0)>>
                           ELSE [vec EXCEPT ![1].base = inits']
                 /\ result' = "true"
            ELSE UNCHANGED <<buffers, vec>> /\ result' = "false"
    /\ registered' = [h \in DOMAIN vec' |->
                        IF h \in DOMAIN registered THEN registered[h] ELSE NoIsr]
    /\ UNCHANGED <<build, table, dflAddr, dflFound, kernelVars, call, calls, crossed>>

\* Slip: the vector is emptied before the buffer would be freed.
FreedBuffers_Late == {}

\* In the software model, the memory of the interface.
FreedBuffers == IF build = "model" /\ vec # <<>> THEN {vec[1].base} ELSE {}

\* An isr may run: its irq is on.
IsrRuns == \E i \in on : connected[i] # NoIsr

\* fpga_platform_cleanup: neither s_zephyr_dfl_found nor the kernel is reset.
\* An isr that arrives while the entries are zeroed, and the size is not yet,
\* finds irq 0 and enables that.
Cleanup ==
    /\ call = Idle /\ result # "none"
    /\ span' = 0 /\ erange' = FALSE
    /\ buffers' = buffers \ FreedBuffers
    /\ vec' = <<>>
    /\ result' = "none" /\ session' = 0
    /\ registered' = <<>> /\ crossed' = {}
    /\ on' \in {on} \cup IF IsrRuns /\ vec # <<>> THEN {on \cup {0}} ELSE {}
    /\ left' = left \cup on'
    /\ UNCHANGED <<build, table, dflAddr, dflFound, inits, doubled, connected, call, calls>>

-----------------------------------------------------------------------------
(***************************************************************************)
(* Register accesses: which place in the address space one reaches.        *)
(***************************************************************************)
\* Slip: the base is taken as it is.
zephyr_dfl_base_addr_decoder_Keep(base) == base

zephyr_dfl_base_addr_decoder(base) == (base - dflAddr) % AddrMod

\* fpga_read_8, _16 and _64, and the writes.
Reach(h) == zephyr_dfl_base_addr_decoder(vec[h].base)

\* fpga_read_32 and fpga_write_32: plain devices go through their driver.
Reach32(h) == IF vec[h].dfl THEN Reach(h) ELSE table[vec[h].dev].base

-----------------------------------------------------------------------------
(***************************************************************************)
(* Interrupts, as the main thread uses them.                               *)
(***************************************************************************)
Begin(op, h, isr, step) ==
    /\ call = Idle /\ result = "true" /\ calls < MaxCalls
    /\ call' = [op |-> op, h |-> h, isr |-> isr, step |-> step]
    /\ calls' = calls + 1
    /\ UNCHANGED <<build, table, platformVars>>

\* fpga_register_isr stores the isr; without an irq it returns -1.
RegisterStores ==
    \E h \in DOMAIN vec, isr \in Isrs :
        /\ vec[h].irq > NoIrq
        /\ Begin("register", h, isr, "connect")
        /\ vec' = [vec EXCEPT ![h].cb = isr]
        /\ UNCHANGED <<kernelVars, registered, crossed>>

\* Slip: an isr that replaces another one is not connected.
RegisterConnects_FirstOnly ==
    /\ call.step = "connect"
    /\ connected' = [connected EXCEPT ![vec[call.h].irq] = IF @ = NoIsr THEN call.isr ELSE @]
    /\ registered' = [registered EXCEPT ![call.h] = call.isr]
    /\ call' = Idle
    /\ UNCHANGED <<build, table, vec, platformVars, on, left, calls, crossed>>

\* irq_connect_dynamic
RegisterConnects ==
    /\ call.step = "connect"
    /\ connected' = [connected EXCEPT ![vec[call.h].irq] = call.isr]
    /\ registered' = [registered EXCEPT ![call.h] = call.isr]
    /\ call' = Idle
    /\ UNCHANGED <<build, table, vec, platformVars, on, left, calls, crossed>>

\* Whether the call would change the interface; otherwise it returns -1.
Changes(op, h) == h \in DOMAIN vec /\ vec[h].flag = (op = "disable") /\ vec[h].irq >= 0

\* fpga_enable_interrupt and fpga_disable_interrupt: first the test,
SwitchBegins ==
    \E h \in DOMAIN vec, op \in {"enable", "disable"} :
        /\ Changes(op, h)
        /\ Begin(op, h, NoIsr, "kernel")
        /\ UNCHANGED <<vec, kernelVars, registered, crossed>>

\* irq_enable and irq_disable
Switch(op, irq) ==
    /\ on' = IF op = "enable" THEN on \cup {irq} ELSE on \ {irq}
    /\ left' = left \ {irq}

\* then the kernel,
SwitchKernel ==
    /\ call.step = "kernel"
    /\ Switch(call.op, vec[call.h].irq)
    /\ call' = [call EXCEPT !.step = "flag"]
    /\ UNCHANGED <<build, table, vec, platformVars, connected, calls, registered, crossed>>

\* Slip: the flag is set whatever the call.
SwitchFlag_Set ==
    /\ call.step = "flag"
    /\ vec' = [vec EXCEPT ![call.h].flag = TRUE]
    /\ call' = Idle
    /\ UNCHANGED <<build, table, platformVars, kernelVars, calls, registered, crossed>>

\* then the flag.
SwitchFlag ==
    /\ call.step = "flag"
    /\ vec' = [vec EXCEPT ![call.h].flag = (call.op = "enable")]
    /\ call' = Idle
    /\ UNCHANGED <<build, table, platformVars, kernelVars, calls, registered, crossed>>

\* The irqs for which an isr's switch of h is overwritten by the main thread's
\* call: the same interface is being switched the other way; or init is about
\* to store the irq of the entry.
Overwritten(op, h) ==
    CASE call.step = "flag" /\ call.h = h /\ call.op # op -> {vec[h].irq}
      [] call.step = "store" /\ h = Len(vec) -> {vec[h].irq, table[call.h].irq}
      [] OTHER -> {}

\* An enabled interrupt arrives at any point, and its isr switches an
\* interrupt on or off in one go.
IsrSwitches ==
    /\ IsrRuns
    /\ \E h \in DOMAIN vec, op \in {"enable", "disable"} :
         /\ Changes(op, h)
         /\ Switch(op, vec[h].irq)
         /\ vec' = [vec EXCEPT ![h].flag = (op = "enable")]
         /\ crossed' = crossed \cup Overwritten(op, h)
    /\ UNCHANGED <<build, table, platformVars, connected, call, calls, registered>>

\* While the vector is resized, realloc has copied the entries and the isr
\* still finds the old ones: the kernel is switched, the flag is lost.
IsrStoreLost ==
    /\ IsrRuns
    /\ AtDevice(1)
    /\ \E h \in DOMAIN vec, op \in {"enable", "disable"} :
         /\ Changes(op, h)
         /\ Switch(op, vec[h].irq)
         /\ crossed' = crossed \cup {vec[h].irq}
    /\ UNCHANGED <<build, table, vec, platformVars, connected, call, calls, registered>>

Next ==
    \/ InitEmpty \/ InitBegins \/ DeviceGrows \/ DeviceStores \/ DeviceIsRom
    \/ DeviceIsSecondRom \/ DeviceSkipped \/ InitEnds
    \/ InitModel \/ Cleanup
    \/ RegisterStores \/ RegisterConnects
    \/ SwitchBegins \/ SwitchKernel \/ SwitchFlag
    \/ IsrSwitches \/ IsrStoreLost

Spec == Init /\ [][Next]_vars

-----------------------------------------------------------------------------
(***************************************************************************)
(* Properties                                                              *)
(***************************************************************************)
RomsOf == {n \in DOMAIN table : table[n].type = 2}
ListedDevices == {n \in DOMAIN table : table[n].type = 1 /\ \A r \in RomsOf : r < n}

\* The first init after a cleanup that returns true lists the interfaces of the
\* ROM, if there is one, and after them every plain device that follows the ROM
\* in the table, each once, in order ("Always after DFL rom").  And init
\* returns false exactly for a table whose size is a multiple of 256, for a
\* second ROM ("Only support 1 DFL rom"), and for a ROM in every init of the
\* process but the first: s_zephyr_dfl_found outlives the cleanup that says
\* "Re-initialize local variables."
DiscoveryRight ==
    build = "device" =>
        /\ result = "true" /\ session = 1 =>
             LET roms == IF RomsOf = {} THEN 0 ELSE Len(Rom)
             IN  /\ roms <= Len(vec)
                 /\ \A k \in DOMAIN vec : vec[k].dfl <=> k <= roms
                 /\ ListedDevices = {vec[k].dev : k \in (roms + 1)..Len(vec)}
                 /\ \A k, l \in (roms + 1)..Len(vec) : k < l => vec[k].dev < vec[l].dev
        /\ result # "none" =>
             (result = "false" <=>
                \/ Len(table) % CountMod = 0 \/ Cardinality(RomsOf) > 1
                \/ RomsOf # {} /\ inits > 1)

\* Once init has returned, a 32-bit access to a listed interface reaches the
\* device itself, or the place that the ROM names, counted from the ROM's own
\* base as the sample expects.  The other widths do so for the interfaces of a
\* ROM, and for plain devices as long as no ROM has been scanned.  The
\* exception: an interface whose address the ROM gives as absolute is missed by
\* the base of the ROM, which the decoder takes off all the same.
AccessReaches ==
    build = "device" /\ call.op # "init" =>
        \A h \in DOMAIN vec :
            IF vec[h].dfl
            THEN /\ h \in DOMAIN Rom
                 /\ ~Rom[h].abs \/ dflAddr = 0 =>
                       /\ Reach(h) = Rom[h].addr % AddrMod
                       /\ Reach32(h) = Rom[h].addr % AddrMod
            ELSE /\ Reach32(h) = vec[h].base
                 /\ RomsOf = {} => Reach(h) = vec[h].base

Owners(irq) == {h \in DOMAIN vec : vec[h].irq = irq}

\* With an irq of its own, an interface's interrupt_enable agrees with the
\* kernel between the calls of the main thread, however the isrs that arrive
\* during its calls enable and disable interrupts.  The exceptions are an irq
\* left on by a cleanup, and three places where what an isr switches is
\* overwritten: the same interface, between the kernel call and the store of
\* the flag; in init, an entry that has no irq yet; and any entry, while
\* realloc moves the vector.
FlagMatchesKernel ==
    call.step = "none" =>
        \A h \in DOMAIN vec :
            LET irq == vec[h].irq
            IN  irq # NoIrq /\ Owners(irq) = {h} /\ irq \notin left \cup crossed =>
                    (vec[h].flag <=> irq \in on)

\* With an irq of its own, an interface for which fpga_register_isr returned in
\* this session has the isr it passed last connected, also when it replaced an
\* isr of this session or of an earlier one.
RegisteredIsCalled ==
    \A h \in DOMAIN registered :
        registered[h] # NoIsr /\ Owners(vec[h].irq) = {h} =>
            connected[vec[h].irq] = registered[h]

\* In the software model, with one init in each session, memory is allocated
\* exactly while the interface points to it, and while init's result was true.
ModelBufferOwned ==
    build = "model" /\ ~doubled =>
        /\ buffers = {vec[h].base : h \in DOMAIN vec}
        /\ buffers # {} <=> result = "true"
=============================================================================
