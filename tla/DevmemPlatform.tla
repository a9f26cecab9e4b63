--------------------------- MODULE DevmemPlatform ---------------------------
(***************************************************************************)
(* Start and end of a session on the devmem platform,                      *)
(* devmem/src/intel_fpga_platform_api_devmem.c: arguments, validation,     *)
(* opening and mapping /dev/mem at a page boundary, the address from which *)
(* interfaces are found, the error paths and cleanup, over any number of   *)
(* sessions in one process.                                                *)
(*                                                                         *)
(* An option is [opt, val]; a value is the number that its digits denote,  *)
(* however large, or Text when they are not all digits.                    *)
(***************************************************************************)
EXTENDS Integers, Sequences

CONSTANTS
    Argvs,     \* the argument lists an application passes to init
    Text,      \* the value of an argument that is not a number
    Page,      \* 4096: ~MASK_4K_ADDR + 1
    MaxLong,   \* LONG_MAX
    MapBase,   \* where mmap places the mapping
    TaskSize,  \* the end of the process's addresses
    AppPages,  \* first addresses of the pages that the rest of the process uses
    MaxCalls   \* bound: calls of fpga_platform_init

Names == {"path", "span", "start", "entry", "single"}
SizeMod == 2 * (MaxLong + 1)      \* size_t wraps at this value

ASSUME PageAssumption == Page \in Nat \ {0}
ASSUME MapAssumption == MapBase \in Nat \ {0} /\ MapBase % Page = 0
ASSUME AppAssumption == TaskSize \in Nat /\ AppPages \subseteq Nat
ASSUME BoundsAssumption == MaxLong \in Nat /\ MaxCalls \in Nat
ASSUME ArgvsAssumption ==
    \A v \in Argvs : v \in Seq([opt : Names, val : Nat \cup {Text}])

VARIABLES
    cfg,      \* s_devmem_addr_span, s_devmem_start_addr, s_dfl_entry_addr,
              \* s_devmem_single_component_mode; whether errno is ERANGE
    handle,   \* s_devmem_drv_handle is not -1
    fdOpen,   \* the driver is open
    mmapPtr,  \* s_devmem_mmap_ptr: 0 for NULL, -1 for MAP_FAILED
    mapping,  \* the live mapping: its length, and its offset in the driver
    pages,    \* the pages of the rest of the process that are still mapped
    base,     \* base_address of entry 0, or the first DFH address in DFL mode
    vecSize,  \* size of the interface vector
    status,   \* "down", "up" or "failed" (init returned false)
    given,    \* history: options passed to init since the last cleanup
    sweptTo,  \* history: the most that a cleanup was asked to unmap at NULL,
              \* after an init that failed before it mapped the driver
    calls     \* calls of fpga_platform_init so far

vars == <<cfg, handle, fdOpen, mmapPtr, mapping, pages, base, vecSize, status,
          given, sweptTo, calls>>

NoMapping == [len |-> 0, off |-> 0]
PageOffset(a) == a % Page
RoundUp(n) == ((n + Page - 1) \div Page) * Page

Init ==
    /\ cfg = [span |-> 0, start |-> 0, entry |-> 0, single |-> TRUE, erange |-> FALSE]
    /\ handle = FALSE /\ fdOpen = FALSE
    /\ mmapPtr = 0 /\ mapping = NoMapping /\ base = 0 /\ vecSize = 0
    /\ pages = AppPages /\ sweptTo = 0
    /\ status = "down" /\ given = {} /\ calls = 0

-----------------------------------------------------------------------------
\* devmem_parse_integer_arg: the value, and the errno it leaves.  errno is
\* not cleared before strtol, so an earlier ERANGE spoils a good value.
IntegerArg(c, v) ==
    IF v = Text \/ c.erange \/ v > MaxLong THEN 0 ELSE v

LeavesErange(c, v) == c.erange \/ (v # Text /\ v > MaxLong)

\* The switch of devmem_parse_args.  An entry address turns DFL mode on.
ParseOption(c, o) ==
    LET n == IntegerArg(c, o.val)
        d == [c EXCEPT !.erange = LeavesErange(c, o.val)]
    IN  CASE o.opt = "span"   -> [d EXCEPT !.span = n]
          [] o.opt = "start"  -> [d EXCEPT !.start = n]
          [] o.opt = "entry"  -> [d EXCEPT !.entry = n, !.single = FALSE]
          [] o.opt = "single" -> [c EXCEPT !.single = TRUE]
          [] o.opt = "path"   -> c

\* devmem_parse_args: the settings an option list leaves behind.
ParseArgs(argv) ==
    LET parsed[i \in 0..Len(argv)] ==
            IF i = 0 THEN cfg ELSE ParseOption(parsed[i - 1], argv[i])
    IN  parsed[Len(argv)]

\* Slip: the end of the range is accepted.
Valid_EndIncluded(c) ==
    /\ c.span > 0 /\ c.start > 0
    /\ ~c.single => /\ c.entry >= c.start
                    /\ c.entry <= (c.start + c.span) % SizeMod

\* devmem_validate_args
Valid(c) ==
    /\ c.span > 0 /\ c.start > 0
    /\ ~c.single => /\ c.entry >= c.start
                    /\ c.entry < (c.start + c.span) % SizeMod

Begin(argv) ==
    /\ status \in {"down", "failed"}
    /\ calls < MaxCalls
    /\ calls' = calls + 1
    /\ given' = given \cup {argv[i].opt : i \in 1..Len(argv)}
    /\ UNCHANGED <<pages, sweptTo>>

InitRejected(argv) ==
    /\ Begin(argv)
    /\ cfg' = ParseArgs(argv)
    /\ ~Valid(cfg')
    /\ status' = "failed"
    /\ UNCHANGED <<handle, fdOpen, mmapPtr, mapping, base, vecSize>>

\* devmem_open_driver fails, and open sets errno.
InitOpenFails(argv) ==
    /\ Begin(argv)
    /\ Valid(ParseArgs(argv))
    /\ cfg' = [ParseArgs(argv) EXCEPT !.erange = FALSE]
    /\ handle' = FALSE
    /\ status' = "failed"
    /\ UNCHANGED <<fdOpen, mmapPtr, mapping, base, vecSize>>

\* devmem_map_mmio fails: the driver is closed, its handle is kept.
InitMapFails(argv) ==
    /\ Begin(argv)
    /\ Valid(ParseArgs(argv))
    /\ cfg' = [ParseArgs(argv) EXCEPT !.erange = FALSE]
    /\ handle' = TRUE
    /\ mmapPtr' = -1
    /\ status' = "failed"
    /\ UNCHANGED <<fdOpen, mapping, base, vecSize>>

\* Slip: the offset in the page is taken off the length.
Map_Shorter(c) ==
    [len |-> RoundUp(c.span - PageOffset(c.start)), off |-> c.start - PageOffset(c.start)]

\* devmem_map_mmio asks for span bytes from the page of the start address;
\* the kernel maps whole pages.
Map(c) == [len |-> RoundUp(c.span), off |-> c.start - PageOffset(c.start)]

\* Slip: the offset of the start address in its page is left out.
FirstAddress_AtPage(c) ==
    IF c.single THEN MapBase ELSE MapBase + (c.entry - c.start)

\* devmem_scan_interfaces: base_address, or where the DFL walk begins.
FirstAddress(c) ==
    IF c.single THEN MapBase + PageOffset(c.start)
    ELSE MapBase + (c.entry - c.start) + PageOffset(c.start)

\* mmap finds n bytes that nobody uses, at MapBase.
Room(n) ==
    /\ MapBase + n <= TaskSize
    /\ \A a \in pages : a + Page <= MapBase \/ MapBase + n <= a

InitSucceeds(argv) ==
    /\ Begin(argv)
    /\ cfg' = ParseArgs(argv)
    /\ Valid(cfg') /\ Room(RoundUp(cfg'.span))
    /\ handle' = TRUE /\ fdOpen' = TRUE
    /\ mmapPtr' = MapBase
    /\ mapping' = Map(cfg')
    /\ base' = FirstAddress(cfg')
    /\ vecSize' = 1
    /\ status' = "up"

\* devmem_dfl_base_addr_decoder: the address printed for an interface.
Decode(a) == a - mmapPtr - PageOffset(cfg.start) + cfg.start

-----------------------------------------------------------------------------
\* Slip: the mode is not reset.
ResetSettings_KeepMode(c) == [c EXCEPT !.span = 0, !.start = 0, !.erange = FALSE]

\* What cleanup leaves of the settings; the entry address stays, and so does
\* the driver path, which is not modelled.
ResetSettings(c) ==
    [c EXCEPT !.span = 0, !.start = 0, !.single = TRUE, !.erange = FALSE]

\* The addresses that munmap frees: whole pages.  It refuses MAP_FAILED, an
\* empty range and one that leaves the address space; NULL is no exception.
Munmap(ptr, len) ==
    IF ptr < 0 \/ len = 0 \/ ptr + RoundUp(len) > TaskSize THEN {}
    ELSE ptr..(ptr + RoundUp(len) - 1)

\* Slip: the settings are reset before the region is unmapped.
Unmap_AfterReset == Munmap(mmapPtr, ResetSettings(cfg).span)

\* munmap(s_devmem_mmap_ptr, s_devmem_addr_span)
Unmap == Munmap(mmapPtr, cfg.span)

\* fpga_platform_cleanup, after a session or after an init that failed.
Cleanup ==
    /\ status \in {"up", "failed"}
    /\ pages' = pages \ Unmap
    /\ mapping' = IF MapBase..(MapBase + mapping.len - 1) \subseteq Unmap
                  THEN NoMapping ELSE mapping
    /\ sweptTo' = IF status = "failed" /\ mmapPtr = 0 /\ RoundUp(cfg.span) > sweptTo
                  THEN RoundUp(cfg.span) ELSE sweptTo
    /\ fdOpen' = (fdOpen /\ ~handle)
    /\ cfg' = ResetSettings(cfg)
    /\ handle' = FALSE
    /\ mmapPtr' = 0
    /\ vecSize' = 0 /\ base' = 0
    /\ status' = "down"
    /\ given' = {}
    /\ UNCHANGED calls

\* A call that the application makes leaves its errno, ERANGE or another.
AppErrno ==
    /\ \E e \in BOOLEAN : cfg' = [cfg EXCEPT !.erange = e]
    /\ UNCHANGED <<handle, fdOpen, mmapPtr, mapping, pages, base, vecSize, status,
                   given, sweptTo, calls>>

Next ==
    \/ \E argv \in Argvs :
         \/ InitRejected(argv) \/ InitOpenFails(argv)
         \/ InitMapFails(argv) \/ InitSucceeds(argv)
    \/ Cleanup
    \/ AppErrno

Spec == Init /\ [][Next]_vars

-----------------------------------------------------------------------------
(***************************************************************************)
(* Properties                                                              *)
(***************************************************************************)
\* The address in the driver that a virtual address denotes.
Physical(a) == a - mmapPtr + mapping.off

\* The driver is open and mapped exactly during a session: every failing init
\* and every cleanup gives back both, whatever was tried before, and nothing of
\* the rest of the process.  One exception: after an init that failed before it
\* mapped the driver, cleanup calls munmap with NULL and the span that was
\* given, and takes the pages below it from the process.
ResourcesBalance ==
    /\ fdOpen <=> status = "up"
    /\ mapping # NoMapping <=> status = "up"
    /\ \A a \in AppPages \ pages : a < sweptTo

\* Through the page arithmetic of map and scan, the first address accessed
\* denotes the start address, or the DFL entry address in DFL mode, and the
\* decoder reports it as such.
FirstAddressRight ==
    status = "up" =>
        LET asked == IF cfg.single THEN cfg.start ELSE cfg.entry
        IN  Physical(base) = asked /\ Decode(base) = asked

\* A DFL walk starts inside the range that the arguments describe, although
\* its end is computed modulo the size of size_t.
EntryInRange ==
    status = "up" /\ ~cfg.single =>
        cfg.entry \in cfg.start..(cfg.start + cfg.span - 1)

\* Settings are those of this session: DFL mode, a span and a start address
\* were asked for since the last cleanup, and an entry address selects DFL
\* mode unless single component mode was asked for as well.
SettingsOfSession ==
    /\ ~cfg.single => "entry" \in given
    /\ cfg.span # 0 => "span" \in given
    /\ cfg.start # 0 => "start" \in given
    /\ "entry" \in given /\ "single" \notin given => ~cfg.single

\* The mapping covers the range of --start-address and --address-span, except
\* for as many bytes at its end as the start address lies inside a page: all of
\* it for a start address on a page boundary.
RangeMapped ==
    status = "up" =>
        /\ mapping.off <= cfg.start
        /\ cfg.start + cfg.span - PageOffset(cfg.start) <= mapping.off + mapping.len
=============================================================================
