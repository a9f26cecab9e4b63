----------------------------- MODULE UioPlatform -----------------------------
(***************************************************************************)
(* Start and end of a session on the UIO platform: the argument parser,    *)
(* the checks and the resources of fpga_platform_init, its error paths,    *)
(* and fpga_platform_cleanup, over any number of sessions in one process.  *)
(* The interrupt thread itself is the subject of UioInterrupt.             *)
(*                                                                         *)
(* Numeric settings are abstracted to 0 and 1 (any accepted value above    *)
(* 0); an option is its name with the kind of value given to it: "_text"   *)
(* is no number, or zero, and "_huge" a number that does not fit a long.   *)
(***************************************************************************)
EXTENDS Integers, Sequences, Functions

CONSTANTS
    Argvs,     \* the argument lists an application passes to init
    MaxFd,     \* bound: file descriptors 0..MaxFd
    MaxCalls   \* bound: calls of fpga_platform_init

Options == {"path", "span", "span_text", "span_huge", "start", "start_text",
            "start_huge", "entry", "entry_text", "entry_huge", "single"}

ASSUME ArgvsAssumption == \A v \in Argvs : v \in Seq(Options)
ASSUME BoundsAssumption == MaxFd \in Nat /\ MaxCalls \in Nat

VARIABLES
    cfg,       \* s_uio_drv_path, s_uio_addr_span, s_uio_start_addr,
               \* s_dfl_entry_addr, s_uio_single_component_mode, and whether
               \* errno is ERANGE
    handle,    \* s_uio_drv_handle
    mmapPtr,   \* s_uio_mmap_ptr
    vecSize,   \* size of the interface vector
    owner,     \* who opened each descriptor: "free", "lib" or "app"
    status,    \* "down", "up", "failed" (init returned false) or "crashed"
    given,     \* history: options passed to init since the last cleanup, and
               \* "errno" if the application left ERANGE in errno since then
    calls      \* calls of fpga_platform_init so far

vars == <<cfg, handle, mmapPtr, vecSize, owner, status, given, calls>>

Fds == 0..MaxFd
LibFds == {f \in Fds : owner[f] = "lib"}
\* open returns the lowest descriptor that is free.
LowestFree(f) == owner[f] = "free" /\ \A g \in Fds : owner[g] = "free" => f <= g

Init ==
    /\ cfg = [path |-> "default", span |-> 0, start |-> 0, entry |-> 0,
              single |-> TRUE, erange |-> FALSE]
    /\ handle = -1 /\ mmapPtr = "null" /\ vecSize = 0
    /\ owner = [f \in Fds |-> "free"]
    /\ status = "down" /\ given = {} /\ calls = 0

-----------------------------------------------------------------------------
(***************************************************************************)
(* uio_parse_integer_arg: digits out of range set errno to ERANGE and give *)
(* 0; errno is not cleared before strtol, so an ERANGE left by an earlier  *)
(* argument, or by the application, turns a good value into 0 as well.     *)
(***************************************************************************)
IntegerArg(c) == IF c.erange THEN 0 ELSE 1

ParseOption(c, o) ==
    CASE o = "path"       -> [c EXCEPT !.path = "given"]
      [] o = "span"       -> [c EXCEPT !.span = IntegerArg(c)]
      [] o = "span_text"  -> [c EXCEPT !.span = 0]
      [] o = "span_huge"  -> [c EXCEPT !.span = 0, !.erange = TRUE]
      [] o = "start"      -> [c EXCEPT !.start = IntegerArg(c)]
      [] o = "start_text" -> [c EXCEPT !.start = 0]
      [] o = "start_huge" -> [c EXCEPT !.start = 0, !.erange = TRUE]
      [] o = "entry"      -> [c EXCEPT !.entry = IntegerArg(c)]
      [] o = "entry_text" -> [c EXCEPT !.entry = 0]
      [] o = "entry_huge" -> [c EXCEPT !.entry = 0, !.erange = TRUE]
      [] o = "single"     -> [c EXCEPT !.single = TRUE]

\* uio_parse_args: the settings an option list leaves behind.
ParseArgs(argv) ==
    LET parsed[i \in 0..Len(argv)] ==
            IF i = 0 THEN cfg ELSE ParseOption(parsed[i - 1], argv[i])
    IN  parsed[Len(argv)]

\* uio_update_based_on_sysfs: without a span, take the one sysfs has, if any;
\* a map file may hold no number, and one that cannot be opened sets errno.
WithSysfs(c) ==
    IF c.span # 0 THEN {c}
    ELSE {[c EXCEPT !.span = 1], c, [c EXCEPT !.erange = FALSE]}

\* Slip: only the span is checked.
Valid_SpanOnly(c) == c.span > 0

\* uio_validate_args
Valid(c) == c.span > 0 /\ c.path # "null"

Begin(argv) ==
    /\ status \in {"down", "failed"}
    /\ calls < MaxCalls
    /\ calls' = calls + 1
    /\ given' = given \cup Range(argv)

\* Without a path (cleanup sets it to NULL) the search for sysfs
\* dereferences it before it is validated.
InitCrashes(argv) ==
    /\ Begin(argv)
    /\ LET c == ParseArgs(argv)
       IN  c.span = 0 /\ c.path = "null" /\ cfg' = c
    /\ status' = "crashed"
    /\ UNCHANGED <<handle, mmapPtr, vecSize, owner>>

\* The settings as they are once sysfs has been consulted.
Configure(argv) ==
    LET c == ParseArgs(argv)
    IN  /\ c.span # 0 \/ c.path # "null"
        /\ cfg' \in WithSysfs(c)

InitRejected(argv) ==
    /\ Begin(argv)
    /\ Configure(argv)
    /\ ~Valid(cfg')
    /\ status' = "failed"
    /\ UNCHANGED <<handle, mmapPtr, vecSize, owner>>

\* uio_open_driver fails, which overwrites errno (goto err_open).
InitOpenFails(argv) ==
    /\ Begin(argv)
    /\ \E c \in WithSysfs(ParseArgs(argv)) :
          Valid(c) /\ cfg' = [c EXCEPT !.erange = FALSE]
    /\ handle' = -1
    /\ status' = "failed"
    /\ UNCHANGED <<mmapPtr, vecSize, owner>>

\* Slip: the error path does not close the driver.
InitMapFails_NoClose(argv) ==
    /\ Begin(argv)
    /\ \E c \in WithSysfs(ParseArgs(argv)) :
          Valid(c) /\ cfg' = [c EXCEPT !.erange = FALSE]
    /\ \E f \in Fds : LowestFree(f) /\ handle' = f /\ owner' = [owner EXCEPT ![f] = "lib"]
    /\ mmapPtr' = "failed"
    /\ status' = "failed"
    /\ UNCHANGED <<vecSize>>

\* mmap fails: the descriptor is closed, s_uio_drv_handle keeps its number.
InitMapFails(argv) ==
    /\ Begin(argv)
    /\ \E c \in WithSysfs(ParseArgs(argv)) :
          Valid(c) /\ cfg' = [c EXCEPT !.erange = FALSE]
    /\ \E f \in Fds : LowestFree(f) /\ handle' = f
    /\ mmapPtr' = "failed"
    /\ status' = "failed"
    /\ UNCHANGED <<vecSize, owner>>

\* The driver is open and mapped, and the scan has filled the vector.  In
\* single component mode the interrupt thread is created, too; should that
\* fail, init returns true all the same.
InitSucceeds(argv) ==
    /\ Begin(argv)
    /\ Configure(argv)
    /\ Valid(cfg')
    /\ \E f \in Fds : LowestFree(f) /\ handle' = f /\ owner' = [owner EXCEPT ![f] = "lib"]
    /\ mmapPtr' = "mapped"
    /\ vecSize' = 1
    /\ status' = "up"

\* What cleanup leaves of the settings (s_dfl_entry_addr is not reset).
\* Slip: the start address stays as well.
ResetSettings_KeepStart(c) ==
    [c EXCEPT !.path = "null", !.span = 0, !.single = FALSE, !.erange = FALSE]

ResetSettings(c) ==
    [c EXCEPT !.path = "null", !.span = 0, !.start = 0, !.single = FALSE,
              !.erange = FALSE]

\* Slip: the handle keeps its number.
Cleanup_KeepHandle ==
    /\ status \in {"up", "failed"}
    /\ owner' = IF handle >= 0 THEN [owner EXCEPT ![handle] = "free"] ELSE owner
    /\ cfg' = ResetSettings(cfg)
    /\ mmapPtr' = "null"
    /\ vecSize' = 0
    /\ status' = "down"
    /\ given' = {}
    /\ UNCHANGED <<handle, calls>>

\* fpga_platform_cleanup, after a session or after an init that failed.
Cleanup ==
    /\ status \in {"up", "failed"}
    /\ owner' = IF handle >= 0 THEN [owner EXCEPT ![handle] = "free"] ELSE owner
    /\ cfg' = ResetSettings(cfg)
    /\ handle' = -1
    /\ mmapPtr' = "null"
    /\ vecSize' = 0
    /\ status' = "down"
    /\ given' = {}
    /\ UNCHANGED calls

-----------------------------------------------------------------------------
\* The application opens and closes descriptors of its own.
AppOpen ==
    /\ status # "crashed"
    /\ \E f \in Fds : LowestFree(f) /\ owner' = [owner EXCEPT ![f] = "app"]
    /\ UNCHANGED <<cfg, handle, mmapPtr, vecSize, status, given, calls>>

AppClose ==
    /\ status # "crashed"
    /\ \E f \in Fds : owner[f] = "app" /\ owner' = [owner EXCEPT ![f] = "free"]
    /\ UNCHANGED <<cfg, handle, mmapPtr, vecSize, status, given, calls>>

\* A call that the application makes leaves its errno, ERANGE or another.
AppErrno ==
    /\ status # "crashed"
    /\ \E e \in BOOLEAN :
         /\ cfg' = [cfg EXCEPT !.erange = e]
         /\ given' = IF e THEN given \cup {"errno"} ELSE given
    /\ UNCHANGED <<handle, mmapPtr, vecSize, owner, status, calls>>

Next ==
    \/ \E argv \in Argvs :
         \/ InitCrashes(argv) \/ InitRejected(argv) \/ InitOpenFails(argv)
         \/ InitMapFails(argv) \/ InitSucceeds(argv)
    \/ Cleanup
    \/ AppOpen \/ AppClose \/ AppErrno

Spec == Init /\ [][Next]_vars

-----------------------------------------------------------------------------
(***************************************************************************)
(* Properties                                                              *)
(***************************************************************************)
\* The library has its driver descriptor open exactly during a session: an
\* init that fails at any point gives back what it opened, and so does
\* cleanup.
DescriptorBalance == LibFds = IF status = "up" THEN {handle} ELSE {}

\* What makes the parser turn a span into 0.
SpanSpoilers == {"span_text", "span_huge", "start_huge", "entry_huge", "errno"}

\* Every init that returns true, whatever failed calls and sessions came
\* before, leaves a validated configuration, a mapping and an interface.  The
\* NULL path that cleanup leaves is dereferenced only by an init of a later
\* session to which no path was given, nor a span, unless the span is one that
\* the parser turns into 0.  In these cases init does crash, against
\* uio/README.md:15, "UIO driver path (default: /dev/uio0)", and the unit test
\* should_deal_with_null_argument, which expects false (in the build without
\* sysfs).
InitOutcome ==
    /\ status = "up" =>
         /\ cfg.path # "null" /\ cfg.span > 0
         /\ mmapPtr = "mapped" /\ vecSize > 0
    /\ status = "crashed" =>
         /\ calls > 1 /\ "path" \notin given
         /\ "span" \in given => given \cap SpanSpoilers # {}

\* A path or a start address in force was passed to init since the last
\* cleanup: none survives from an earlier session.
NoStaleArguments ==
    /\ cfg.path = "given" => "path" \in given
    /\ cfg.start # 0 => "start" \in given

\* The descriptor that cleanup is going to close is the library's own, so that
\* it never closes one of the application's, except after an init that failed
\* to map the driver and closed it already.
CleanupClosesOwn ==
    handle >= 0 => owner[handle] = "lib" \/ mmapPtr = "failed"
=============================================================================
