# FPGA IP Access Library: specifications

TLA+ models of the library under `src/fpga_ip_access_lib`, checked with TLC on
small instances and, but for the liveness properties, proved
with TLAPS for all of them.

## The system

An application links one *platform* (UIO, devmem or Zephyr) with the common
code. `fpga_platform_init` parses arguments, maps the FPGA's registers and fills
the *interface vector*; the application claims an interface with `fpga_open` or
`fpga_interrupt_open`, reads and writes its registers and, on UIO and Zephyr,
registers an interrupt service routine; `fpga_platform_cleanup` undoes the
init. All state is in file statics.

| Component | State | Operations | What makes it correct |
|---|---|---|---|
| Interface vector (`common/src/intel_fpga_api_cmn_inf.c`) | array, size, reserved length, claim flags, parameter blocks | reserve, resize, open, close | fresh entries are zero, no leak or double free, exclusive claims |
| DFL walker (`common/src/intel_fpga_api_cmn_dfl.c`) | interface count and index, parent stack, recursion, parameter blocks | two walks over a nested Device Feature List | the walks agree, every interface once for each branch that leads to it, with the fields and parameters of its header, right parents, stack in bounds, termination |
| UIO interrupts (`uio/src/*.c`) | entry 0 of the vector, semaphore, read/write lock, exit flag, thread | register, enable, disable, the thread's loop, start and stop | no use after free, no lost wakeup, cleanup ends, interrupts are served |
| UIO start and end (`uio/src/intel_fpga_platform_api_uio.c`) | settings, descriptor, mapping, errno | init with every error path, cleanup | resources balance, nothing stale in the next session |
| Devmem platform | as UIO, with page arithmetic | init, cleanup | as UIO, and the range that is mapped |
| Zephyr platform (`zephyr/src/*.c`) | device table, ROM address, kernel interrupts | init, cleanup, register, enable, disable | the devices listed once and reached, flags and kernel agree |
| MMIO access (`*/inc/intel_fpga_api_*.h`) | the register, and the call under way | reads and writes of 8 to 512 bits | what a read returns when accesses are split |
| Messages and exceptions (`common/src/intel_fpga_api_cmn_msg.c`) | handlers | register, throw, print | a failed allocation ends in the handler |

They interact by direct calls on shared statics: the walker and both platforms
resize and fill the vector, the interrupt thread reads entry 0 of it without a
lock, and a failed allocation ends the process through the default exception
handler, or goes on when the application registered a handler that returns.
What is hard: the interrupt thread racing with registration, disabling and
cleanup; claims and wide register accesses without a lock; isrs that preempt
a call on Zephyr; state kept between sessions; failures half-way through init;
the recursion's hand-made stack and the ROM's block sizes. `PROJECT.json` lists these hazards line by line.

## Modules

| Module | Models |
|---|---|
| `VectorAbs` | the vector promised by `intel_fpga_api_cmn_inf.h` ("C++ vector semantics") |
| `InterfaceVec` | the array code and the claims; refines `VectorAbs` |
| `InterfaceVecProofs` | its inductive invariant, safety and refinement proofs |
| `UioInterrupt` | the UIO interrupt thread, its API and its shutdown |
| `UioInterruptProofs` | its inductive invariant and safety proofs |
| `DflWalker` | the two walks, the parent stack, repeated scans |
| `DflEntry` | ROM words to entries: bit fields, addresses, parameter blocks and their memory, failing allocations |
| `MmioAccess` | one register read and written by two threads, or counting by itself |
| `ZephyrPlatform` | discovery, register addresses, interrupts and sessions on Zephyr |
| `UioPlatform` | init, its error paths, and cleanup over several sessions |
| `DevmemPlatform` | init, page arithmetic, error paths and cleanup of the devmem platform |
| `UioPlatformProofs`, `DevmemPlatformProofs`, `MmioAccessProofs`, `DflWalkerProofs`, `DflEntryProofs`, `ZephyrPlatformProofs` | the inductive invariant and the safety proofs of each |
| `MC*` | instances and configurations for TLC |

Operators whose name has a suffix after an underscore (`OpenTest_NoTest`) are slips:
plausible errors in the operator that follows them. None is part of a
specification; each is the error that the property it belongs to detects.

**InterfaceVec.** An entry is the set of its claim flags and the set of heap
blocks its `parameters` pointer reaches. `reserve` is given by its effect on each
variable (`ReserveVec`, `ReserveReserved`, `ReserveSize`, `ReserveHeap`); `resize`
is the same followed by the new size. An open is two steps, the test of the flag
and its store, since nothing locks it; `pending` holds the calls in between and
`raced` remembers which claims two calls were after at once. For those the code
gives both callers the claim; `ExclusiveClaim` and `FlagMatchesClaim` say that
nothing else ever breaks one. `held` records who holds which claim. `reserve` and
`resize` run in init and cleanup, while no thread is in an open. Claims on entries that a
shrink removes are void, and a client closes only claims it holds, as the API
asks. `reserve` below the size truncates, unlike a C++ vector's; the refinement
maps it to a resize.

**UioInterrupt.** One action per access to shared state. Threads are described
by a program counter (`apc`, `tpc`). Entry 0 has no lock, so `fpga_register_isr`
is two steps, and the two loads of the isr call (whose order C leaves open) are
two more. The lock's critical sections are modelled with the lock. The device is
level-triggered and the UIO driver masks an interrupt when it fires, counts an
event, and unmasks on a write of 1; a new descriptor starts from the current
count. These are assumptions on code outside the repository. `late` is a history
variable counting isr calls begun since `interrupt_enable` fell. A join of a
thread already joined is undefined; the model lets it return (other outcomes end
the behaviour). Descriptor 0 is kept apart (`zero`): the application may close its
standard input at any time, `open` then returns 0 to the driver's init or to the
thread, and the loop's last `close` skips it. Descriptors above 0 that the thread
has open are counted (`above`). One simplification: the locks in cleanup do not fail.

**DflWalker.** A list is abstracted to its tree: the next node of each node and
its parameter blocks, a block being a branch target or 0. `frames` is the C call
stack, with the tail call to the next interface replacing its caller. The parent
stack keeps its array, its `top` starting at 0 (the object is zero-initialised,
not set to `DFH_PARENT_STACK_default`) and the growth test made before `top`
moves; a store past the array is lost and a load past it returns anything.
A node is one way to reach a header: when several branches open the same level, as
in the lists of `common/test/utst/intel_fpga_api_hier_dfl_test.cpp:878-956`, the walk
goes through it once for each, and the tests expect its interfaces that often. `at`
names the header of a node, and `HeadersAssumption` says that what follows from a
header does not depend on the way to it. The ways form a tree (`TreesAssumption`):
they are numbered so that links go upwards, and every one but the first is the target
of one link. A cyclic list or a zero block length makes the code loop for ever, and
is left out. `LevelStart`, `BranchOwner` and `Depth` are the reference reading of the
list, independent of the walk.

**DflEntry.** `Image` lays a list out in words as the hardware generator does, and
the getters cut the words up again with the widths of their fields as constants
(the code's 16, 23 and 64 bits are 2, 9 and 12 in the run, so that words fit
TLC's integers). `ListsAssumption` says what a generator can lay out: every value
fits its field, a register space begins at an even address (its lowest bit is the
flag of absolute addresses), the distance to the next header fits the field for it,
and parameters that do not end with an empty block end with one that has data.
`Pow2` is 2^n, as a recursive function. The parameter loop of `set_parameter_properties` is one action
per iteration: `InnerBlock` (which makes room for the next block at once),
`LastBlock`, `EndOfParams`. Heap blocks are named by the pointer they were stored
in. Every allocation may fail; `Throw` then ends the process, or goes on where
the code would when the application's handler returns. A `malloc(0)` succeeds.
Lists have one level; nesting is `DflWalker`'s.

**MmioAccess.** An access is a sequence of beats (bus accesses): one up to 64
bits, two for 64 bits with `FPGA_PLATFORM_FORCE_64BIT_MMIO_EMULATION_WITH_32BIT`,
eight or sixteen for 512 bits. The three platforms have the same loops. `ver` and
`gver` are history: which write each beat comes from. A counter register is
advanced by the device as a whole.

**ZephyrPlatform.** init is a step for each device of the generated table, and two
for a plain one (`DeviceGrows`, `DeviceStores`): in between its entry is zeroed, and an
irq that an earlier session left on may preempt init there. The number of devices is
cut to `CountMod` values, a `uint8_t` in the code. A ROM's entries are what the walker
leaves (zeroed, hence irq 0), at an address that is absolute or a signed distance from
the ROM; addresses wrap. A ROM is scanned in the first init only, when no irq is on
yet, so that this is one step. Calls for interrupts are split at the kernel call, and
an isr may run at each split and call enable or disable itself, on the same interface
too. `IsrStoreLost` is an isr that runs while `realloc` moves the vector, after the
entries were copied. In cleanup, an isr may see the entries zeroed and their number not
yet. The kernel's connected isrs and enabled irqs outlive sessions. `crossed` remembers
the irqs that an isr switched where the main thread overwrites what it stored. `Reach`
and `Reach32` are the addresses that accesses go to; with the emulation, 64-bit accesses
go the way of 32-bit ones. The build with the software model is the other half of the
state space. The single component mode that nothing can select is left out. The
model's memory allocation is taken to succeed (its result is not tested).

**UioPlatform.** Settings are records with numbers abstracted to 0 and 1; each
option is its name and kind of value: good, text, or out of range, for the span, the
start and the entry address alike. `errno` is kept as far as it is `ERANGE`, since
`strtol`'s result is judged by an errno nobody clears; the application may leave it
so as well (`AppErrno`). Every way through
init is an action; the application opens and closes descriptors of its own, and
the kernel returns the lowest free one.

**DevmemPlatform.** The same life cycle with numbers kept: pages have `Page`
bytes, arguments above `MaxLong` are refused as `strtol` does, and `size_t` wraps
at twice that. `mapping` is what the kernel has mapped (whole pages, from an
offset in the driver), so that "the address asked for" can be compared with the
address reached. `pages` are those that the rest of the process has mapped: `munmap`
frees whatever lies in its range, at NULL too, where cleanup calls it after an init
that failed before it mapped the driver. In DFL mode `base` is the address where the walk begins. The
driver path is left out: cleanup does not reset it and no decision depends on it.

## Runs

| Run | States | Shows |
|---|---|---|
| `interface_vec` | 409875 | claims, tail, heap and refinement, with 2 clients, 3 blocks, 2 interfaces |
| `uio_interrupt` | 1315975 | safety of the thread, 2 threads, 2 registrations, 2 sessions, failing calls, any mode, descriptor 0 open or not |
| `uio_interrupt_live` | 94954 | cleanup ends, interrupts are served, contexts match |
| `dfl_walker` | 12776 | every list of at most 4 interfaces and the unit tests' four lists with shared levels (15 to 35 entries), scanned twice, stack increment 4 |
| `dfl_entry` | 38204 | lists of 1 and 2 interfaces with up to 3 parameter blocks, scanned twice, any allocation failing |
| `mmio` | 1010096 | 1 to 4 beats of 4 values, 3 writes or advances, 2 reads |
| `uio_platform` | 133872 | 3 inits with every option, a value out of range before every other option, and complete lists, 2 descriptors |
| `devmem_platform` | 39522 | 3 inits with ranges and entries around a page boundary and `LONG_MAX`, 2 pages of the process |
| `zephyr_platform` | 1991569 | 7 device tables and the software model, 3 inits, 3 calls, any number of isrs |
| `uio_torn_isr` | violation | re-registration pairs an isr with another's context |
| `uio_join_twice` | violation | a thread is joined again in a later session |
| `dfl_two_branches` | violation | the second branch of an interface gets a wrong parent |

Bounds. Two interfaces allow a shrink that keeps one entry and frees and later
re-exposes another, and two clients any conflict of claims (the proofs lift both
bounds). Two application threads suffice for a registration, enable or disable racing
with another and with cleanup; two sessions are what stale state needs. Four
interfaces reach every shape of siblings, nesting and two branches, and the
increment 4 (8 in the code) makes the stack's boundary reachable with them; two scans reuse the stack. The lists with shared levels have the
size they have in the tests, and `ExpectedSizes` compares their number of entries with
the tests'. Two descriptors let the application take the number the
library has just closed; options given one by one to inits that fail add up, so that
short lists give every combination. Pages of 4 bytes and a `LONG_MAX` of 31 put values below,
on and above every boundary of the devmem arithmetic, and the end of the address space
at 20 makes large spans fail; of the process's two pages one lies below the mapping
and one above. The ROM images of
`dfl_entry` have each way to end a parameter list, blocks without data, and
addresses that wrap; two scans free what the first one made. Three writes with
two beats let a reader fall a whole write behind, and four beats show that the
argument does not depend on halves; fewer advances than a full turn of a beat
keep the counter's wrap-around apart from its carries. Device tables have a ROM
first, a ROM between devices, two ROMs, a shared irq and none, no device, or as many
as `CountMod` (5; 256 in the code); the ROM has an address behind its own base and an
absolute one; three inits give two sessions and a repeated init. Deadlock is not checked: every model may stop, at its
bound of sessions, scans or calls, or when the process ends.

Fairness. A thread inside a library call and the interrupt thread keep running
(weak fairness): they are ordinary POSIX threads and an isr is taken to return.
The writer that sets the exit flag gets the lock (strong fairness): the reader
holds it for one load and then polls or sleeps without it. Nothing obliges the
application to make a call or the device to interrupt. The liveness run has no
failing system calls: one ends the thread, after which nothing is served.

## Findings

The violation runs show where the code departs from its documentation:

* `handle_branch_param_id` pushes the index visited last, not its own
  interface's, so only the first branch of an interface gets the right parent
  (`FirstBranchParent` holds, `ParentIsOwner` does not).
* `fpga_register_isr` is not atomic with respect to the interrupt thread.
* `s_intThread_id` is never reset and is joined again by a session in DFL mode.

The exceptions that other properties allow for are behaviours of the code, too:

* Two overlapping calls of `fpga_open` both obtain the interface (`raced`).
* UIO: when the standard input is closed, the thread leaves descriptor 0 open, once: it
  is taken from then on (`NoDescriptorLeak`). A failed `mmap` closes the driver and keeps its descriptor number, which
  cleanup closes again (`CleanupClosesOwn`); cleanup sets the driver path to NULL,
  and the next init without a path or a usable span passes it to `strrchr` and
  crashes (`InitOutcome`). `uio/README.md:15` says "UIO driver path (default:
  /dev/uio0)", and the unit test `should_deal_with_null_argument` expects false, in a
  build that does not look into sysfs. A span is unusable also when an earlier option
  was out of range, or when the application left `ERANGE` in `errno`. Devmem keeps
  the closed descriptor as well.
* Devmem: cleanup after a rejected init, or one that could not open the driver, calls
  `munmap(NULL, span)`, which takes away what the process has below `span`
  (`ResourcesBalance`, `sweptTo`).
* Devmem maps `span` bytes from the start of the page, so a range that starts
  inside a page can be cut short by its offset in the page (`RangeMapped`).
* Zephyr: devices before a ROM in the table are dropped, a table of 256 devices
  counts as empty, and a ROM makes every init of the process but the first fail, though
  the cleanup in between says "Re-initialize local variables."
  (`zephyr/src/intel_fpga_platform_api_zephyr.c:117`, `DiscoveryRight`); accesses
  of 8, 16 and 64 bits to a plain device go to its base minus the ROM's address, and
  all accesses to an interface that the ROM gives an absolute address go to that address
  minus the ROM's (`AccessReaches`); cleanup leaves irqs enabled, an isr that
  switches its interrupt back within a call leaves the flag wrong, and so does one
  that preempts init where it has an entry to fill in, or `realloc` is moving the
  vector (`FlagMatchesKernel`); the entries of a ROM all
  have irq 0, so that they share it (`Owners`); a second init without a cleanup
  loses the software model's memory (`ModelBufferOwned`).
* A level that two branches open is listed twice, as the unit tests expect
  (`ListedPerBranch`).
* A handler that returns from an exception leads to a NULL dereference
  (`CrashOnlyAfterReturn`).

Also seen, with no property: lists nested eight levels deep store one
past the parent stack (the bound in `StackInBounds` and `FirstBranchParent`);
`fpga_enable_interrupt` without an isr returns 0, on UIO and on Zephyr, and on UIO
the first interrupt then ends the thread; init returns true when the thread could
not be created; cleanup neither unmaps the UIO region nor resets the DFL entry
address; the offset of the next header is cut to 23 bits, where the unit test of
the parameter blocks uses 24; a parameter block without data throws where
`malloc(0)` returns NULL; on Zephyr a failed `syscon_read_reg` returns an
uninitialised value, and 32-bit accesses to the software model use a NULL device.

## Proofs

Every safety invariant that a run checks is also a theorem, `Spec => []P`, for
every value of the constants: any number of clients, devices, sessions, calls and
scans, any list, tree or table. Each proof module has an inductive invariant
`IInv`, a lemma for each action that changes something it speaks of, and the
theorems that read the properties off it.

Assumptions on constants are only those named in the modules. Most say that bounds
are naturals and that arguments, tables and lists have their types; those with
content are `TreesAssumption`, `HeadersAssumption` and `ListsAssumption` (above),
`MapAssumption` (`mmap` returns page boundaries), `RomAssumption` (an absolute address
is an address), and one that the theorem `CounterReadsRight`
states itself: fewer advances than a full turn of the register, 2^64 in the code.

Induction over data. Several proofs need to know what a loop or a recursive
definition computes. `NatSetInduction` gets induction for a set of numbers from
the library's theorem that they are well-founded. A recursive function is first
shown to exist (a function on `0..n` that satisfies the equation, by induction on
`n`), which makes its `CHOOSE` satisfy the equation too; what it computes follows
by a second induction. `ParseArgs`, `Weight`, `Join`, `LevelStart`,
`Depth` and `Pow2` are written as recursive functions for this reason; the library's
`FlattenSeq` is defined with one.

*InterfaceVecProofs.* The inductive invariant `IInv` joins the five safety
properties with the types, `ClaimsBelowSize` and `PendingFresh` (a call between
its test and its store still finds the flag clear, and is alone, unless the
claim is in `raced`). They need each other: a growth
within the reserved length turns tail slots into entries, so flags and heap stay
right only because the tail is zero and no claim lies in it; a shrink frees
exactly the unreachable blocks only because no block is shared. `LengthChange`
treats reserve and resize together. Results: `TypeCorrect`; `TailSafe`, `HeapSafe`,
`BlocksSafe`, `ClaimSafe` and `FlagSafe`, one for each property; and
`Refinement` (`Spec => RefinesVector`, with `ResizeRefines` and `AssignRefines`
for the two abstract operations).

*UioInterruptProofs.* `IInv` adds to the types: a running thread has a session or
a cleanup still to join it (`ThreadHasSession`, `CleanupIsDown`); the lock makes
the flag the thread read current when it releases it (`LockOwned`), so the exit
flag concerns a thread only after cleanup set it (`ExitRequested`); a thread past
its checks finds a post or one is coming (`WakeupPending`); after a late isr the
thread cannot reach the polling part again (`LateOnce`). Results: `TypeCorrect`,
`ShutdownSafe`, `ExitSafe`, `DescriptorSafe`, `WakeupSafe`, `LateIsrBounded`, and
`ContextSafe`, which shows that registering once before enabling is a sufficient discipline. `FlagsOK` and
`ValuesOK` split the type invariant because different provers handle the two.

*UioPlatformProofs* and *DevmemPlatformProofs.* `Fit` relates the settings to the
options given since the last cleanup; that a parse of any list of options keeps
it is an induction over the list. UIO adds `HandleOwned` (whose the number in
`handle` is, also after the failed `mmap` that leaves it behind) and that before
the first call there is a path and no session; devmem adds `UpConsistent` (in a
session, `base`, `mapping` and the vector are what the settings give) and lemmas
on page arithmetic (`PageOffsetRange`, `RoundUpCovers`). `InitOutcome` and
`ResourcesBalance` are parts of their invariants, since the next call depends on
how the last one ended; for the process's pages devmem adds that the mapping meets
none of them. Results: `DescriptorsBalance`, `InitOutcomes`,
`ArgumentsOfSession`, `CleanupSafe`; `ResourcesBalanced`, `FirstAddressIsRight`,
`RangeIsMapped`, `EntryIsInRange`, `SettingsAreOfSession`.

*MmioAccessProofs.* `RegisterShape` has the version of each beat of the register:
`writes` below the writer's position, one less above. `ReadShape` bounds the
versions that a read has so far by the register's, which is what makes
`HalvesInOrder` survive further writes; `QuietShape` keeps the parts of a read
without a write. The counter needs `CounterShape`: the beats read so far, with what
the counter now has above them, make at least the value at the start
(`NotBehind`), and without a carry out of the lowest beat the upper ones are
unchanged (`NotAhead`), unless the counter has wrapped.
Its arithmetic is in lemmas on sums of weighted beats and on quotients. Results:
`QuietReadsRight`, `HalvesAreInOrder`, `CounterReadsRight`.

*DflWalkerProofs.* The state of the walk is tied to the tree by `Walked`: the nodes
visited are those on the way to, or hanging below, what the calls on `frames` have
passed; the numbering of the tree orders the argument. When no call is left, all
nodes are visited (`AllVisited`), hence both walks visit the same number and each
node, that is each way to a header, once. `StackOK` has the stack's size and its growth. Parents need a second
invariant `PInv` on top: the heads of the levels being walked, the index of the
interface visited last, and the stack's elements as owners of the levels
(`LevelsOK`, `HeadsOK`, `LastIndexOK`), compared with the reference functions
through `LevelStartUnfold` and `DepthUnfold`. Results: `VectorIsFilled`,
`ListingPerBranch`, `StackIsBalanced`, `PeekInBounds`, `ParentsAreRight`.

*DflEntryProofs.* As long as no handler has returned, `LiveOK` holds: entries have
as many slots as they say and an array for them (`EntryOK`), entries that the walk
has not reached have none (`Untouched`), and the heap is what entries point to.
That the collecting walk never passes the last entry is `WalkOK`: both walks pass
the same headers (`Path`), since the ROM does not change. Nothing in this part depends on
the words themselves: the proofs of `HeapIsExact` and `CrashesOnlyAfterReturn` use
neither the layout nor `ListsAssumption`.

`ScanMatchesList` is about what the words mean, and rests on the layout. Three groups
of lemmas lead there. Words: a sum of fields in disjoint bits is cut into the same
fields again, since powers of two add their exponents and a quotient or remainder of
`q * m + r` with `r < m` is `q` or `r`; so the getters return what `InterfaceWords` and
`ParamHeader` put in (`Decoded`). Positions: a part of a flattened sequence is found
behind the parts before it (`FlatAt`, `Holds`), so the words of interface k and of its
block j are in the ROM where `HeaderAddress(k)` and `BlockAddress(k, j)` say
(`ListLayout`). Reads: what the walk reads at a header (`HeaderReads`) and at a
block (`BlockReads`) is what the list has there, the way to the next one included.
The invariant `MInv` adds `MatchOK` to `IInv`: both walks stand at the header of the
interface they have counted up to, the entries before it are complete (`Whole`), and
in the parameter loop the entry has the blocks so far with one zeroed slot for the next
(`Partial(k, j)`), the state in between that makes `EntriesMatchList` inductive.

*ZephyrPlatformProofs.* The invariant speaks of `Filled`, the vector as it will be once
the entry that init has added is filled in, and of `Seen`, the number of devices that
init has handled. To `Filled` a device is added in one step, so that an isr which comes
in between sees and changes nothing that the argument does not know. `ListingOK` says what
is listed after `Seen` devices (`Listed`, `ListedUpTo`), `FoundOK` when
`s_zephyr_dfl_found` is set, `OutcomeOK` why init will return false, `ReachOK` where each
entry points; a step of the scan is `OneFurther`, its end `WholeTable`. A ROM can
replace the vector only in the first init, when nothing is in it: otherwise flags and
registered isrs would be lost; `Quiet` says that no irq is on by then. For interrupts the
invariant has `FlagOK` (the flag agrees with the kernel or, between the kernel call and
the store, the call does) and `OnKnown` (an irq that is on belongs to an interface, or is
in `left` or `crossed`), which new entries of a repeated init need; `StoringOK` adds
that registration is right for the vector as it stands, too. That the decoder takes the
ROM's base off again, wherever the sum wrapped, is `BaseTakenOff`. Results:
`DiscoveryIsRight`, `AccessesReach`, `FlagsMatchKernel`, `RegisteredAreCalled`,
`ModelBuffersOwned`.

Only model-checked: the liveness properties `ScanEnds`, `CleanupCompletes` and
`InterruptServed`, since the prover handles neither fairness nor `ENABLED`.

## Not modelled, and the plan

Left out: printing and message formatting, the dump of the ROM to a file (debug
builds), the getters that change nothing, the calls for memory and physical
addresses, and for devmem's interrupts, that only throw, the software model
of the UIO and devmem unit tests, and the simulation hooks of `common_dfl_read_*`,
whose platform is not in this repository. The headers under `doc/` declare and
describe the API and have no code of their own.

Of the plan, liveness for all values of the constants remains: it is out of the
prover's reach, and stays with the runs.
