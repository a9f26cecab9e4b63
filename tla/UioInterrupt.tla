---------------------------- MODULE UioInterrupt ----------------------------
(***************************************************************************)
(* Interrupt handling of the UIO platform: the thread                      *)
(* uio_interrupt_thread, the application threads that call                 *)
(* fpga_register_isr, fpga_enable_interrupt and fpga_disable_interrupt,    *)
(* and the main thread that creates the interrupt thread in                *)
(* fpga_platform_init and stops it in fpga_platform_cleanup.               *)
(*                                                                         *)
(* They share the entry 0 of the interface vector (without a lock), the    *)
(* semaphore g_intSem, and the flag word s_intFlags under s_intLock.  The  *)
(* UIO driver and the device are outside the repository: a level-triggered *)
(* line, masked by the driver when it fires and unmasked by writing 1.     *)
(***************************************************************************)
EXTENDS Integers

CONSTANTS
    Apps,          \* application threads
    Main,          \* the one of them that initialises and cleans up
    Regs,          \* registrations: an isr together with its isr_context
    None,          \* a NULL callback or context
    Modes,         \* values of "single component mode" a session may have
    RegisterFirst, \* TRUE: an isr is registered once, before any enable
    Faults,        \* TRUE: system calls may fail
    MaxSessions    \* bound: calls of fpga_platform_init

ASSUME MainAssumption == Main \in Apps
ASSUME NoneAssumption == None \notin Regs
ASSUME ModesAssumption == Modes \subseteq BOOLEAN
ASSUME FlagsAssumption == RegisterFirst \in BOOLEAN /\ Faults \in BOOLEAN
ASSUME SessionsAssumption == MaxSessions \in Nat

VARIABLES
    up,        \* between a successful init and the start of cleanup
    sessions,  \* number of initialisations so far
    vecLive,   \* entry 0 of the interface vector exists
    enable,    \* vec[0].interrupt_enable
    callback,  \* vec[0].isr_callback
    context,   \* vec[0].isr_context
    sem,       \* value of g_intSem
    lock,      \* s_intLock: "free", "rd" or "wr"
    exitFlag,  \* FPGA_PLATFORM_INT_THREAD_EXIT in s_intFlags
    tid,       \* s_intThread_id # 0
    apc,       \* where each application thread is
    areg,      \* the registration a thread is writing
    tpc,       \* where the interrupt thread is
    tflag,     \* its local copy of the exit flag
    tcall,     \* the callback and the context it has loaded for a call
    fd,        \* its variable fd: 0, or 1 for any descriptor above 0
    above,     \* how many descriptors above 0 it has open
    zero,      \* who has descriptor 0: "app", "driver", "thread" or "free"
    fresh,     \* an event was counted since that descriptor was opened
    line,      \* the device asserts its interrupt
    irqOn,     \* the driver has the interrupt unmasked
    late       \* history: isr calls begun since interrupt_enable fell

appVars == <<up, sessions, vecLive, tid, apc, areg>>
entryVars == <<enable, callback, context, late>>
syncVars == <<sem, lock, exitFlag>>
fdVars == <<fd, above, zero>>
threadVars == <<tpc, tflag, tcall, fdVars>>
deviceVars == <<fresh, line, irqOn>>
vars == <<appVars, entryVars, syncVars, threadVars, deviceVars>>

AppSteps == {"idle", "reg_ctx", "en_sem", "en_post"}
CleanupSteps == {"cl_lock", "cl_set", "cl_post", "cl_join", "cl_free"}
LoopSteps == {"top", "unlock", "check", "sem",
              "open", "arm", "poll", "isr", "load", "running", "close"}
EndSteps == {"none", "exited", "failed", "joined"}
Unread == "unread"

FlagsOK ==
    /\ up \in BOOLEAN /\ vecLive \in BOOLEAN /\ tid \in BOOLEAN
    /\ enable \in BOOLEAN
    /\ exitFlag \in BOOLEAN /\ tflag \in BOOLEAN
    /\ fresh \in BOOLEAN /\ line \in BOOLEAN /\ irqOn \in BOOLEAN

ValuesOK ==
    /\ sessions \in 0..MaxSessions
    /\ callback \in Regs \cup {None} /\ context \in Regs \cup {None}
    /\ sem \in Nat
    /\ lock \in {"free", "rd", "wr"}
    /\ apc \in [Apps -> AppSteps \cup CleanupSteps]
    /\ areg \in [Apps -> Regs \cup {None}]
    /\ tpc \in LoopSteps \cup EndSteps
    /\ tcall \in [fn : Regs \cup {None, Unread}, arg : Regs \cup {None, Unread}]
    /\ late \in Nat
    /\ fd \in {0, 1} /\ above \in Int /\ zero \in {"app", "driver", "thread", "free"}

TypeOK == FlagsOK /\ ValuesOK

Init ==
    /\ up = FALSE /\ vecLive = FALSE /\ tid = FALSE
    /\ sessions = 0
    /\ enable = FALSE /\ callback = None /\ context = None
    /\ sem = 0 /\ lock = "free" /\ exitFlag = FALSE
    /\ apc = [a \in Apps |-> "idle"]
    /\ areg = [a \in Apps |-> None]
    /\ tpc = "none" /\ tflag = FALSE
    /\ fd = 0 /\ above = 0 /\ zero = "app"
    /\ tcall = [fn |-> Unread, arg |-> Unread]
    /\ fresh = FALSE /\ line = FALSE /\ irqOn = FALSE
    /\ late = 0

-----------------------------------------------------------------------------
(***************************************************************************)
(* fpga_platform_init, from the scan on: the vector is resized to one      *)
(* zeroed entry, and in single component mode the semaphore, the lock and  *)
(* the flags are initialised and the thread is created.  No other thread   *)
(* runs library code yet, so this is one step.                             *)
(***************************************************************************)
AllIdle == \A a \in Apps : apc[a] = "idle"

\* uio_open_driver takes descriptor 0 if that is free.
DriverOpens == zero' = IF zero = "free" THEN "driver" ELSE zero

\* Slip: the fresh entry keeps the context of the last session.
NewSession_StaleContext ==
    /\ ~up /\ AllIdle
    /\ sessions < MaxSessions
    /\ sessions' = sessions + 1
    /\ up' = TRUE
    /\ vecLive' = TRUE
    /\ DriverOpens
    /\ enable' = FALSE /\ callback' = None /\ late' = 0
    /\ UNCHANGED context

NewSession ==
    /\ ~up /\ AllIdle
    /\ sessions < MaxSessions
    /\ sessions' = sessions + 1
    /\ up' = TRUE
    /\ vecLive' = TRUE
    /\ DriverOpens
    /\ enable' = FALSE /\ callback' = None /\ context' = None /\ late' = 0

\* Slip: the flags are not reset.
CreateSync_KeepFlags ==
    /\ sem' = 0 /\ lock' = "free" /\ exitFlag' = exitFlag

CreateSync ==
    /\ sem' = 0 /\ lock' = "free" /\ exitFlag' = FALSE

InitSingle ==
    /\ TRUE \in Modes
    /\ NewSession
    /\ CreateSync
    /\ tpc' = "top"
    /\ tid' = TRUE
    /\ UNCHANGED <<apc, areg, tflag, tcall, fd, above, deviceVars>>

\* pthread_create fails: init still returns true (ret was set before), and
\* the thread identifier may have been written or not.
InitSingleNoThread ==
    /\ Faults /\ TRUE \in Modes
    /\ NewSession
    /\ CreateSync
    /\ tpc' = "none"
    /\ tid' \in {tid, TRUE}
    /\ UNCHANGED <<apc, areg, tflag, tcall, fd, above, deviceVars>>

\* Multi-component (DFL) mode: no thread is created.
InitDfl ==
    /\ FALSE \in Modes
    /\ NewSession
    /\ UNCHANGED <<tid, apc, areg, syncVars, tpc, tflag, tcall, fd, above, deviceVars>>

-----------------------------------------------------------------------------
(***************************************************************************)
(* The API calls of an application thread.                                 *)
(***************************************************************************)
MayCall(a) == up /\ apc[a] = "idle"

\* fpga_register_isr: the callback is stored first, the context second.
RegisterCallback(a, r) ==
    /\ MayCall(a)
    /\ RegisterFirst => callback = None
    /\ callback' = r
    /\ areg' = [areg EXCEPT ![a] = r]
    /\ apc' = [apc EXCEPT ![a] = "reg_ctx"]
    /\ UNCHANGED <<up, sessions, vecLive, tid, enable, context, late,
                   syncVars, threadVars, deviceVars>>

RegisterContext(a) ==
    /\ apc[a] = "reg_ctx"
    /\ context' = areg[a]
    /\ areg' = [areg EXCEPT ![a] = None]
    /\ apc' = [apc EXCEPT ![a] = "idle"]
    /\ UNCHANGED <<up, sessions, vecLive, tid, enable, callback, late,
                   syncVars, threadVars, deviceVars>>

\* fpga_enable_interrupt: set the flag, look at the semaphore, maybe post.
EnableFlag(a) ==
    /\ MayCall(a)
    /\ RegisterFirst => context # None
    /\ enable' = TRUE
    /\ late' = 0
    /\ apc' = [apc EXCEPT ![a] = "en_sem"]
    /\ UNCHANGED <<up, sessions, vecLive, tid, areg, callback, context,
                   syncVars, threadVars, deviceVars>>

\* Slip: the test of the semaphore's value is inverted.
EnableGetValue_Inverted(a) ==
    /\ apc[a] = "en_sem"
    /\ apc' = [apc EXCEPT ![a] = IF sem > 0 THEN "en_post" ELSE "idle"]
    /\ UNCHANGED <<up, sessions, vecLive, tid, areg,
                   entryVars, syncVars, threadVars, deviceVars>>

EnableGetValue(a) ==
    /\ apc[a] = "en_sem"
    /\ apc' = [apc EXCEPT ![a] = IF sem <= 0 THEN "en_post" ELSE "idle"]
    /\ UNCHANGED <<up, sessions, vecLive, tid, areg,
                   entryVars, syncVars, threadVars, deviceVars>>

EnablePost(a) ==
    /\ apc[a] = "en_post"
    /\ sem' = sem + 1
    /\ apc' = [apc EXCEPT ![a] = "idle"]
    /\ UNCHANGED <<up, sessions, vecLive, tid, areg, lock, exitFlag,
                   entryVars, threadVars, deviceVars>>

\* fpga_disable_interrupt clears the flag and nothing else.
Disable(a) ==
    /\ MayCall(a)
    /\ enable' = FALSE
    /\ UNCHANGED <<callback, context, late,
                   appVars, syncVars, threadVars, deviceVars>>

-----------------------------------------------------------------------------
(***************************************************************************)
(* fpga_platform_cleanup, called by Main once every other call returned.   *)
(***************************************************************************)
CleanupStart ==
    /\ up /\ AllIdle
    /\ up' = FALSE
    /\ apc' = [apc EXCEPT ![Main] = IF tid THEN "cl_lock" ELSE "cl_free"]
    /\ UNCHANGED <<sessions, vecLive, tid, areg,
                   entryVars, syncVars, threadVars, deviceVars>>

CleanupLock ==
    /\ apc[Main] = "cl_lock"
    /\ lock = "free"
    /\ lock' = "wr"
    /\ apc' = [apc EXCEPT ![Main] = "cl_set"]
    /\ UNCHANGED <<up, sessions, vecLive, tid, areg, sem, exitFlag,
                   entryVars, threadVars, deviceVars>>

CleanupSetExit ==
    /\ apc[Main] = "cl_set"
    /\ exitFlag' = TRUE
    /\ lock' = "free"
    /\ apc' = [apc EXCEPT ![Main] = "cl_post"]
    /\ UNCHANGED <<up, sessions, vecLive, tid, areg, sem,
                   entryVars, threadVars, deviceVars>>

\* Slip: the post is left out.
CleanupPost_NoPost ==
    /\ apc[Main] = "cl_post"
    /\ apc' = [apc EXCEPT ![Main] = "cl_join"]
    /\ UNCHANGED <<up, sessions, vecLive, tid, areg, syncVars,
                   entryVars, threadVars, deviceVars>>

\* status is 0 after the unlock, so sem_getvalue is never called, retVal
\* keeps its 0 and the post is unconditional.
CleanupPost ==
    /\ apc[Main] = "cl_post"
    /\ sem' = sem + 1
    /\ apc' = [apc EXCEPT ![Main] = "cl_join"]
    /\ UNCHANGED <<up, sessions, vecLive, tid, areg, lock, exitFlag,
                   entryVars, threadVars, deviceVars>>

\* Slip: the thread is detached instead of joined.
CleanupJoin_NoWait ==
    /\ apc[Main] = "cl_join"
    /\ apc' = [apc EXCEPT ![Main] = "cl_free"]
    /\ UNCHANGED <<up, sessions, vecLive, tid, areg, threadVars,
                   entryVars, syncVars, deviceVars>>

\* pthread_join waits for a thread that is still to be joined.
CleanupJoin ==
    /\ apc[Main] = "cl_join"
    /\ tpc \in {"exited", "failed"}
    /\ tpc' = "joined"
    /\ apc' = [apc EXCEPT ![Main] = "cl_free"]
    /\ UNCHANGED <<up, sessions, vecLive, tid, areg, tflag, tcall, fdVars,
                   entryVars, syncVars, deviceVars>>

\* s_intThread_id is never reset, so a session without a thread of its own
\* joins an identifier already joined.  That is undefined: it may return an
\* error (this step), never return, or end the process (no further step).
CleanupJoinStale ==
    /\ apc[Main] = "cl_join"
    /\ tpc \in {"none", "joined"}
    /\ apc' = [apc EXCEPT ![Main] = "cl_free"]
    /\ UNCHANGED <<up, sessions, vecLive, tid, areg,
                   entryVars, syncVars, threadVars, deviceVars>>

\* The driver is closed, then the vector is freed.
CleanupFree ==
    /\ apc[Main] = "cl_free"
    /\ vecLive' = FALSE
    /\ zero' = IF zero = "driver" THEN "free" ELSE zero
    /\ apc' = [apc EXCEPT ![Main] = "idle"]
    /\ UNCHANGED <<up, sessions, tid, areg, tpc, tflag, tcall, fd, above,
                   entryVars, syncVars, deviceVars>>

-----------------------------------------------------------------------------
(***************************************************************************)
(* uio_interrupt_thread                                                    *)
(***************************************************************************)
\* close(fd)
CloseFd ==
    /\ zero' = IF fd = 0 THEN "free" ELSE zero
    /\ above' = above - fd
    /\ UNCHANGED fd

ThreadReadFlags ==
    /\ tpc = "top"
    /\ lock = "free"
    /\ lock' = "rd"
    /\ tflag' = exitFlag
    /\ tpc' = "unlock"
    /\ UNCHANGED <<tcall, fdVars, sem, exitFlag,
                   appVars, entryVars, deviceVars>>

ThreadUnlock ==
    /\ tpc = "unlock"
    /\ lock' = "free"
    /\ tpc' = IF tflag THEN "exited" ELSE "check"
    /\ UNCHANGED <<tflag, tcall, fdVars, sem, exitFlag,
                   appVars, entryVars, deviceVars>>

ThreadCheckEnable ==
    /\ tpc = "check"
    /\ tpc' = IF enable THEN "open" ELSE "sem"
    /\ UNCHANGED <<tflag, tcall, fdVars,
                   appVars, entryVars, syncVars, deviceVars>>

ThreadSemWait ==
    /\ tpc = "sem"
    /\ sem > 0
    /\ sem' = sem - 1
    /\ tpc' = "top"
    /\ UNCHANGED <<tflag, tcall, fdVars, lock, exitFlag,
                   appVars, entryVars, deviceVars>>

\* open returns the lowest descriptor that is free: 0, should the application
\* have closed its standard input.  A new descriptor starts from the driver's
\* current event count.
ThreadOpen ==
    /\ tpc = "open"
    /\ fd' = IF zero = "free" THEN 0 ELSE 1
    /\ zero' = IF zero = "free" THEN "thread" ELSE zero
    /\ above' = above + fd'
    /\ fresh' = FALSE
    /\ tpc' = "arm"
    /\ UNCHANGED <<tflag, tcall, line, irqOn, appVars, entryVars, syncVars>>

\* Slip: the interrupt is not re-armed.
ThreadArm_NoWrite ==
    /\ tpc = "arm"
    /\ tpc' = "poll"
    /\ UNCHANGED <<tflag, tcall, fdVars,
                   appVars, entryVars, syncVars, deviceVars>>

\* Writing 1 unmasks the interrupt: it fires at once if the line is up.
ThreadArm ==
    /\ tpc = "arm"
    /\ irqOn' = ~line
    /\ fresh' = (fresh \/ line)
    /\ tpc' = "poll"
    /\ UNCHANGED <<tflag, tcall, fdVars, line, appVars, entryVars, syncVars>>

\* poll returns with an event, or after s_uio_inThread_timeout without one;
\* an error, such as a signal, is treated as a timeout.
ThreadPoll ==
    /\ tpc = "poll"
    /\ \/ fresh /\ tpc' = "isr"
       \/ (~fresh \/ Faults) /\ tpc' = "close"
    /\ UNCHANGED <<tflag, tcall, fdVars,
                   appVars, entryVars, syncVars, deviceVars>>

ThreadTestCallback ==
    /\ tpc = "isr"
    /\ callback # None
    /\ tpc' = "load"
    /\ tcall' = [fn |-> Unread, arg |-> Unread]
    /\ UNCHANGED <<tflag, fdVars, appVars, entryVars, syncVars, deviceVars>>

\* Slip: the error path leaves the descriptor open.
ThreadNoCallback_NoClose ==
    /\ tpc = "isr"
    /\ callback = None
    /\ tpc' = "failed"
    /\ UNCHANGED <<tflag, tcall, fdVars,
                   appVars, entryVars, syncVars, deviceVars>>

\* An interrupt without an isr: the descriptor is closed and the thread ends.
ThreadNoCallback ==
    /\ tpc = "isr"
    /\ callback = None
    /\ tpc' = "failed"
    /\ CloseFd
    /\ UNCHANGED <<tflag, tcall, appVars, entryVars, syncVars, deviceVars>>

\* C leaves open whether the function or its argument is loaded first.
ThreadLoadCallback ==
    /\ tpc = "load"
    /\ tcall.fn = Unread
    /\ tcall' = [tcall EXCEPT !.fn = callback]
    /\ UNCHANGED <<tpc, tflag, fdVars,
                   appVars, entryVars, syncVars, deviceVars>>

ThreadLoadContext ==
    /\ tpc = "load"
    /\ tcall.arg = Unread
    /\ tcall' = [tcall EXCEPT !.arg = context]
    /\ UNCHANGED <<tpc, tflag, fdVars,
                   appVars, entryVars, syncVars, deviceVars>>

ThreadCallIsr ==
    /\ tpc = "load"
    /\ tcall.fn # Unread /\ tcall.arg # Unread
    /\ tpc' = "running"
    /\ late' = IF enable THEN late ELSE late + 1
    /\ UNCHANGED <<tflag, tcall, fdVars, enable, callback, context,
                   appVars, syncVars, deviceVars>>

\* The isr may call fpga_disable_interrupt itself.
IsrDisable ==
    /\ tpc = "running"
    /\ enable
    /\ enable' = FALSE
    /\ UNCHANGED <<callback, context, late,
                   appVars, syncVars, threadVars, deviceVars>>

\* The isr serves the device, which releases its line, and returns.
IsrReturn ==
    /\ tpc = "running"
    /\ line' = FALSE
    /\ tpc' = "close"
    /\ UNCHANGED <<tflag, tcall, fdVars, fresh, irqOn,
                   appVars, entryVars, syncVars>>

\* Slip: the loop goes on polling without looking at the flags again.
ThreadClose_PollAgain ==
    /\ tpc = "close"
    /\ IF fd > 0 THEN CloseFd ELSE UNCHANGED fdVars
    /\ tpc' = "open"
    /\ UNCHANGED <<tflag, tcall, appVars, entryVars, syncVars, deviceVars>>

\* The descriptor is closed unless it is 0.
ThreadClose ==
    /\ tpc = "close"
    /\ IF fd > 0 THEN CloseFd ELSE UNCHANGED fdVars
    /\ tpc' = "top"
    /\ UNCHANGED <<tflag, tcall, appVars, entryVars, syncVars, deviceVars>>

\* The lock, open, the re-arming write or sem_wait fails: the thread leaves
\* its loop, after the write it closes its descriptor.
ThreadFails ==
    /\ Faults
    /\ tpc \in {"top", "open", "arm", "sem"}
    /\ tpc' = "failed"
    /\ IF tpc = "arm" THEN CloseFd ELSE UNCHANGED fdVars
    /\ UNCHANGED <<tflag, tcall, appVars, entryVars, syncVars, deviceVars>>

-----------------------------------------------------------------------------
\* The device raises its line; unmasked, the interrupt fires: the driver
\* counts an event and masks it.
DeviceRaise ==
    /\ ~line
    /\ line' = TRUE
    /\ irqOn' = FALSE
    /\ fresh' = (fresh \/ irqOn)
    /\ UNCHANGED <<appVars, entryVars, syncVars, threadVars>>

\* The application closes its standard input, or opens a file while descriptor
\* 0 is free.
AppZero ==
    /\ zero \in {"app", "free"}
    /\ zero' = IF zero = "app" THEN "free" ELSE "app"
    /\ UNCHANGED <<tpc, tflag, tcall, fd, above,
                   appVars, entryVars, syncVars, deviceVars>>

-----------------------------------------------------------------------------
AppContinue(a) == RegisterContext(a) \/ EnableGetValue(a) \/ EnablePost(a)

CleanupContinue ==
    \/ CleanupSetExit \/ CleanupPost \/ CleanupJoin \/ CleanupJoinStale
    \/ CleanupFree

ThreadStep ==
    \/ ThreadReadFlags \/ ThreadUnlock \/ ThreadCheckEnable \/ ThreadSemWait
    \/ ThreadOpen \/ ThreadArm \/ ThreadPoll
    \/ ThreadTestCallback \/ ThreadNoCallback
    \/ ThreadLoadCallback \/ ThreadLoadContext \/ ThreadCallIsr
    \/ IsrReturn \/ ThreadClose

Next ==
    \/ InitSingle \/ InitSingleNoThread \/ InitDfl
    \/ \E a \in Apps :
         \/ \E r \in Regs : RegisterCallback(a, r)
         \/ EnableFlag(a) \/ Disable(a)
         \/ AppContinue(a)
    \/ CleanupStart \/ CleanupLock \/ CleanupContinue
    \/ ThreadStep \/ IsrDisable \/ ThreadFails
    \/ DeviceRaise \/ AppZero

Spec == Init /\ [][Next]_vars

(***************************************************************************)
(* Fairness: a thread inside a call, the interrupt thread and an isr keep  *)
(* running; the lock is free for whole poll periods, so a waiting writer   *)
(* gets it.  Nothing obliges the application to call or the device to      *)
(* interrupt.                                                              *)
(***************************************************************************)
Fairness ==
    /\ \A a \in Apps : WF_vars(AppContinue(a))
    /\ SF_vars(CleanupLock)
    /\ WF_vars(CleanupContinue)
    /\ WF_vars(ThreadStep)

FairSpec == Spec /\ Fairness

-----------------------------------------------------------------------------
(***************************************************************************)
(* Properties                                                              *)
(***************************************************************************)

\* The interrupt thread dereferences entry 0 only while the vector exists:
\* cleanup frees it after the thread has ended and been joined.
NoUseAfterFree == tpc \in {"check", "isr", "load"} => vecLive

\* The thread never sleeps on the semaphore through an enable or a request
\* to exit: if it would block, then a post is still to come.
NoLostWakeup ==
    tpc = "sem" /\ sem = 0 =>
        /\ enable => \E a \in Apps : apc[a] \in {"en_sem", "en_post"}
        /\ exitFlag => apc[Main] = "cl_post"

\* After interrupt_enable falls the isr is entered at most once more, however
\* the fall races with poll and with other callers.
AtMostOneLateIsr == late <= 1

\* The thread leaves its loop normally only on the request of the cleanup in
\* progress, never on a flag left over from an earlier session.
ExitOnlyOnRequest ==
    tpc = "exited" => exitFlag /\ apc[Main] \in {"cl_post", "cl_join"}

\* Every path through the loop, the failing ones included, closes the
\* descriptor it opened before the thread sleeps, loops or ends.  The exception
\* is descriptor 0, which is taken for none at the end of the loop; however long
\* the thread runs, it leaves only that one behind.
NoDescriptorLeak ==
    above = IF tpc \in {"arm", "poll", "isr", "load", "running", "close"} THEN fd ELSE 0

\* An isr is called with the context that was registered with it ("This value
\* is passed to the ISR when it is called").
IsrGetsItsContext == tpc = "running" => tcall.fn = tcall.arg

\* cleanup joins a thread that has not been joined before.
JoinsOnce == apc[Main] = "cl_join" => tpc \notin {"none", "joined"}

\* A cleanup that has begun comes to an end: the thread is woken from its
\* semaphore or from poll, sees the flag, exits and is joined.
CleanupCompletes == apc[Main] \in CleanupSteps ~> apc[Main] = "idle"

\* A device interrupt raised while interrupts are enabled and an isr is
\* registered reaches the isr, unless they are disabled or shut down first.
InterruptServed ==
    line /\ enable /\ callback # None /\ up
        ~> tpc = "running" \/ ~enable \/ ~up
=============================================================================
