------------------------- MODULE UioInterruptProofs -------------------------
(***************************************************************************)
(* The interrupt thread and its shutdown are safe for any number of        *)
(* application threads, registrations and sessions, with or without        *)
(* failing system calls.                                                   *)
(***************************************************************************)
EXTENDS UioInterrupt, TLAPS

\* The thread exists and has not been joined.
Running == LoopSteps \cup {"exited", "failed"}

\* The steps of cleanup before the interface vector may be freed.
Stopping == CleanupSteps \ {"cl_free"}

\* A running thread has a session, or a cleanup that still has to join it.
ThreadHasSession ==
    tpc \in Running => /\ vecLive /\ tid
                       /\ up \/ apc[Main] \in Stopping

CleanupIsDown == apc[Main] \in CleanupSteps => ~up

\* The lock is held exactly where the code holds it, so the flag the thread
\* has read is still current when it releases the lock.
LockOwned ==
    /\ tpc = "unlock" => lock = "rd" /\ tflag = exitFlag
    /\ apc[Main] = "cl_set" => lock = "wr"

\* The exit flag concerns a running thread only after cleanup has set it.
ExitRequested ==
    /\ exitFlag /\ tpc \in Running => apc[Main] \in {"cl_post", "cl_join"}
    /\ tpc = "exited" => exitFlag

\* A thread past its look at the exit flag, or at interrupt_enable, finds a
\* post in the semaphore unless that post is still to come.
WakeupPending ==
    /\ exitFlag /\ tpc \in {"check", "sem"} => sem > 0 \/ apc[Main] = "cl_post"
    /\ enable /\ tpc = "sem" =>
          sem > 0 \/ \E a \in Apps : apc[a] \in {"en_sem", "en_post"}

\* Once an isr has been entered late, the thread is past the polling part of
\* its loop and cannot reach it again before the next enable.
LateOnce ==
    /\ late <= 1
    /\ enable => late = 0
    /\ tpc \in {"open", "arm", "poll", "isr", "load"} => late = 0

IInv ==
    /\ TypeOK /\ ThreadHasSession /\ CleanupIsDown /\ LockOwned
    /\ ExitRequested /\ WakeupPending /\ LateOnce /\ NoDescriptorLeak

-----------------------------------------------------------------------------
\* Every step of every thread keeps the flags Boolean.
LEMMA FlagsStep == FlagsOK /\ [Next]_vars => FlagsOK'
<1> SUFFICES ASSUME FlagsOK, [Next]_vars PROVE FlagsOK'
  OBVIOUS
<1> USE DEF vars, appVars, entryVars, syncVars, fdVars, threadVars, deviceVars
<1>1. CASE InitSingle
  BY <1>1, Zenon DEF InitSingle, NewSession, DriverOpens, CreateSync, AllIdle, FlagsOK
<1>2. CASE InitSingleNoThread
  BY <1>2, Zenon
     DEF InitSingleNoThread, NewSession, DriverOpens, CreateSync, AllIdle, FlagsOK
<1>3. CASE InitDfl
  BY <1>3, Zenon DEF InitDfl, NewSession, DriverOpens, AllIdle, FlagsOK
<1>4. ASSUME NEW a \in Apps, NEW r \in Regs, RegisterCallback(a, r) PROVE FlagsOK'
  BY <1>4, Zenon DEF RegisterCallback, MayCall, FlagsOK
<1>5. ASSUME NEW a \in Apps, EnableFlag(a) PROVE FlagsOK'
  BY <1>5, Zenon DEF EnableFlag, MayCall, FlagsOK
<1>6. ASSUME NEW a \in Apps, Disable(a) PROVE FlagsOK'
  BY <1>6, Zenon DEF Disable, MayCall, FlagsOK
<1>7. ASSUME NEW a \in Apps, RegisterContext(a) PROVE FlagsOK'
  BY <1>7, Zenon DEF RegisterContext, FlagsOK
<1>8. ASSUME NEW a \in Apps, EnableGetValue(a) PROVE FlagsOK'
  BY <1>8, Zenon DEF EnableGetValue, FlagsOK
<1>9. ASSUME NEW a \in Apps, EnablePost(a) PROVE FlagsOK'
  BY <1>9, Zenon DEF EnablePost, FlagsOK
<1>10. CASE CleanupStart
  BY <1>10, Zenon DEF CleanupStart, AllIdle, FlagsOK
<1>11. CASE CleanupLock
  BY <1>11, Zenon DEF CleanupLock, FlagsOK
<1>12. CASE CleanupSetExit
  BY <1>12, Zenon DEF CleanupSetExit, FlagsOK
<1>13. CASE CleanupPost
  BY <1>13, Zenon DEF CleanupPost, FlagsOK
<1>14. CASE CleanupJoin
  BY <1>14, Zenon DEF CleanupJoin, FlagsOK
<1>15. CASE CleanupJoinStale
  BY <1>15, Zenon DEF CleanupJoinStale, FlagsOK
<1>16. CASE CleanupFree
  BY <1>16, Zenon DEF CleanupFree, FlagsOK
<1>17. CASE ThreadReadFlags
  BY <1>17, Zenon DEF ThreadReadFlags, FlagsOK
<1>18. CASE ThreadUnlock
  BY <1>18, Zenon DEF ThreadUnlock, FlagsOK
<1>19. CASE ThreadCheckEnable
  BY <1>19, Zenon DEF ThreadCheckEnable, FlagsOK
<1>20. CASE ThreadSemWait
  BY <1>20, Zenon DEF ThreadSemWait, FlagsOK
<1>21. CASE ThreadOpen
  BY <1>21, Zenon DEF ThreadOpen, FlagsOK
<1>22. CASE ThreadArm
  BY <1>22, Zenon DEF ThreadArm, FlagsOK
<1>23. CASE ThreadPoll
  BY <1>23, Zenon DEF ThreadPoll, FlagsOK
<1>24. CASE ThreadTestCallback
  BY <1>24, Zenon DEF ThreadTestCallback, FlagsOK
<1>25. CASE ThreadNoCallback
  BY <1>25, Zenon DEF ThreadNoCallback, CloseFd, FlagsOK
<1>26. CASE ThreadLoadCallback
  BY <1>26, Zenon DEF ThreadLoadCallback, FlagsOK
<1>27. CASE ThreadLoadContext
  BY <1>27, Zenon DEF ThreadLoadContext, FlagsOK
<1>28. CASE ThreadCallIsr
  BY <1>28, Zenon DEF ThreadCallIsr, FlagsOK
<1>29. CASE IsrReturn
  BY <1>29, Zenon DEF IsrReturn, FlagsOK
<1>30. CASE ThreadClose
  BY <1>30, Zenon DEF ThreadClose, CloseFd, FlagsOK
<1>31. CASE IsrDisable
  BY <1>31, Zenon DEF IsrDisable, FlagsOK
<1>32. CASE ThreadFails
  BY <1>32, Zenon DEF ThreadFails, CloseFd, FlagsOK
<1>33. CASE DeviceRaise
  BY <1>33, Zenon DEF DeviceRaise, FlagsOK
<1>34. CASE AppZero
  BY <1>34, Zenon DEF AppZero, FlagsOK
<1>35. CASE UNCHANGED vars
  BY <1>35, Zenon DEF FlagsOK
<1>36. QED
  BY <1>1, <1>2, <1>3, <1>4, <1>5, <1>6, <1>7, <1>8, <1>9, <1>10, <1>11,
     <1>12, <1>13, <1>14, <1>15, <1>16, <1>17, <1>18, <1>19, <1>20, <1>21,
     <1>22, <1>23, <1>24, <1>25, <1>26, <1>27, <1>28, <1>29, <1>30, <1>31,
     <1>32, <1>33, <1>34, <1>35
     DEF Next, AppContinue, CleanupContinue, ThreadStep

\* Every step of every thread keeps the program counters, the lock and the
\* counters in range.
LEMMA ValuesStep == ValuesOK /\ [Next]_vars => ValuesOK'
<1> SUFFICES ASSUME ValuesOK, [Next]_vars PROVE ValuesOK'
  OBVIOUS
<1> USE MainAssumption, SessionsAssumption
    DEF vars, appVars, entryVars, syncVars, fdVars, threadVars, deviceVars,
        AppSteps, CleanupSteps, LoopSteps, EndSteps
<1>1. CASE InitSingle
  BY <1>1 DEF InitSingle, NewSession, DriverOpens, CreateSync, AllIdle, ValuesOK
<1>2. CASE InitSingleNoThread
  BY <1>2 DEF InitSingleNoThread, NewSession, DriverOpens, CreateSync, AllIdle, ValuesOK
<1>3. CASE InitDfl
  BY <1>3 DEF InitDfl, NewSession, DriverOpens, AllIdle, ValuesOK
<1>4. ASSUME NEW a \in Apps, NEW r \in Regs, RegisterCallback(a, r) PROVE ValuesOK'
  BY <1>4 DEF RegisterCallback, MayCall, ValuesOK
<1>5. ASSUME NEW a \in Apps, EnableFlag(a) PROVE ValuesOK'
  BY <1>5 DEF EnableFlag, MayCall, ValuesOK
<1>6. ASSUME NEW a \in Apps, Disable(a) PROVE ValuesOK'
  BY <1>6 DEF Disable, MayCall, ValuesOK
<1>7. ASSUME NEW a \in Apps, RegisterContext(a) PROVE ValuesOK'
  BY <1>7 DEF RegisterContext, ValuesOK
<1>8. ASSUME NEW a \in Apps, EnableGetValue(a) PROVE ValuesOK'
  BY <1>8 DEF EnableGetValue, ValuesOK
<1>9. ASSUME NEW a \in Apps, EnablePost(a) PROVE ValuesOK'
  BY <1>9 DEF EnablePost, ValuesOK
<1>10. CASE CleanupStart
  BY <1>10 DEF CleanupStart, AllIdle, ValuesOK
<1>11. CASE CleanupLock
  BY <1>11 DEF CleanupLock, ValuesOK
<1>12. CASE CleanupSetExit
  BY <1>12 DEF CleanupSetExit, ValuesOK
<1>13. CASE CleanupPost
  BY <1>13 DEF CleanupPost, ValuesOK
<1>14. CASE CleanupJoin
  BY <1>14 DEF CleanupJoin, ValuesOK
<1>15. CASE CleanupJoinStale
  BY <1>15 DEF CleanupJoinStale, ValuesOK
<1>16. CASE CleanupFree
  BY <1>16 DEF CleanupFree, ValuesOK
<1>17. CASE ThreadReadFlags
  BY <1>17 DEF ThreadReadFlags, ValuesOK
<1>18. CASE ThreadUnlock
  BY <1>18 DEF ThreadUnlock, ValuesOK
<1>19. CASE ThreadCheckEnable
  BY <1>19 DEF ThreadCheckEnable, ValuesOK
<1>20. CASE ThreadSemWait
  BY <1>20 DEF ThreadSemWait, ValuesOK
<1>21. CASE ThreadOpen
  BY <1>21 DEF ThreadOpen, ValuesOK
<1>22. CASE ThreadArm
  BY <1>22 DEF ThreadArm, ValuesOK
<1>23. CASE ThreadPoll
  BY <1>23 DEF ThreadPoll, ValuesOK
<1>24. CASE ThreadTestCallback
  BY <1>24 DEF ThreadTestCallback, ValuesOK
<1>25. CASE ThreadNoCallback
  BY <1>25 DEF ThreadNoCallback, CloseFd, ValuesOK
<1>26. CASE ThreadLoadCallback
  BY <1>26 DEF ThreadLoadCallback, ValuesOK
<1>27. CASE ThreadLoadContext
  BY <1>27 DEF ThreadLoadContext, ValuesOK
<1>28. CASE ThreadCallIsr
  BY <1>28 DEF ThreadCallIsr, ValuesOK
<1>29. CASE IsrReturn
  BY <1>29 DEF IsrReturn, ValuesOK
<1>30. CASE ThreadClose
  BY <1>30 DEF ThreadClose, CloseFd, ValuesOK
<1>31. CASE IsrDisable
  BY <1>31 DEF IsrDisable, ValuesOK
<1>32. CASE ThreadFails
  BY <1>32 DEF ThreadFails, CloseFd, ValuesOK
<1>33. CASE DeviceRaise
  BY <1>33 DEF DeviceRaise, ValuesOK
<1>34. CASE AppZero
  BY <1>34 DEF AppZero, ValuesOK
<1>35. CASE UNCHANGED vars
  BY <1>35 DEF ValuesOK
<1>36. QED
  BY <1>1, <1>2, <1>3, <1>4, <1>5, <1>6, <1>7, <1>8, <1>9, <1>10, <1>11,
     <1>12, <1>13, <1>14, <1>15, <1>16, <1>17, <1>18, <1>19, <1>20, <1>21,
     <1>22, <1>23, <1>24, <1>25, <1>26, <1>27, <1>28, <1>29, <1>30, <1>31,
     <1>32, <1>33, <1>34, <1>35
     DEF Next, AppContinue, CleanupContinue, ThreadStep

\* Together: every step keeps the types.
LEMMA TypeStep == TypeOK /\ [Next]_vars => TypeOK'
  BY FlagsStep, ValuesStep DEF TypeOK

\* Every step keeps the inductive invariant.
LEMMA InductiveStep == IInv /\ [Next]_vars => IInv'
<1> SUFFICES ASSUME IInv, [Next]_vars PROVE IInv'
  OBVIOUS
<1>0. ValuesOK /\ TypeOK'
  BY TypeStep DEF IInv, TypeOK
<1> USE <1>0, MainAssumption
    DEF vars, appVars, entryVars, syncVars, fdVars, threadVars, deviceVars,
        AppSteps, CleanupSteps, LoopSteps, EndSteps, IInv,
        ThreadHasSession, CleanupIsDown, LockOwned, ExitRequested,
        WakeupPending, LateOnce, NoDescriptorLeak, Running, Stopping
<1>1. CASE InitSingle
  BY <1>1 DEF InitSingle, NewSession, DriverOpens, CreateSync, AllIdle
<1>2. CASE InitSingleNoThread
  BY <1>2 DEF InitSingleNoThread, NewSession, DriverOpens, CreateSync, AllIdle
<1>3. CASE InitDfl
  BY <1>3 DEF InitDfl, NewSession, DriverOpens, AllIdle
<1>4. ASSUME NEW a \in Apps, NEW r \in Regs, RegisterCallback(a, r) PROVE IInv'
  BY <1>4 DEF RegisterCallback, MayCall
<1>5. ASSUME NEW a \in Apps, EnableFlag(a) PROVE IInv'
  BY <1>5 DEF EnableFlag, MayCall, ValuesOK
<1>6. ASSUME NEW a \in Apps, Disable(a) PROVE IInv'
  BY <1>6 DEF Disable, MayCall
<1>7. ASSUME NEW a \in Apps, RegisterContext(a) PROVE IInv'
  BY <1>7 DEF RegisterContext
<1>8. ASSUME NEW a \in Apps, EnableGetValue(a) PROVE IInv'
  BY <1>8 DEF EnableGetValue, ValuesOK
<1>9. ASSUME NEW a \in Apps, EnablePost(a) PROVE IInv'
  BY <1>9 DEF EnablePost, ValuesOK
<1>10. CASE CleanupStart
  BY <1>10 DEF CleanupStart, AllIdle, ValuesOK
<1>11. CASE CleanupLock
  BY <1>11 DEF CleanupLock
<1>12. CASE CleanupSetExit
  BY <1>12 DEF CleanupSetExit, ValuesOK
<1>13. CASE CleanupPost
  BY <1>13 DEF CleanupPost, ValuesOK
<1>14. CASE CleanupJoin
  BY <1>14 DEF CleanupJoin
<1>15. CASE CleanupJoinStale
  BY <1>15 DEF CleanupJoinStale
<1>16. CASE CleanupFree
  BY <1>16 DEF CleanupFree
<1>17. CASE ThreadReadFlags
  BY <1>17 DEF ThreadReadFlags
<1>18. CASE ThreadUnlock
  BY <1>18 DEF ThreadUnlock
<1>19. CASE ThreadCheckEnable
  BY <1>19 DEF ThreadCheckEnable
<1>20. CASE ThreadSemWait
  BY <1>20 DEF ThreadSemWait
<1>21. CASE ThreadOpen
  BY <1>21 DEF ThreadOpen
<1>22. CASE ThreadArm
  BY <1>22 DEF ThreadArm
<1>23. CASE ThreadPoll
  BY <1>23 DEF ThreadPoll
<1>24. CASE ThreadTestCallback
  BY <1>24 DEF ThreadTestCallback
<1>25. CASE ThreadNoCallback
  BY <1>25 DEF ThreadNoCallback, CloseFd, ValuesOK
<1>26. CASE ThreadLoadCallback
  BY <1>26 DEF ThreadLoadCallback
<1>27. CASE ThreadLoadContext
  BY <1>27 DEF ThreadLoadContext
<1>28. CASE ThreadCallIsr
  BY <1>28 DEF ThreadCallIsr
<1>29. CASE IsrReturn
  BY <1>29 DEF IsrReturn
<1>30. CASE ThreadClose
  BY <1>30 DEF ThreadClose, CloseFd, ValuesOK
<1>31. CASE IsrDisable
  BY <1>31 DEF IsrDisable
<1>32. CASE ThreadFails
  BY <1>32 DEF ThreadFails, CloseFd, ValuesOK
<1>33. CASE DeviceRaise
  BY <1>33 DEF DeviceRaise
<1>34. CASE AppZero
  BY <1>34 DEF AppZero
<1>35. CASE UNCHANGED vars
  BY <1>35
<1>36. QED
  BY <1>1, <1>2, <1>3, <1>4, <1>5, <1>6, <1>7, <1>8, <1>9, <1>10, <1>11,
     <1>12, <1>13, <1>14, <1>15, <1>16, <1>17, <1>18, <1>19, <1>20, <1>21,
     <1>22, <1>23, <1>24, <1>25, <1>26, <1>27, <1>28, <1>29, <1>30, <1>31,
     <1>32, <1>33, <1>34, <1>35
     DEF Next, AppContinue, CleanupContinue, ThreadStep

-----------------------------------------------------------------------------
\* The initial state has its types.
LEMMA InitType == Init => TypeOK
<1>1. Init => FlagsOK
  BY Zenon DEF Init, FlagsOK
<1>2. Init => ValuesOK
  BY SessionsAssumption DEF Init, ValuesOK, AppSteps, EndSteps
<1>3. QED
  BY <1>1, <1>2 DEF TypeOK

\* In every state of every execution the variables have their types.
THEOREM TypeCorrect == Spec => []TypeOK
  BY InitType, TypeStep, PTL DEF Spec

\* The inductive invariant holds throughout.
THEOREM Invariance == Spec => []IInv
<1>1. Init => IInv
  BY InitType, MainAssumption
     DEF Init, IInv, ThreadHasSession, CleanupIsDown, LockOwned, ExitRequested,
         WakeupPending, LateOnce, NoDescriptorLeak, Running, LoopSteps, CleanupSteps
<1>2. QED
  BY <1>1, InductiveStep, PTL DEF Spec

\* Cleanup frees the interface vector only after the interrupt thread has
\* ended.
THEOREM ShutdownSafe == Spec => []NoUseAfterFree
<1>1. IInv => NoUseAfterFree
  BY DEF IInv, ThreadHasSession, NoUseAfterFree, Running, LoopSteps
<1>2. QED
  BY <1>1, Invariance, PTL

\* The thread ends normally only because the cleanup of its own session asked
\* for it.
THEOREM ExitSafe == Spec => []ExitOnlyOnRequest
<1>1. IInv => ExitOnlyOnRequest
  BY DEF IInv, ThreadHasSession, ExitRequested, ExitOnlyOnRequest, Running, LoopSteps
<1>2. QED
  BY <1>1, Invariance, PTL

\* Whichever way the thread leaves its loop body, the descriptor is closed,
\* unless it is descriptor 0 at the regular end of the loop.
THEOREM DescriptorSafe == Spec => []NoDescriptorLeak
<1>1. IInv => NoDescriptorLeak
  BY DEF IInv
<1>2. QED
  BY <1>1, Invariance, PTL

\* The test of the semaphore's value before sem_post in fpga_enable_interrupt
\* and the post of cleanup never leave the thread asleep.
THEOREM WakeupSafe == Spec => []NoLostWakeup
<1>1. IInv => NoLostWakeup
  BY DEF IInv, TypeOK, ValuesOK, WakeupPending, NoLostWakeup
<1>2. QED
  BY <1>1, Invariance, PTL

\* However fpga_disable_interrupt races with poll, at most one more isr begins.
THEOREM LateIsrBounded == Spec => []AtMostOneLateIsr
<1>1. IInv => AtMostOneLateIsr
  BY DEF IInv, LateOnce, AtMostOneLateIsr
<1>2. QED
  BY <1>1, Invariance, PTL

-----------------------------------------------------------------------------
\* With one registration before the first enable, the context is NULL or
\* belongs to the callback, and it is set before the thread can need it.
ContextInv ==
    /\ \A a \in Apps : apc[a] = "reg_ctx" => areg[a] = callback /\ callback # None
    /\ context # None => context = callback
    /\ enable => context # None
    /\ tpc \in {"open", "arm", "poll", "isr", "load"} => context # None
    /\ tpc = "load" => tcall.fn \in {Unread, callback} /\ tcall.arg \in {Unread, context}
    /\ tpc = "running" => tcall.fn = tcall.arg

\* Every step keeps it, under that discipline.
LEMMA ContextStep ==
    RegisterFirst /\ IInv /\ ContextInv /\ [Next]_vars => ContextInv'
<1> SUFFICES ASSUME RegisterFirst, IInv, ContextInv, [Next]_vars
             PROVE  ContextInv'
  OBVIOUS
<1>0. ValuesOK /\ ThreadHasSession
  BY DEF IInv, TypeOK
<1> USE <1>0, MainAssumption
    DEF vars, appVars, entryVars, syncVars, fdVars, threadVars, deviceVars, ValuesOK,
        ContextInv, ThreadHasSession, Running, Stopping, LoopSteps, CleanupSteps
<1>1. CASE InitSingle
  BY <1>1 DEF InitSingle, NewSession, DriverOpens, CreateSync, AllIdle
<1>2. CASE InitSingleNoThread
  BY <1>2 DEF InitSingleNoThread, NewSession, DriverOpens, CreateSync, AllIdle
<1>3. CASE InitDfl
  BY <1>3 DEF InitDfl, NewSession, DriverOpens, AllIdle
<1>4. ASSUME NEW a \in Apps, NEW r \in Regs, RegisterCallback(a, r) PROVE ContextInv'
  BY <1>4, NoneAssumption DEF RegisterCallback, MayCall
<1>5. ASSUME NEW a \in Apps, EnableFlag(a) PROVE ContextInv'
  BY <1>5 DEF EnableFlag, MayCall
<1>6. ASSUME NEW a \in Apps, Disable(a) PROVE ContextInv'
  BY <1>6 DEF Disable, MayCall
<1>7. ASSUME NEW a \in Apps, RegisterContext(a) PROVE ContextInv'
  BY <1>7 DEF RegisterContext
<1>8. ASSUME NEW a \in Apps, EnableGetValue(a) PROVE ContextInv'
  BY <1>8 DEF EnableGetValue
<1>9. ASSUME NEW a \in Apps, EnablePost(a) PROVE ContextInv'
  BY <1>9 DEF EnablePost
<1>10. CASE CleanupStart
  BY <1>10 DEF CleanupStart, AllIdle
<1>11. CASE CleanupLock
  BY <1>11 DEF CleanupLock
<1>12. CASE CleanupSetExit
  BY <1>12 DEF CleanupSetExit
<1>13. CASE CleanupPost
  BY <1>13 DEF CleanupPost
<1>14. CASE CleanupJoin
  BY <1>14 DEF CleanupJoin
<1>15. CASE CleanupJoinStale
  BY <1>15 DEF CleanupJoinStale
<1>16. CASE CleanupFree
  BY <1>16 DEF CleanupFree
<1>17. CASE ThreadReadFlags
  BY <1>17 DEF ThreadReadFlags
<1>18. CASE ThreadUnlock
  BY <1>18 DEF ThreadUnlock
<1>19. CASE ThreadCheckEnable
  BY <1>19 DEF ThreadCheckEnable
<1>20. CASE ThreadSemWait
  BY <1>20 DEF ThreadSemWait
<1>21. CASE ThreadOpen
  BY <1>21 DEF ThreadOpen
<1>22. CASE ThreadArm
  BY <1>22 DEF ThreadArm
<1>23. CASE ThreadPoll
  BY <1>23 DEF ThreadPoll
<1>24. CASE ThreadTestCallback
  BY <1>24 DEF ThreadTestCallback
<1>25. CASE ThreadNoCallback
  BY <1>25 DEF ThreadNoCallback, CloseFd, ValuesOK
<1>26. CASE ThreadLoadCallback
  BY <1>26 DEF ThreadLoadCallback
<1>27. CASE ThreadLoadContext
  BY <1>27 DEF ThreadLoadContext
<1>28. CASE ThreadCallIsr
  BY <1>28 DEF ThreadCallIsr
<1>29. CASE IsrReturn
  BY <1>29 DEF IsrReturn
<1>30. CASE ThreadClose
  BY <1>30 DEF ThreadClose, CloseFd, ValuesOK
<1>31. CASE IsrDisable
  BY <1>31 DEF IsrDisable
<1>32. CASE ThreadFails
  BY <1>32 DEF ThreadFails, CloseFd, ValuesOK
<1>33. CASE DeviceRaise
  BY <1>33 DEF DeviceRaise
<1>34. CASE AppZero
  BY <1>34 DEF AppZero
<1>35. CASE UNCHANGED vars
  BY <1>35
<1>36. QED
  BY <1>1, <1>2, <1>3, <1>4, <1>5, <1>6, <1>7, <1>8, <1>9, <1>10, <1>11,
     <1>12, <1>13, <1>14, <1>15, <1>16, <1>17, <1>18, <1>19, <1>20, <1>21,
     <1>22, <1>23, <1>24, <1>25, <1>26, <1>27, <1>28, <1>29, <1>30, <1>31,
     <1>32, <1>33, <1>34, <1>35
     DEF Next, AppContinue, CleanupContinue, ThreadStep

\* An isr is always called with its own context if it is registered before
\* interrupts are first enabled and never replaced (re-registration is not
\* atomic: the run that allows it finds a torn pair).
THEOREM ContextSafe ==
    ASSUME RegisterFirst PROVE Spec => []IsrGetsItsContext
<1>1. Init => ContextInv
  BY DEF Init, ContextInv
<1>2. ContextInv => IsrGetsItsContext
  BY DEF ContextInv, IsrGetsItsContext
<1>3. IInv /\ ContextInv /\ [Next]_vars => ContextInv'
  BY ContextStep
<1>4. QED
  BY <1>1, <1>2, <1>3, Invariance, PTL DEF Spec
=============================================================================
