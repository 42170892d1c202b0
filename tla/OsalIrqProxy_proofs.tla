------------------------- MODULE OsalIrqProxy_proofs -------------------------
(***************************************************************************)
(* Proofs about user-space interrupts.  Every step of the driver, of the   *)
(* thread that reads it and of its owner is a step of the kernel event or  *)
(* leaves the event alone, so what is proved of the event holds of the one *)
(* in the driver.  Three more invariants say who may be in the driver      *)
(* (Lives), what a disabled irq is owed (Balance), and that the event is   *)
(* signaled only while somebody is about to take it or to note that the    *)
(* irq is disabled (Unread).                                               *)
(***************************************************************************)
EXTENDS OsalIrqProxy, TLAPS

(* What is proved of the kernel event. *)
Facts == INSTANCE OsalEventKernel_proofs WITH
    Waiters <- {reader, closer},
    Setters <- {irq},
    Calls <- [w \in {reader, closer} |-> IF w = reader THEN {Read} ELSE {Poll}]

Reading == {"entry", "enable", "call", "wait", "return"}
Releasing == {"test", "poll", "enable", "destroy"}

(* The file is open while it is registered, and closed but not released while a
   read of it is in progress.  Its release begins with the last of them, ends
   before the read or the close that began it goes on, and the proxy is there as
   long as any of this lasts. *)
Lives ==
    /\ file = "open" <=> upc \in {"write", "start", "in"}
    /\ file = "closed" => rpc \in Reading /\ upc \in {"closing", "setfd", "join"}
    /\ rpc \in Reading \ {"return"} => file # "none"
    /\ rel # "none" => file = "none" /\ (upc \in {"closing", "error"} \/ rpc = "return")
    /\ proxy = "listening" <=>
          upc \in {"start", "in"} \/ file = "closed" \/ rel = "free_irq"
    /\ proxy = "deaf" <=> rel \in Releasing
    /\ fd <=> upc \in {"write", "start", "in", "closing", "error", "setfd"}
    /\ rpc = "none" <=> upc \in {"out", "write", "start", "error"}
    /\ rpc = "exited" => upc = "join" /\ file = "none" /\ rel = "none"
    /\ hard # "none" => proxy = "listening"

(* Whoever disabled the irq has noted it, or is about to; whoever has taken the
   note enables the irq. *)
Balance ==
    /\ hard # "none" => ~disabled /\ rpc # "enable"
    /\ hard \in {"set", "wake", "disable"} => depth = 0
    /\ hard = "mark" => depth = 1
    /\ hard = "none" =>
          (depth = 1 <=> /\ proxy # "none" /\ rel # "destroy"
                         /\ disabled \/ rpc = "enable")
    /\ rpc = "enable" => ~disabled
    /\ rel = "enable" => disabled
    /\ rel = "poll" => ~disabled

(* Between the moment the event is signaled and the moment it is taken, the
   handler is running, or the irq is noted as disabled, or the reader is on its
   way through a wait: the release's poll never finds it signaled. *)
Unread ==
    /\ manual_reset = FALSE
    /\ IF rpc = "wait"
       THEN /\ call[reader] = Read
            /\ pc[reader] \in {"check", "taken", "arm", "schedule", "asleep", "conclude"}
       ELSE pc[reader] = "idle"
    /\ IF rel = "poll" THEN call[closer] = Poll /\ pc[closer] \in {"check", "polled"}
                       ELSE pc[closer] = "idle"
    /\ signaled /\ ~disabled /\ hard = "none" =>
          \/ rpc \in {"enable", "call"}
          \/ rpc = "wait" /\ pc[reader] # "taken"

IInv == TypeOK /\ Lives /\ Balance /\ Unread

-----------------------------------------------------------------------------
LEMMA InitAll == Init => IInv
<1> SUFFICES ASSUME Init PROVE IInv
  OBVIOUS
<1> USE DEF Init, Event!Init, Event!EventInit, Event!WaitersInit
<1>1. TypeOK
  <2>1. Event!TypeOK
    BY DEF Event!TypeOK
  <2>2. /\ disabled \in BOOLEAN /\ asserting \in BOOLEAN /\ fd \in BOOLEAN
        /\ irqfunc # "NULL" <=> upc # "out"
    BY Zenon
  <2> QED
    BY <2>1, <2>2 DEF TypeOK
<1>2. Lives
  BY DEF Lives, Reading, Releasing
<1>3. Balance
  BY DEF Balance
<1>4. Unread
  BY DEF Unread
<1> QED
  BY <1>1, <1>2, <1>3, <1>4 DEF IInv

(* Whatever the driver does to its event is a step of the event. *)
LEMMA EventStep ==
    ASSUME [Next]_vars
    PROVE  [Event!Next]_(Event!vars)
<1> USE NamesAssumption DEF eventVars, Event!vars, Event!eventVars, Event!taskVars, Event!timerVars
<1>1. CASE Raise
  BY <1>1 DEF Raise
<1>2. CASE Interrupt
  BY <1>2 DEF Interrupt
<1>3. CASE HandlerSet
  BY <1>3 DEF HandlerSet, Event!Next
<1>4. CASE HandlerDisable
  BY <1>4 DEF HandlerDisable
<1>5. CASE HandlerMark
  BY <1>5 DEF HandlerMark
<1>6. CASE ReaderLoop
  BY <1>6 DEF ReaderLoop
<1>7. CASE ReadEntry
  BY <1>7 DEF ReadEntry
<1>8. CASE ReadEnable
  BY <1>8 DEF ReadEnable
<1>9. CASE ReadCall
  BY <1>9 DEF ReadCall, Event!Next
<1>10. CASE ReadWait
  BY <1>10 DEF ReadWait, Event!Next
<1>11. CASE ReadReturn
  BY <1>11 DEF ReadReturn
<1>12. CASE IrqFunc
  BY <1>12 DEF IrqFunc
<1>13. ASSUME NEW function \in {"irqhandler", "bottom_handler"}, Open(function)
      PROVE  [Event!Next]_(Event!vars)
  BY <1>13 DEF Open, OsalIrqproxyOpen
<1>14. CASE Write
  BY <1>14 DEF Write, Event!Next
<1>15. CASE WriteFail
  BY <1>15 DEF WriteFail
<1>16. CASE StartThread
  BY <1>16 DEF StartThread
<1>17. CASE StartFail
  BY <1>17 DEF StartFail, Close
<1>18. CASE OsReleaseInterrupt \/ OsReleaseSharedInterrupt
  BY <1>18 DEF OsReleaseInterrupt, OsReleaseSharedInterrupt, Close
<1>19. CASE Closed
  BY <1>19 DEF Closed
<1>20. CASE SetFd
  BY <1>20 DEF SetFd
<1>21. CASE Join
  BY <1>21 DEF Join
<1>22. CASE ReleaseFreeIrq
  BY <1>22 DEF ReleaseFreeIrq
<1>23. CASE ReleaseTest
  BY <1>23 DEF ReleaseTest, Event!Next
<1>24. CASE ReleasePoll
  BY <1>24 DEF ReleasePoll, Event!Next
<1>25. CASE ReleaseEnable
  BY <1>25 DEF ReleaseEnable
<1>26. CASE ReleaseDestroy
  BY <1>26 DEF ReleaseDestroy, Event!Next
<1>27. CASE Timer \/ SignalReader
  BY <1>27 DEF Timer, SignalReader, Event!Next
<1>28. CASE UNCHANGED vars
  BY <1>28 DEF vars
<1> QED
  BY <1>1, <1>2, <1>3, <1>4, <1>5, <1>6, <1>7, <1>8, <1>9, <1>10, <1>11, <1>12,
     <1>13, <1>14, <1>15, <1>16, <1>17, <1>18, <1>19, <1>20, <1>21, <1>22, <1>23,
     <1>24, <1>25, <1>26, <1>27, <1>28
  DEF Next, Hard, Reader, Release, Unregister, OsAcquireInterrupt, OsAcquireSharedInterrupt

(* Facts speaks of the same event. *)
LEMMA EventAgrees ==
    /\ Event!Init <=> Facts!Init
    /\ Event!TypeOK <=> Facts!TypeOK
    /\ (Event!TypeOK <=> Facts!TypeOK)'
    /\ [Event!Next]_(Event!vars) <=> [Facts!Next]_(Facts!vars)
  BY
  DEF Event!TypeOK, Facts!TypeOK, Event!Init, Facts!Init, Event!EventInit,
      Facts!EventInit, Event!WaitersInit, Facts!WaitersInit, Event!Next,
      Facts!Next, Event!vars, Facts!vars, Event!eventVars, Facts!eventVars,
      Event!taskVars, Facts!taskVars, Event!timerVars, Facts!timerVars,
      Event!Handler, Facts!Handler, Event!Waiting, Facts!Waiting,
      Event!HandlerMark, Facts!HandlerMark, Event!HandlerWake, Facts!HandlerWake,
      Event!CheckSignaled, Facts!CheckSignaled, Event!CheckPoll, Facts!CheckPoll,
      Event!CheckSleep, Facts!CheckSleep, Event!Leave, Facts!Leave, Event!Arm,
      Facts!Arm, Event!Sleep, Facts!Sleep, Event!Resume, Facts!Resume,
      Event!Conclude, Facts!Conclude, Event!Expire, Facts!Expire, Event!Signal,
      Facts!Signal, Event!CallWait, Facts!CallWait, Event!SetFlag, Facts!SetFlag,
      Event!SetWake, Facts!SetWake, Event!OsEventCreate, Facts!OsEventCreate,
      Event!OsEventDestroy, Facts!OsEventDestroy, Event!OsEventReset,
      Facts!OsEventReset, Event!Goto, Facts!Goto, Event!InCall, Facts!InCall,
      Event!WakeUp, Facts!WakeUp, Event!FinishWait, Facts!FinishWait, Event!SeenBy,
      Facts!SeenBy, Event!EndCall, Facts!EndCall, Event!Interrupted,
      Facts!Interrupted, Event!ClearTimeout, Facts!ClearTimeout, Event!NoCall,
      Facts!NoCall, Event!AllCalls, Facts!AllCalls

(* The driver and its reader make calls that the event allows. *)
LEMMA EventCalls ==
    [w \in {reader, closer} |-> IF w = reader THEN {Read} ELSE {Poll}]
        \in [{reader, closer} -> SUBSET Facts!AllCalls]
  BY DEF Facts!AllCalls, Read, Poll

LEMMA EventTypes == TypeOK /\ [Next]_vars => Event!TypeOK'
<1>1. Facts!TypeOK /\ [Facts!Next]_(Facts!vars) => Facts!TypeOK'
  BY NamesAssumption, EventCalls, Facts!TypeStep
<1> QED
  BY <1>1, EventStep, EventAgrees DEF TypeOK

(* The file, the release and the proxy. *)
LEMMA LivesStep ==
    ASSUME TypeOK, Lives, [Next]_vars
    PROVE  Lives'
<1> USE DEF TypeOK, Lives, Reading, Releasing, lineVars, userVars
<1>1. CASE Raise
  BY <1>1 DEF Raise
<1>2. CASE Interrupt
  BY <1>2 DEF Interrupt
<1>3. CASE HandlerSet
  BY <1>3 DEF HandlerSet
<1>4. CASE HandlerDisable
  BY <1>4 DEF HandlerDisable
<1>5. CASE HandlerMark
  BY <1>5 DEF HandlerMark
<1>6. CASE ReaderLoop
  BY <1>6 DEF ReaderLoop
<1>7. CASE ReadEntry
  BY <1>7 DEF ReadEntry
<1>8. CASE ReadEnable
  BY <1>8 DEF ReadEnable
<1>9. CASE ReadCall
  BY <1>9 DEF ReadCall
<1>10. CASE ReadWait
  BY <1>10 DEF ReadWait
<1>11. CASE ReadReturn
  BY <1>11 DEF ReadReturn
<1>12. CASE IrqFunc
  BY <1>12 DEF IrqFunc
<1>13. ASSUME NEW function \in {"irqhandler", "bottom_handler"}, Open(function)
      PROVE  Lives'
  BY <1>13 DEF Open, OsalIrqproxyOpen
<1>14. CASE Write
  BY <1>14 DEF Write
<1>15. CASE WriteFail
  BY <1>15 DEF WriteFail
<1>16. CASE StartThread
  BY <1>16 DEF StartThread
<1>17. CASE StartFail
  BY <1>17 DEF StartFail, Close
<1>18. CASE OsReleaseInterrupt \/ OsReleaseSharedInterrupt
  BY <1>18 DEF OsReleaseInterrupt, OsReleaseSharedInterrupt, Close
<1>19. CASE Closed
  BY <1>19 DEF Closed
<1>20. CASE SetFd
  BY <1>20 DEF SetFd
<1>21. CASE Join
  BY <1>21 DEF Join
<1>22. CASE ReleaseFreeIrq
  BY <1>22 DEF ReleaseFreeIrq
<1>23. CASE ReleaseTest
  BY <1>23 DEF ReleaseTest
<1>24. CASE ReleasePoll
  BY <1>24 DEF ReleasePoll
<1>25. CASE ReleaseEnable
  BY <1>25 DEF ReleaseEnable
<1>26. CASE ReleaseDestroy
  BY <1>26 DEF ReleaseDestroy
<1>27. CASE Timer \/ SignalReader
  BY <1>27 DEF Timer, SignalReader
<1>28. CASE UNCHANGED vars
  BY <1>28 DEF vars
<1> QED
  BY <1>1, <1>2, <1>3, <1>4, <1>5, <1>6, <1>7, <1>8, <1>9, <1>10, <1>11, <1>12,
     <1>13, <1>14, <1>15, <1>16, <1>17, <1>18, <1>19, <1>20, <1>21, <1>22, <1>23,
     <1>24, <1>25, <1>26, <1>27, <1>28
  DEF Next, Hard, Reader, Release, Unregister, OsAcquireInterrupt, OsAcquireSharedInterrupt

(* The irq and the note that it is disabled. *)
LEMMA BalanceStep ==
    ASSUME TypeOK, Lives, Balance, Unread, [Next]_vars
    PROVE  Balance'
<1> USE DEF TypeOK, Lives, Reading, Releasing, Balance, lineVars, userVars
<1>1. CASE Raise
  BY <1>1 DEF Raise
<1>2. CASE Interrupt
  BY <1>2 DEF Interrupt
<1>3. CASE HandlerSet
  BY <1>3 DEF HandlerSet
<1>4. CASE HandlerDisable
  BY <1>4 DEF HandlerDisable
<1>5. CASE HandlerMark
  BY <1>5 DEF HandlerMark
<1>6. CASE ReaderLoop
  BY <1>6 DEF ReaderLoop
<1>7. CASE ReadEntry
  BY <1>7 DEF ReadEntry
<1>8. CASE ReadEnable
  BY <1>8 DEF ReadEnable
<1>9. CASE ReadCall
  BY <1>9 DEF ReadCall
<1>10. CASE ReadWait
  BY <1>10 DEF ReadWait
<1>11. CASE ReadReturn
  BY <1>11 DEF ReadReturn
<1>12. CASE IrqFunc
  BY <1>12 DEF IrqFunc
<1>13. ASSUME NEW function \in {"irqhandler", "bottom_handler"}, Open(function)
      PROVE  Balance'
  BY <1>13 DEF Open, OsalIrqproxyOpen
<1>14. CASE Write
  BY <1>14 DEF Write
<1>15. CASE WriteFail
  BY <1>15 DEF WriteFail
<1>16. CASE StartThread
  BY <1>16 DEF StartThread
<1>17. CASE StartFail
  BY <1>17 DEF StartFail, Close
<1>18. CASE OsReleaseInterrupt \/ OsReleaseSharedInterrupt
  BY <1>18 DEF OsReleaseInterrupt, OsReleaseSharedInterrupt, Close
<1>19. CASE Closed
  BY <1>19 DEF Closed
<1>20. CASE SetFd
  BY <1>20 DEF SetFd
<1>21. CASE Join
  BY <1>21 DEF Join
<1>22. CASE ReleaseFreeIrq
  BY <1>22 DEF ReleaseFreeIrq
<1>23. CASE ReleaseTest
  BY <1>23 DEF ReleaseTest
<1>24. CASE ReleasePoll
  <2>1. pc[closer] \in {"check", "polled"}
    BY <1>24 DEF Unread, ReleasePoll
  <2>2. rel' = "enable" => pc[closer] = "taken"
    BY <1>24, <2>1 DEF ReleasePoll, Event!Outcome
  <2> QED
    BY <1>24, <2>1, <2>2 DEF ReleasePoll
<1>25. CASE ReleaseEnable
  BY <1>25 DEF ReleaseEnable
<1>26. CASE ReleaseDestroy
  BY <1>26 DEF ReleaseDestroy
<1>27. CASE Timer \/ SignalReader
  BY <1>27 DEF Timer, SignalReader
<1>28. CASE UNCHANGED vars
  BY <1>28 DEF vars
<1> QED
  BY <1>1, <1>2, <1>3, <1>4, <1>5, <1>6, <1>7, <1>8, <1>9, <1>10, <1>11, <1>12,
     <1>13, <1>14, <1>15, <1>16, <1>17, <1>18, <1>19, <1>20, <1>21, <1>22, <1>23,
     <1>24, <1>25, <1>26, <1>27, <1>28
  DEF Next, Hard, Reader, Release, Unregister, OsAcquireInterrupt, OsAcquireSharedInterrupt

(* The event. *)
LEMMA UnreadStep ==
    ASSUME TypeOK, Lives, Balance, Unread, [Next]_vars
    PROVE  Unread'
<1> USE NamesAssumption
    DEF TypeOK, Event!TypeOK, Lives, Reading, Releasing, Balance, Unread, Read, Poll,
        eventVars, lineVars, userVars, Event!eventVars, Event!taskVars, Event!timerVars
<1>1. CASE Raise
  BY <1>1 DEF Raise
<1>2. CASE Interrupt
  BY <1>2 DEF Interrupt
<1>3. CASE HandlerSet
  BY <1>3 DEF HandlerSet, Event!SetFlag, Event!SetWake
<1>4. CASE HandlerDisable
  BY <1>4 DEF HandlerDisable
<1>5. CASE HandlerMark
  BY <1>5 DEF HandlerMark
<1>6. CASE ReaderLoop
  BY <1>6 DEF ReaderLoop
<1>7. CASE ReadEntry
  BY <1>7 DEF ReadEntry
<1>8. CASE ReadEnable
  BY <1>8 DEF ReadEnable
<1>9. CASE ReadCall
  BY <1>9 DEF ReadCall, Event!CallWait, Event!Goto
<1>10. CASE ReadWait
  <2> USE <1>10 DEF ReadWait, Event!Goto
  <2>1. ASSUME Event!CheckSignaled(reader) PROVE Unread'
    BY <2>1 DEF Event!CheckSignaled
  <2>2. ASSUME Event!CheckPoll(reader) PROVE Unread'
    BY <2>2 DEF Event!CheckPoll
  <2>3. ASSUME Event!CheckSleep(reader) PROVE Unread'
    BY <2>3 DEF Event!CheckSleep
  <2>4. ASSUME Event!Leave(reader) PROVE Unread'
    BY <2>4 DEF Event!Leave, Event!EndCall
  <2>5. ASSUME Event!Arm(reader) PROVE Unread'
    BY <2>5 DEF Event!Arm
  <2>6. ASSUME Event!Sleep(reader) PROVE Unread'
    BY <2>6 DEF Event!Sleep
  <2>7. ASSUME Event!Resume(reader) PROVE Unread'
    BY <2>7 DEF Event!Resume
  <2>8. ASSUME Event!Conclude(reader) PROVE Unread'
    BY <2>8 DEF Event!Conclude, Event!EndCall
  <2> QED
    BY <2>1, <2>2, <2>3, <2>4, <2>5, <2>6, <2>7, <2>8 DEF Event!Waiting
<1>11. CASE ReadReturn
  BY <1>11 DEF ReadReturn
<1>12. CASE IrqFunc
  BY <1>12 DEF IrqFunc
<1>13. ASSUME NEW function \in {"irqhandler", "bottom_handler"}, Open(function)
      PROVE  Unread'
  BY <1>13 DEF Open, OsalIrqproxyOpen
<1>14. CASE Write
  BY <1>14 DEF Write, Event!OsEventCreate
<1>15. CASE WriteFail
  BY <1>15 DEF WriteFail
<1>16. CASE StartThread
  BY <1>16 DEF StartThread
<1>17. CASE StartFail
  BY <1>17 DEF StartFail, Close
<1>18. CASE OsReleaseInterrupt \/ OsReleaseSharedInterrupt
  <2>1. Close("in", "closing")
    BY <1>18 DEF OsReleaseInterrupt, OsReleaseSharedInterrupt
  <2> QED
    BY <2>1 DEF Close
<1>19. CASE Closed
  BY <1>19 DEF Closed
<1>20. CASE SetFd
  BY <1>20 DEF SetFd
<1>21. CASE Join
  BY <1>21 DEF Join
<1>22. CASE ReleaseFreeIrq
  BY <1>22 DEF ReleaseFreeIrq
<1>23. CASE ReleaseTest
  BY <1>23 DEF ReleaseTest, Event!CallWait, Event!Goto
<1>24. CASE ReleasePoll
  <2> USE DEF Event!Goto
  <2>0. ~signaled /\ call[closer] = Poll /\ pc[closer] \in {"check", "polled"}
    BY <1>24 DEF ReleasePoll
  <2>1. ASSUME Event!CheckPoll(closer) PROVE Unread'
    BY <1>24, <2>1 DEF ReleasePoll, Event!CheckPoll
  <2>2. ASSUME Event!Leave(closer) PROVE Unread'
    BY <1>24, <2>2 DEF ReleasePoll, Event!Leave, Event!EndCall
  <2>3. /\ ~Event!CheckSignaled(closer) /\ ~Event!CheckSleep(closer) /\ ~Event!Arm(closer)
        /\ ~Event!Sleep(closer) /\ ~Event!Resume(closer) /\ ~Event!Conclude(closer)
    BY <2>0
    DEF Event!CheckSignaled, Event!CheckSleep, Event!Arm, Event!Sleep, Event!Resume,
        Event!Conclude
  <2> QED
    BY <1>24, <2>1, <2>2, <2>3 DEF ReleasePoll, Event!Waiting
<1>25. CASE ReleaseEnable
  BY <1>25 DEF ReleaseEnable
<1>26. CASE ReleaseDestroy
  BY <1>26 DEF ReleaseDestroy, Event!OsEventDestroy
<1>27. CASE Timer \/ SignalReader
  <2>1. UNCHANGED <<signaled, manual_reset, pc, call>>
    BY <1>27
    DEF Timer, SignalReader, Event!Expire, Event!Handler, Event!HandlerMark,
        Event!HandlerWake, Event!Signal
  <2>2. UNCHANGED <<disabled, hard, rel, rpc>>
    BY <1>27 DEF Timer, SignalReader
  <2> QED
    BY <2>1, <2>2
<1>28. CASE UNCHANGED vars
  BY <1>28 DEF vars
<1> QED
  BY <1>1, <1>2, <1>3, <1>4, <1>5, <1>6, <1>7, <1>8, <1>9, <1>10, <1>11, <1>12,
     <1>13, <1>14, <1>15, <1>16, <1>17, <1>18, <1>19, <1>20, <1>21, <1>22, <1>23,
     <1>24, <1>25, <1>26, <1>27, <1>28
  DEF Next, Hard, Reader, Release, Unregister, OsAcquireInterrupt, OsAcquireSharedInterrupt

(* The types; depth is a type only because of Balance. *)
LEMMA TypeStep ==
    ASSUME IInv, [Next]_vars
    PROVE  TypeOK'
<1> USE EventTypes DEF IInv, Lives, Balance, TypeOK, lineVars, userVars
<1>1. CASE Raise
  BY <1>1 DEF Raise
<1>2. CASE Interrupt
  BY <1>2 DEF Interrupt
<1>3. CASE HandlerSet
  BY <1>3 DEF HandlerSet
<1>4. CASE HandlerDisable
  BY <1>4 DEF HandlerDisable
<1>5. CASE HandlerMark
  BY <1>5 DEF HandlerMark
<1>6. CASE ReaderLoop
  BY <1>6 DEF ReaderLoop
<1>7. CASE ReadEntry
  BY <1>7 DEF ReadEntry
<1>8. CASE ReadEnable
  <2>1. depth = 1
    BY <1>8 DEF ReadEnable, Reading
  <2> QED
    BY <1>8, <2>1 DEF ReadEnable
<1>9. CASE ReadCall
  BY <1>9 DEF ReadCall
<1>10. CASE ReadWait
  BY <1>10 DEF ReadWait
<1>11. CASE ReadReturn
  BY <1>11 DEF ReadReturn
<1>12. CASE IrqFunc
  BY <1>12 DEF IrqFunc
<1>13. ASSUME NEW function \in {"irqhandler", "bottom_handler"}, Open(function)
      PROVE  TypeOK'
  BY <1>13 DEF Open, OsalIrqproxyOpen
<1>14. CASE Write
  BY <1>14 DEF Write
<1>15. CASE WriteFail
  BY <1>15 DEF WriteFail
<1>16. CASE StartThread
  BY <1>16 DEF StartThread
<1>17. CASE StartFail
  BY <1>17 DEF StartFail, Close
<1>18. CASE OsReleaseInterrupt \/ OsReleaseSharedInterrupt
  BY <1>18 DEF OsReleaseInterrupt, OsReleaseSharedInterrupt, Close
<1>19. CASE Closed
  BY <1>19 DEF Closed
<1>20. CASE SetFd
  BY <1>20 DEF SetFd
<1>21. CASE Join
  BY <1>21 DEF Join
<1>22. CASE ReleaseFreeIrq
  BY <1>22 DEF ReleaseFreeIrq
<1>23. CASE ReleaseTest
  BY <1>23 DEF ReleaseTest
<1>24. CASE ReleasePoll
  BY <1>24 DEF ReleasePoll
<1>25. CASE ReleaseEnable
  <2>1. depth = 1
    BY <1>25 DEF ReleaseEnable, Releasing
  <2> QED
    BY <1>25, <2>1 DEF ReleaseEnable
<1>26. CASE ReleaseDestroy
  BY <1>26 DEF ReleaseDestroy
<1>27. CASE Timer \/ SignalReader
  BY <1>27 DEF Timer, SignalReader
<1>28. CASE UNCHANGED vars
  BY <1>28 DEF vars
<1> QED
  BY <1>1, <1>2, <1>3, <1>4, <1>5, <1>6, <1>7, <1>8, <1>9, <1>10, <1>11, <1>12,
     <1>13, <1>14, <1>15, <1>16, <1>17, <1>18, <1>19, <1>20, <1>21, <1>22, <1>23,
     <1>24, <1>25, <1>26, <1>27, <1>28
  DEF Next, Hard, Reader, Release, Unregister, OsAcquireInterrupt, OsAcquireSharedInterrupt

-----------------------------------------------------------------------------
LEMMA Invariance == Spec => []IInv
<1>1. IInv /\ [Next]_vars => IInv'
  BY TypeStep, LivesStep, BalanceStep, UnreadStep DEF IInv
<1> QED
  BY <1>1, InitAll, PTL DEF Spec

(* The types, the event's included; and the irq, which handler, reader and release
   count up and down, is disabled at most once. *)
THEOREM TypeCorrect == Spec => []TypeOK
<1>1. IInv => TypeOK
  BY DEF IInv
<1> QED
  BY <1>1, Invariance, PTL

(* osal_irqproxy_read and osal_irqproxy_release enable the irq only when it is
   disabled, although the flag that tells them has no lock. *)
THEOREM EnablesArePaired == Spec => []EnableIsBalanced
<1>1. IInv => EnableIsBalanced
  BY DEF IInv, TypeOK, Lives, Reading, Releasing, Balance, EnableIsBalanced
<1> QED
  BY <1>1, Invariance, PTL

(* When the proxy is gone no handler runs and the shared line is enabled. *)
THEOREM LineIsLeftEnabled == Spec => []LineLeftEnabled
<1>1. IInv => LineLeftEnabled
  BY DEF IInv, TypeOK, Lives, Balance, LineLeftEnabled
<1> QED
  BY <1>1, Invariance, PTL

(* While the proxy listens a disabled irq is noted, is being noted or is being
   enabled: the note is not lost between the handler and a read. *)
THEOREM NoteIsKept == Spec => []DisabledIsNoted
<1>1. IInv => DisabledIsNoted
  BY DEF IInv, TypeOK, Lives, Balance, DisabledIsNoted
<1> QED
  BY <1>1, Invariance, PTL

(* The event in the driver is the kernel event: the driver uses it only through
   its operations and one at a time. *)
THEOREM EventIsUsed == Spec => Event!Init /\ [][Event!Next]_(Event!vars)
<1>1. Init => Event!Init
  BY DEF Init
<1> QED
  BY <1>1, EventStep, PTL DEF Spec

(* So the kernel event's promises hold in the driver: a read does not sleep
   through an interrupt, its timer does not outlive it, and it reports an
   interrupt only if the event was set or a timer fired. *)
THEOREM EventPromises ==
    Spec => [](Event!NoSleepWhileSignaled /\ Event!TimerDisarmed /\ Event!SuccessHasCause)
<1>1. Facts!Init => Facts!IInv
  BY NamesAssumption, EventCalls, Facts!InitAll DEF Facts!IInv
<1>2. Facts!IInv /\ [Facts!Next]_(Facts!vars) => Facts!IInv'
  BY NamesAssumption, EventCalls, Facts!InvariantKept
<1>3. Facts!IInv => Event!NoSleepWhileSignaled /\ Event!TimerDisarmed /\ Event!SuccessHasCause
  <2> SUFFICES ASSUME Facts!IInv
               PROVE  /\ Event!NoSleepWhileSignaled /\ Event!TimerDisarmed
                      /\ Event!SuccessHasCause
    OBVIOUS
  <2> USE DEF Facts!IInv
  <2>1. Event!NoSleepWhileSignaled
    BY DEF Facts!Sleepers, Event!NoSleepWhileSignaled
  <2>2. Event!TimerDisarmed
    BY DEF Facts!TimerDisarmed, Event!TimerDisarmed
  <2>3. Event!SuccessHasCause
    BY DEF Facts!TypeOK, Facts!Causes, Facts!Interrupted, Event!Interrupted,
           Event!SuccessHasCause, Event!Outcome, Event!TimedOut
  <2> QED
    BY <2>1, <2>2, <2>3
<1> QED
  BY <1>1, <1>2, <1>3, EventIsUsed, EventAgrees, PTL
=============================================================================
