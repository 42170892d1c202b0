--------------------- MODULE OsalInterruptKernel_proofs ---------------------
(***************************************************************************)
(* Theorems about kernel interrupts with a handler thread, for any number  *)
(* of drivers on the line.  The type invariant and NoSleepWhilePending are *)
(* inductive; Lifecycle says what a driver's place in acquire and release  *)
(* means for its thread, its top half and its mark, and gives              *)
(* FreedMeansUnused; Owed extends MaskedIsOwed to the states inside a      *)
(* handler run, except between a top half's mask and its mark.             *)
(***************************************************************************)
EXTENDS OsalInterruptKernel, TLAPS

Lifecycle ==
    /\ \A d \in Drivers : dpc[d] = "out" <=> kpc[d] = "none"
    /\ \A d \in Drivers : d \in run => dpc[d] \in {"in", "unregister"}
    /\ \A d \in Drivers : pending[d] => dpc[d] \in {"in", "unregister", "unpend"}

Owes(d) == pending[d] \/ kpc[d] \in {"handler", "clear", "unmask"}

Owed ==
    masked /\ actions # {} /\ top # "pend" /\ ~abandoned => \E d \in Drivers : Owes(d)

-----------------------------------------------------------------------------
LEMMA InitAll == Init => TypeOK /\ Lifecycle /\ NoSleepWhilePending /\ Owed
  BY DriversAssumption DEF Init, TypeOK, Lifecycle, NoSleepWhilePending, Owed

(* Every step keeps the types, and the line's handlers are those of the drivers
   that hold the interrupt. *)
LEMMA TypeStep == TypeOK /\ [Next]_vars => TypeOK'
<1> SUFFICES ASSUME TypeOK, [Next]_vars PROVE TypeOK'
  OBVIOUS
<1> USE DriversAssumption DEF TypeOK, runVars, lineVars, threadVars, KGoto, DGoto, Set
<1>1. CASE Interrupt
  BY <1>1 DEF Interrupt
<1>2. CASE TopMask
  BY <1>2 DEF TopMask
<1>3. CASE TopPend
  BY <1>3 DEF TopPend
<1>4. CASE TopWake
  BY <1>4 DEF TopWake, TopReturn
<1>5. ASSUME NEW d \in Drivers, Raise(d) PROVE TypeOK'
  BY <1>5 DEF Raise
<1>6. ASSUME NEW d \in Drivers, KLoop(d) PROVE TypeOK'
  BY <1>6 DEF KLoop
<1>7. ASSUME NEW d \in Drivers, KPrepare(d) PROVE TypeOK'
  BY <1>7 DEF KPrepare
<1>8. ASSUME NEW d \in Drivers, KTest(d) PROVE TypeOK'
  BY <1>8 DEF KTest
<1>9. ASSUME NEW d \in Drivers, KSchedule(d) PROVE TypeOK'
  BY <1>9 DEF KSchedule
<1>10. ASSUME NEW d \in Drivers, KFinish(d) PROVE TypeOK'
  BY <1>10 DEF KFinish
<1>11. ASSUME NEW d \in Drivers, KHandler(d) PROVE TypeOK'
  BY <1>11 DEF KHandler
<1>12. ASSUME NEW d \in Drivers, KClear(d) PROVE TypeOK'
  BY <1>12 DEF KClear
<1>13. ASSUME NEW d \in Drivers, KUnmask(d) PROVE TypeOK'
  BY <1>13 DEF KUnmask
<1>14. ASSUME NEW d \in Drivers, AcquireRun(d) PROVE TypeOK'
  BY <1>14 DEF AcquireRun
<1>15. ASSUME NEW d \in Drivers, ReleaseFree(d) PROVE TypeOK'
  BY <1>15 DEF ReleaseFree
<1>16. ASSUME NEW d \in Drivers, AcquireRequest(d) PROVE TypeOK'
  BY <1>16 DEF AcquireRequest
<1>17. ASSUME NEW d \in Drivers, AcquireFail(d) PROVE TypeOK'
  BY <1>17 DEF AcquireFail
<1>18. ASSUME NEW d \in Drivers, ReleaseSync(d) PROVE TypeOK'
  BY <1>18 DEF ReleaseSync
<1>19. ASSUME NEW d \in Drivers, ReleaseUnpend(d) PROVE TypeOK'
  BY <1>19 DEF ReleaseUnpend
<1>20. ASSUME NEW d \in Drivers, KthreadStop(d) PROVE TypeOK'
  BY <1>20 DEF KthreadStop
<1>21. ASSUME NEW d \in Drivers, FreeInterrupt(d) PROVE TypeOK'
  BY <1>21 DEF FreeInterrupt
<1>22. CASE UNCHANGED vars
  BY <1>22 DEF vars
<1>. QED
  BY <1>1, <1>2, <1>3, <1>4, <1>5, <1>6, <1>7, <1>8, <1>9, <1>10, <1>11, <1>12, <1>13, <1>14, <1>15, <1>16, <1>17, <1>18, <1>19, <1>20, <1>21, <1>22
     DEF Next, TopHalf, Kthread, Driver

(* A driver passes through acquire and release in order, with its thread alive
   throughout, and gets its mark only while the line may call its top half. *)
LEMMA LifecycleStep == TypeOK /\ Lifecycle /\ [Next]_vars => Lifecycle'
<1> SUFFICES ASSUME TypeOK, Lifecycle, [Next]_vars PROVE Lifecycle'
  OBVIOUS
<1> USE DriversAssumption DEF TypeOK, runVars, lineVars, threadVars, KGoto, DGoto, Set, Lifecycle
<1>1. CASE Interrupt
  BY <1>1 DEF Interrupt
<1>2. CASE TopMask
  BY <1>2 DEF TopMask
<1>3. CASE TopPend
  BY <1>3 DEF TopPend
<1>4. CASE TopWake
  BY <1>4 DEF TopWake, TopReturn
<1>5. ASSUME NEW d \in Drivers, Raise(d) PROVE Lifecycle'
  BY <1>5 DEF Raise
<1>6. ASSUME NEW d \in Drivers, KLoop(d) PROVE Lifecycle'
  BY <1>6 DEF KLoop
<1>7. ASSUME NEW d \in Drivers, KPrepare(d) PROVE Lifecycle'
  BY <1>7 DEF KPrepare
<1>8. ASSUME NEW d \in Drivers, KTest(d) PROVE Lifecycle'
  BY <1>8 DEF KTest
<1>9. ASSUME NEW d \in Drivers, KSchedule(d) PROVE Lifecycle'
  BY <1>9 DEF KSchedule
<1>10. ASSUME NEW d \in Drivers, KFinish(d) PROVE Lifecycle'
  BY <1>10 DEF KFinish
<1>11. ASSUME NEW d \in Drivers, KHandler(d) PROVE Lifecycle'
  BY <1>11 DEF KHandler
<1>12. ASSUME NEW d \in Drivers, KClear(d) PROVE Lifecycle'
  BY <1>12 DEF KClear
<1>13. ASSUME NEW d \in Drivers, KUnmask(d) PROVE Lifecycle'
  BY <1>13 DEF KUnmask
<1>14. ASSUME NEW d \in Drivers, AcquireRun(d) PROVE Lifecycle'
  BY <1>14 DEF AcquireRun
<1>15. ASSUME NEW d \in Drivers, ReleaseFree(d) PROVE Lifecycle'
  BY <1>15 DEF ReleaseFree
<1>16. ASSUME NEW d \in Drivers, AcquireRequest(d) PROVE Lifecycle'
  BY <1>16 DEF AcquireRequest
<1>17. ASSUME NEW d \in Drivers, AcquireFail(d) PROVE Lifecycle'
  BY <1>17 DEF AcquireFail
<1>18. ASSUME NEW d \in Drivers, ReleaseSync(d) PROVE Lifecycle'
  BY <1>18 DEF ReleaseSync
<1>19. ASSUME NEW d \in Drivers, ReleaseUnpend(d) PROVE Lifecycle'
  BY <1>19 DEF ReleaseUnpend
<1>20. ASSUME NEW d \in Drivers, KthreadStop(d) PROVE Lifecycle'
  BY <1>20 DEF KthreadStop
<1>21. ASSUME NEW d \in Drivers, FreeInterrupt(d) PROVE Lifecycle'
  BY <1>21 DEF FreeInterrupt
<1>22. CASE UNCHANGED vars
  BY <1>22 DEF vars
<1>. QED
  BY <1>1, <1>2, <1>3, <1>4, <1>5, <1>6, <1>7, <1>8, <1>9, <1>10, <1>11, <1>12, <1>13, <1>14, <1>15, <1>16, <1>17, <1>18, <1>19, <1>20, <1>21, <1>22
     DEF Next, TopHalf, Kthread, Driver

(* The thread goes to sleep only if it has seen no mark after it prepared to
   wait, and every mark is followed by a wake-up in the same top half. *)
LEMMA NoSleepStep ==
    TypeOK /\ NoSleepWhilePending /\ [Next]_vars => NoSleepWhilePending'
<1> SUFFICES ASSUME TypeOK, NoSleepWhilePending, [Next]_vars
             PROVE NoSleepWhilePending'
  OBVIOUS
<1> USE DriversAssumption DEF TypeOK, runVars, lineVars, threadVars, KGoto, DGoto, Set, NoSleepWhilePending
<1>1. CASE Interrupt
  BY <1>1 DEF Interrupt
<1>2. CASE TopMask
  BY <1>2 DEF TopMask
<1>3. CASE TopPend
  BY <1>3 DEF TopPend
<1>4. CASE TopWake
  BY <1>4 DEF TopWake, TopReturn
<1>5. ASSUME NEW d \in Drivers, Raise(d) PROVE NoSleepWhilePending'
  BY <1>5 DEF Raise
<1>6. ASSUME NEW d \in Drivers, KLoop(d) PROVE NoSleepWhilePending'
  BY <1>6 DEF KLoop
<1>7. ASSUME NEW d \in Drivers, KPrepare(d) PROVE NoSleepWhilePending'
  BY <1>7 DEF KPrepare
<1>8. ASSUME NEW d \in Drivers, KTest(d) PROVE NoSleepWhilePending'
  BY <1>8 DEF KTest
<1>9. ASSUME NEW d \in Drivers, KSchedule(d) PROVE NoSleepWhilePending'
  BY <1>9 DEF KSchedule
<1>10. ASSUME NEW d \in Drivers, KFinish(d) PROVE NoSleepWhilePending'
  BY <1>10 DEF KFinish
<1>11. ASSUME NEW d \in Drivers, KHandler(d) PROVE NoSleepWhilePending'
  BY <1>11 DEF KHandler
<1>12. ASSUME NEW d \in Drivers, KClear(d) PROVE NoSleepWhilePending'
  BY <1>12 DEF KClear
<1>13. ASSUME NEW d \in Drivers, KUnmask(d) PROVE NoSleepWhilePending'
  BY <1>13 DEF KUnmask
<1>14. ASSUME NEW d \in Drivers, AcquireRun(d) PROVE NoSleepWhilePending'
  BY <1>14 DEF AcquireRun
<1>15. ASSUME NEW d \in Drivers, ReleaseFree(d) PROVE NoSleepWhilePending'
  BY <1>15 DEF ReleaseFree
<1>16. ASSUME NEW d \in Drivers, AcquireRequest(d) PROVE NoSleepWhilePending'
  BY <1>16 DEF AcquireRequest
<1>17. ASSUME NEW d \in Drivers, AcquireFail(d) PROVE NoSleepWhilePending'
  BY <1>17 DEF AcquireFail
<1>18. ASSUME NEW d \in Drivers, ReleaseSync(d) PROVE NoSleepWhilePending'
  BY <1>18 DEF ReleaseSync
<1>19. ASSUME NEW d \in Drivers, ReleaseUnpend(d) PROVE NoSleepWhilePending'
  BY <1>19 DEF ReleaseUnpend
<1>20. ASSUME NEW d \in Drivers, KthreadStop(d) PROVE NoSleepWhilePending'
  BY <1>20 DEF KthreadStop
<1>21. ASSUME NEW d \in Drivers, FreeInterrupt(d) PROVE NoSleepWhilePending'
  BY <1>21 DEF FreeInterrupt
<1>22. CASE UNCHANGED vars
  BY <1>22 DEF vars
<1>. QED
  BY <1>1, <1>2, <1>3, <1>4, <1>5, <1>6, <1>7, <1>8, <1>9, <1>10, <1>11, <1>12, <1>13, <1>14, <1>15, <1>16, <1>17, <1>18, <1>19, <1>20, <1>21, <1>22
     DEF Next, TopHalf, Kthread, Driver

(* A top half that has masked the line leaves a mark; a mark is passed on to
   the handler, and from there to the unmask, or dropped by a release. *)
LEMMA OwedStep == TypeOK /\ Lifecycle /\ Owed /\ [Next]_vars => Owed'
<1> SUFFICES ASSUME TypeOK, Lifecycle, Owed, [Next]_vars PROVE Owed'
  OBVIOUS
<1> USE DriversAssumption DEF TypeOK, runVars, lineVars, threadVars, KGoto, DGoto, Set, Lifecycle, Owed, Owes
<1>1. CASE Interrupt
  BY <1>1 DEF Interrupt
<1>2. CASE TopMask
  BY <1>2 DEF TopMask
<1>3. CASE TopPend
  BY <1>3 DEF TopPend
<1>4. CASE TopWake
  BY <1>4 DEF TopWake, TopReturn
<1>5. ASSUME NEW d \in Drivers, Raise(d) PROVE Owed'
  BY <1>5 DEF Raise
<1>6. ASSUME NEW d \in Drivers, KLoop(d) PROVE Owed'
  BY <1>6 DEF KLoop
<1>7. ASSUME NEW d \in Drivers, KPrepare(d) PROVE Owed'
  BY <1>7 DEF KPrepare
<1>8. ASSUME NEW d \in Drivers, KTest(d) PROVE Owed'
  BY <1>8 DEF KTest
<1>9. ASSUME NEW d \in Drivers, KSchedule(d) PROVE Owed'
  BY <1>9 DEF KSchedule
<1>10. ASSUME NEW d \in Drivers, KFinish(d) PROVE Owed'
  BY <1>10 DEF KFinish
<1>11. ASSUME NEW d \in Drivers, KHandler(d) PROVE Owed'
  BY <1>11 DEF KHandler
<1>12. ASSUME NEW d \in Drivers, KClear(d) PROVE Owed'
  BY <1>12 DEF KClear
<1>13. ASSUME NEW d \in Drivers, KUnmask(d) PROVE Owed'
  BY <1>13 DEF KUnmask
<1>14. ASSUME NEW d \in Drivers, AcquireRun(d) PROVE Owed'
  BY <1>14 DEF AcquireRun
<1>15. ASSUME NEW d \in Drivers, ReleaseFree(d) PROVE Owed'
  BY <1>15 DEF ReleaseFree
<1>16. ASSUME NEW d \in Drivers, AcquireRequest(d) PROVE Owed'
  BY <1>16 DEF AcquireRequest
<1>17. ASSUME NEW d \in Drivers, AcquireFail(d) PROVE Owed'
  BY <1>17 DEF AcquireFail
<1>18. ASSUME NEW d \in Drivers, ReleaseSync(d) PROVE Owed'
  BY <1>18 DEF ReleaseSync
<1>19. ASSUME NEW d \in Drivers, ReleaseUnpend(d) PROVE Owed'
  BY <1>19 DEF ReleaseUnpend
<1>20. ASSUME NEW d \in Drivers, KthreadStop(d) PROVE Owed'
  BY <1>20 DEF KthreadStop
<1>21. ASSUME NEW d \in Drivers, FreeInterrupt(d) PROVE Owed'
  BY <1>21 DEF FreeInterrupt
<1>22. CASE UNCHANGED vars
  BY <1>22 DEF vars
<1>. QED
  BY <1>1, <1>2, <1>3, <1>4, <1>5, <1>6, <1>7, <1>8, <1>9, <1>10, <1>11, <1>12, <1>13, <1>14, <1>15, <1>16, <1>17, <1>18, <1>19, <1>20, <1>21, <1>22
     DEF Next, TopHalf, Kthread, Driver

-----------------------------------------------------------------------------
IInv == TypeOK /\ Lifecycle /\ NoSleepWhilePending /\ Owed

LEMMA Invariance == Spec => []IInv
<1>1. Init => IInv
  BY InitAll DEF IInv
<1>2. IInv /\ [Next]_vars => IInv'
  BY TypeStep, LifecycleStep, NoSleepStep, OwedStep DEF IInv
<1>. QED
  BY <1>1, <1>2, PTL DEF Spec

(* The types, and: the line calls the top halves of exactly the drivers that
   have acquired and not released the interrupt. *)
THEOREM TypeCorrect == Spec => []TypeOK
<1>1. IInv => TypeOK
  BY DEF IInv
<1>. QED
  BY <1>1, Invariance, PTL

(* No handler thread sleeps through a pending interrupt. *)
THEOREM PendingWakes == Spec => []NoSleepWhilePending
<1>1. IInv => NoSleepWhilePending
  BY DEF IInv
<1>. QED
  BY <1>1, Invariance, PTL

(* When an interrupt is released, or its acquisition has failed, neither its
   thread nor the line uses what is freed. *)
THEOREM ReleaseIsSafe == Spec => []FreedMeansUnused
<1>1. IInv => FreedMeansUnused
  BY DEF IInv, TypeOK, Lifecycle, FreedMeansUnused
<1>. QED
  BY <1>1, Invariance, PTL

(* The mask bit that independent drivers share is not left set by their races. *)
THEOREM MaskIsCleared == Spec => []MaskedIsOwed
<1>1. IInv => MaskedIsOwed
  BY DriversAssumption DEF IInv, TypeOK, Owed, Owes, MaskedIsOwed
<1>. QED
  BY <1>1, Invariance, PTL
=============================================================================
