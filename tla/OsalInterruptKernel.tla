------------------------- MODULE OsalInterruptKernel -------------------------
(***************************************************************************)
(* os_acquire_interrupt and os_release_interrupt of                        *)
(* linux_kernel/src/osal_irq.c: drivers share a level-triggered interrupt  *)
(* line; each has a top half that masks the line at the chip, marks the    *)
(* driver pending and wakes its kthread, and a kthread that calls the      *)
(* driver's handler, clears the mark and unmasks the line.  The mask is    *)
(* one bit for all the drivers of the line.                                *)
(*                                                                         *)
(* From the kernel (not under src/): one handler run at a time per line,   *)
(* which calls every registered top half, in any order; the first          *)
(* request_irq starts the line up unmasked and the last free_irq shuts it  *)
(* down; free_irq waits for a run in progress; kthread_stop sets a flag,   *)
(* wakes the thread once and waits for it to exit.                         *)
(***************************************************************************)
CONSTANTS
    Drivers,    \* the drivers that may share the line
    NoDriver    \* no top half is running

ASSUME DriversAssumption == NoDriver \notin Drivers

VARIABLES
    \* the line
    masked,         \* the mask bit of the chip
    actions,        \* the drivers registered on the line
    run,            \* the drivers the handler run in progress has yet to finish
    current,        \* the one of them whose top half is running
    top,            \* its next step
    asserting,      \* the drivers whose device asserts the line
    \* per driver: linux_int_t and its kthread
    pending,        \* linux_int->pending
    kpc,            \* where the kthread is
    runnable,       \* its task state is TASK_RUNNING
    should_stop,    \* kthread_should_stop()
    dpc,            \* where the driver is in acquire and release
    \* history
    abandoned       \* a release cleared the mark before the thread acted on it

runVars == <<run, current, top>>
lineVars == <<masked, actions, runVars, asserting>>
threadVars == <<kpc, runnable, should_stop>>
vars == <<lineVars, pending, threadVars, dpc, abandoned>>

(* The types; the line calls the top halves of exactly the drivers that hold the
   interrupt, and a driver whose top half is running is part of a run. *)
TypeOK ==
    /\ masked \in BOOLEAN
    /\ actions = {d \in Drivers : dpc[d] = "in"}
    /\ run \subseteq Drivers
    /\ current \in run \cup {NoDriver}
    /\ top \in {"mask", "pend", "wake"}
    /\ top = "mask" <=> current = NoDriver
    /\ asserting \subseteq Drivers
    /\ pending \in [Drivers -> BOOLEAN]
    /\ kpc \in [Drivers -> {"none", "loop", "prepare", "test", "schedule", "finish",
                            "handler", "clear", "unmask", "exited"}]
    /\ runnable \in [Drivers -> BOOLEAN]
    /\ should_stop \in [Drivers -> BOOLEAN]
    /\ dpc \in [Drivers -> {"out", "request", "in", "unregister", "unpend",
                            "stop", "join"}]
    /\ abandoned \in BOOLEAN

Init ==
    /\ masked = TRUE
    /\ actions = {}
    /\ run = {} /\ current = NoDriver /\ top = "mask"
    /\ asserting = {}
    /\ pending = [d \in Drivers |-> FALSE]
    /\ kpc = [d \in Drivers |-> "none"]
    /\ runnable = [d \in Drivers |-> TRUE]
    /\ should_stop = [d \in Drivers |-> FALSE]
    /\ dpc = [d \in Drivers |-> "out"]
    /\ abandoned = FALSE

KGoto(d, from, to) == kpc[d] = from /\ kpc' = [kpc EXCEPT ![d] = to]
DGoto(d, from, to) == dpc[d] = from /\ dpc' = [dpc EXCEPT ![d] = to]
Set(f, d, b) == [f EXCEPT ![d] = b]

-----------------------------------------------------------------------------
(* The line and linux_interrupt_handler, the top half *)

Raise(d) ==
    /\ dpc[d] = "in" /\ d \notin asserting
    /\ asserting' = asserting \cup {d}
    /\ UNCHANGED <<masked, actions, runVars, pending, threadVars, dpc, abandoned>>

Interrupt ==
    /\ asserting # {} /\ ~masked /\ run = {}
    /\ run' = actions
    /\ UNCHANGED <<masked, actions, current, top, asserting, pending, threadVars, dpc,
                   abandoned>>

TopMask ==
    /\ top = "mask"
    /\ current' \in run
    /\ masked' = TRUE
    /\ top' = "pend"
    /\ UNCHANGED <<actions, run, asserting, pending, threadVars, dpc, abandoned>>

TopPend ==
    /\ top = "pend"
    /\ pending' = Set(pending, current, TRUE)
    /\ top' = "wake"
    /\ UNCHANGED <<masked, actions, run, current, asserting, threadVars, dpc, abandoned>>

TopReturn ==
    /\ run' = run \ {current}
    /\ current' = NoDriver
    /\ top' = "mask"
    /\ UNCHANGED <<masked, actions, asserting, pending, kpc, should_stop, dpc, abandoned>>

(* Mutated: the top half returns without waking the thread. *)
TopNoWake ==
    /\ top = "wake"
    /\ UNCHANGED runnable
    /\ TopReturn

TopWake ==
    /\ top = "wake"
    /\ runnable' = Set(runnable, current, TRUE)
    /\ TopReturn

-----------------------------------------------------------------------------
(* kthread_wrapper *)

KLoop(d) ==
    /\ KGoto(d, "loop", IF should_stop[d] THEN "exited" ELSE "prepare")
    /\ UNCHANGED <<lineVars, pending, runnable, should_stop, dpc, abandoned>>

KPrepare(d) ==
    /\ KGoto(d, "prepare", "test")
    /\ runnable' = Set(runnable, d, FALSE)
    /\ UNCHANGED <<lineVars, pending, should_stop, dpc, abandoned>>

KTest(d) ==
    /\ KGoto(d, "test", IF pending[d] THEN "finish" ELSE "schedule")
    /\ UNCHANGED <<lineVars, pending, runnable, should_stop, dpc, abandoned>>

KSchedule(d) ==
    /\ runnable[d]
    /\ KGoto(d, "schedule", "finish")
    /\ UNCHANGED <<lineVars, pending, runnable, should_stop, dpc, abandoned>>

KFinish(d) ==
    /\ KGoto(d, "finish", IF pending[d] THEN "handler" ELSE "loop")
    /\ runnable' = Set(runnable, d, TRUE)
    /\ UNCHANGED <<lineVars, pending, should_stop, dpc, abandoned>>

(* The driver's own handler makes its device stop asserting the line. *)
KHandler(d) ==
    /\ KGoto(d, "handler", "clear")
    /\ asserting' = asserting \ {d}
    /\ UNCHANGED <<masked, actions, runVars, pending, runnable, should_stop, dpc, abandoned>>

KClear(d) ==
    /\ KGoto(d, "clear", "unmask")
    /\ pending' = Set(pending, d, FALSE)
    /\ UNCHANGED <<lineVars, runnable, should_stop, dpc, abandoned>>

(* Mutated: the thread leaves it to the next top half to unmask the line. *)
KNoUnmask(d) ==
    /\ KGoto(d, "unmask", "loop")
    /\ UNCHANGED <<lineVars, pending, runnable, should_stop, dpc, abandoned>>

KUnmask(d) ==
    /\ KGoto(d, "unmask", "loop")
    /\ masked' = FALSE
    /\ UNCHANGED <<actions, runVars, asserting, pending, runnable, should_stop, dpc, abandoned>>

(* Mutated: the line is unmasked before the mark is cleared. *)
KthreadUnmaskFirst(d) ==
    \/ KLoop(d) \/ KPrepare(d) \/ KTest(d) \/ KSchedule(d) \/ KFinish(d) \/ KHandler(d)
    \/ /\ KGoto(d, "clear", "unmask")
       /\ masked' = FALSE
       /\ UNCHANGED <<actions, runVars, asserting, pending, runnable, should_stop, dpc,
                      abandoned>>
    \/ /\ KGoto(d, "unmask", "loop")
       /\ pending' = Set(pending, d, FALSE)
       /\ UNCHANGED <<lineVars, runnable, should_stop, dpc, abandoned>>

Kthread(d) ==
    \/ KLoop(d) \/ KPrepare(d) \/ KTest(d) \/ KSchedule(d) \/ KFinish(d)
    \/ KHandler(d) \/ KClear(d) \/ KUnmask(d)

-----------------------------------------------------------------------------
(* os_acquire_interrupt.  If kthread_run fails nothing is left of the call. *)

AcquireRun(d) ==
    /\ DGoto(d, "out", "request")
    /\ kpc[d] = "none"
    /\ kpc' = [kpc EXCEPT ![d] = "loop"]
    /\ runnable' = Set(runnable, d, TRUE)
    /\ should_stop' = Set(should_stop, d, FALSE)
    /\ pending' = Set(pending, d, FALSE)
    /\ UNCHANGED <<lineVars, abandoned>>

AcquireRequest(d) ==
    /\ DGoto(d, "request", "in")
    /\ actions' = actions \cup {d}
    /\ masked' = (masked /\ actions # {})
    /\ UNCHANGED <<runVars, asserting, pending, threadVars, abandoned>>

(* request_irq fails: the thread is stopped and the memory freed. *)
AcquireFail(d) ==
    /\ DGoto(d, "request", "stop")
    /\ UNCHANGED <<lineVars, pending, threadVars, abandoned>>

(* os_release_interrupt.  The driver has quietened its device; free_irq takes
   the top half off the line, so that a run in progress may or may not get to it,
   then waits for that run to end. *)
ReleaseFree(d) ==
    /\ DGoto(d, "in", "unregister")
    /\ asserting' = asserting \ {d}
    /\ actions' = actions \ {d}
    /\ masked' = (masked \/ actions' = {})
    /\ \/ run' = run
       \/ current # d /\ run' = run \ {d}
    /\ UNCHANGED <<current, top, pending, threadVars, abandoned>>

(* Mutated: the handler's run in progress is not waited for. *)
ReleaseNoSync(d) ==
    /\ DGoto(d, "unregister", "unpend")
    /\ UNCHANGED <<lineVars, pending, threadVars, abandoned>>

ReleaseSync(d) ==
    /\ run = {}
    /\ DGoto(d, "unregister", "unpend")
    /\ UNCHANGED <<lineVars, pending, threadVars, abandoned>>

ReleaseUnpend(d) ==
    /\ DGoto(d, "unpend", "stop")
    /\ pending' = Set(pending, d, FALSE)
    /\ abandoned' = (abandoned \/ (pending[d] /\ kpc[d] \notin {"handler", "clear"}))
    /\ UNCHANGED <<lineVars, threadVars>>

(* kthread_stop, which both a release and a failed acquire end with *)
KthreadStop(d) ==
    /\ DGoto(d, "stop", "join")
    /\ should_stop' = Set(should_stop, d, TRUE)
    /\ runnable' = Set(runnable, d, TRUE)
    /\ UNCHANGED <<lineVars, pending, kpc, abandoned>>

FreeInterrupt(d) ==
    /\ kpc[d] = "exited"
    /\ DGoto(d, "join", "out")
    /\ kpc' = [kpc EXCEPT ![d] = "none"]
    /\ UNCHANGED <<lineVars, pending, runnable, should_stop, abandoned>>

-----------------------------------------------------------------------------
TopHalf == TopMask \/ TopPend \/ TopWake

Driver(d) ==
    \/ AcquireRequest(d) \/ AcquireFail(d) \/ ReleaseSync(d) \/ ReleaseUnpend(d)
    \/ KthreadStop(d) \/ FreeInterrupt(d)

Next ==
    \/ Interrupt \/ TopHalf
    \/ \E d \in Drivers :
          Raise(d) \/ Kthread(d) \/ AcquireRun(d) \/ ReleaseFree(d) \/ Driver(d)

(* An asserted unmasked line interrupts, a handler run goes on, runnable
   threads run, and a driver completes a call it has begun. *)
Fairness ==
    /\ WF_vars(Interrupt) /\ WF_vars(TopHalf)
    /\ \A d \in Drivers : WF_vars(Kthread(d)) /\ WF_vars(Driver(d))

Spec == Init /\ [][Next]_vars /\ Fairness

-----------------------------------------------------------------------------
(* The thread is queued before it tests the mark and woken after the mark is
   set: it does not sleep while its interrupt is pending, except until the top
   half in progress gets to its wake_up. *)
NoSleepWhilePending ==
    \A d \in Drivers :
        kpc[d] = "schedule" /\ ~runnable[d] /\ pending[d] => current = d /\ top = "wake"

(* "After this function returns, the interrupt handler will not be called
   again": linux_int_t is freed only when its thread has exited and the line no
   longer calls its top half, for a release and for a failed acquire alike. *)
FreedMeansUnused ==
    \A d \in Drivers : dpc[d] = "out" =>
        kpc[d] = "none" /\ d \notin actions \cup run

(* The mask bit is shared, and set and cleared by independent threads, yet a
   masked line is never forgotten: unless a release has dropped a pending
   interrupt, some thread still has to unmask it or a top half is running. *)
MaskedIsOwed ==
    masked /\ actions # {} /\ run = {} /\ ~abandoned =>
        \E d \in Drivers : pending[d] \/ kpc[d] \in {"handler", "clear", "unmask"}

(* An interrupt of a device on the shared line reaches the driver's handler
   (or the driver releases it), unless a release has dropped a pending one. *)
InterruptHandled ==
    \A d \in Drivers : (d \in asserting) ~> (d \notin asserting \/ abandoned)

(* os_release_interrupt, line 371: kthread_stop "wakes up the thread, sets
   kthread_should_stop() to true, and waits for thread to exit". *)
ReleaseReturns ==
    \A d \in Drivers : (dpc[d] = "join") ~> (dpc[d] = "out")
=============================================================================
