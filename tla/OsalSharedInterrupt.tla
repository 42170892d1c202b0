-------------------------- MODULE OsalSharedInterrupt --------------------------
(***************************************************************************)
(* Shared interrupts of linux_kernel/src/osal_irq.c: a top handler that    *)
(* says whether the device has interrupted and whether it wants its        *)
(* bottom handler to run, in a thread of its own that raises its priority  *)
(* the first time.                                                         *)
(*                                                                         *)
(* From Linux (not under src/): an interrupt calls the top handlers on the *)
(* line one after the other; IRQ_WAKE_THREAD wakes the driver's thread,    *)
(* for one run however often it is woken before; free_irq takes the driver *)
(* off the line, waits for handlers and threads in progress, and ends the  *)
(* thread.                                                                 *)
(***************************************************************************)
EXTENDS Integers, FiniteSets

CONSTANTS Drivers

VARIABLES
    own,        \* where each driver is: "none", "request", "owned", "sync", "free"
    irq,        \* the drivers whose os_irq_t is allocated and filled in
    inited,     \* those whose init is set
    line,       \* the drivers on the line
    asserted,   \* the devices that interrupt
    hard,       \* the drivers that the interrupt in progress has still to call
    woken,      \* the drivers whose thread has been woken
    thread,     \* where each thread is: "wait", "prio" or "handler"
    \* history
    work        \* a top handler has asked for a run that has not begun

sharedVars == <<own, irq, inited, line, asserted, hard, woken, thread, work>>

TypeOK ==
    /\ own \in [Drivers -> {"none", "request", "owned", "sync", "free"}]
    /\ irq \subseteq Drivers /\ inited \subseteq irq
    /\ line \subseteq Drivers /\ asserted \subseteq Drivers /\ hard \subseteq Drivers
    /\ woken \subseteq Drivers /\ work \subseteq Drivers
    /\ thread \in [Drivers -> {"wait", "prio", "handler"}]

Init ==
    /\ own = [d \in Drivers |-> "none"]
    /\ irq = {} /\ inited = {}
    /\ line = {} /\ asserted = {} /\ hard = {} /\ woken = {}
    /\ thread = [d \in Drivers |-> "wait"]
    /\ work = {}

-----------------------------------------------------------------------------
(* os_acquire_shared_interrupt: a missing argument or no memory, and nothing
   happens; else the driver may be called from the request on. *)
AcquireAlloc(d) ==
    /\ own[d] = "none"
    /\ own' = [own EXCEPT ![d] = "request"]
    /\ irq' = irq \cup {d} /\ inited' = inited \ {d}
    /\ UNCHANGED <<line, asserted, hard, woken, thread, work>>

AcquireRequest(d) ==
    /\ own[d] = "request"
    /\ \/ /\ own' = [own EXCEPT ![d] = "owned"]
          /\ line' = line \cup {d} /\ UNCHANGED <<irq, inited>>
       \/ /\ own' = [own EXCEPT ![d] = "none"]      \* request_threaded_irq fails
          /\ irq' = irq \ {d} /\ UNCHANGED <<line, inited>>
    /\ UNCHANGED <<asserted, hard, woken, thread, work>>

(* Mutated: the memory is freed before the driver is off the line. *)
ReleaseUnlinkFreed(d) ==
    /\ own[d] = "owned"
    /\ own' = [own EXCEPT ![d] = "sync"]
    /\ line' = line \ {d}
    /\ irq' = irq \ {d} /\ inited' = inited \ {d}
    /\ UNCHANGED <<asserted, hard, woken, thread, work>>

(* os_release_shared_interrupt: free_irq in two steps, and then the memory. *)
ReleaseUnlink(d) ==
    /\ own[d] = "owned"
    /\ own' = [own EXCEPT ![d] = "sync"]
    /\ line' = line \ {d}
    /\ UNCHANGED <<irq, inited, asserted, hard, woken, thread, work>>

ReleaseSync(d) ==
    /\ own[d] = "sync"
    /\ hard = {} /\ d \notin woken /\ thread[d] = "wait"
    /\ own' = [own EXCEPT ![d] = "free"]
    /\ UNCHANGED <<irq, inited, line, asserted, hard, woken, thread, work>>

ReleaseFree(d) ==
    /\ own[d] = "free"
    /\ own' = [own EXCEPT ![d] = "none"]
    /\ irq' = irq \ {d} /\ inited' = inited \ {d}
    /\ UNCHANGED <<line, asserted, hard, woken, thread, work>>

Acquire(d) == AcquireAlloc(d) \/ AcquireRequest(d)
Release(d) == ReleaseUnlink(d) \/ ReleaseSync(d) \/ ReleaseFree(d)

-----------------------------------------------------------------------------
Raise(d) ==
    /\ d \in line \ asserted
    /\ asserted' = asserted \cup {d}
    /\ UNCHANGED <<own, irq, inited, line, hard, woken, thread, work>>

Interrupt ==
    /\ hard = {} /\ line # {} /\ asserted # {}
    /\ hard' = line
    /\ UNCHANGED <<own, irq, inited, line, asserted, woken, thread, work>>

(* The driver's answer: it quiets its device, if that has interrupted, and is
   done with it or wants its bottom handler. *)
Answers(d) ==
    IF d \in asserted THEN {"OS_IRQ_HANDLED", "OS_IRQ_WAKE_THREAD"} ELSE {"OS_IRQ_NONE"}

(* Mutated: a case is left out. *)
TranslateNoWake(result) == IF result = "OS_IRQ_HANDLED" THEN "IRQ_HANDLED" ELSE "IRQ_NONE"

Translate(result) ==
    CASE result = "OS_IRQ_HANDLED" -> "IRQ_HANDLED"
      [] result = "OS_IRQ_WAKE_THREAD" -> "IRQ_WAKE_THREAD"
      [] OTHER -> "IRQ_NONE"

OsIrqWrapper(d) ==
    /\ d \in hard
    /\ \E result \in Answers(d) :
          /\ work' = work \cup (IF result = "OS_IRQ_WAKE_THREAD" THEN {d} ELSE {})
          /\ woken' = woken \cup (IF Translate(result) = "IRQ_WAKE_THREAD" THEN {d} ELSE {})
    /\ hard' = hard \ {d}
    /\ asserted' = asserted \ {d}
    /\ UNCHANGED <<own, irq, inited, line, thread>>

ThreadRun(d) ==
    /\ thread[d] = "wait" /\ d \in woken
    /\ woken' = woken \ {d}
    /\ thread' = [thread EXCEPT ![d] = "prio"]
    /\ UNCHANGED <<own, irq, inited, line, asserted, hard, work>>

(* os_thread_wrapper up to its call of the bottom handler.  Setting the priority
   may fail and is tried again in the next run. *)
ThreadPrio(d) ==
    /\ thread[d] = "prio"
    /\ inited' \in {inited, inited \cup {d}}
    /\ thread' = [thread EXCEPT ![d] = "handler"]
    /\ work' = work \ {d}
    /\ UNCHANGED <<own, irq, line, asserted, hard, woken>>

ThreadDone(d) ==
    /\ thread[d] = "handler"
    /\ thread' = [thread EXCEPT ![d] = "wait"]
    /\ UNCHANGED <<own, irq, inited, line, asserted, hard, woken, work>>

Thread(d) == ThreadRun(d) \/ ThreadPrio(d) \/ ThreadDone(d)

Next ==
    \/ Interrupt
    \/ \E d \in Drivers :
          Acquire(d) \/ Release(d) \/ Raise(d) \/ OsIrqWrapper(d) \/ Thread(d)

-----------------------------------------------------------------------------
(* An interrupt and a thread in progress find their driver's os_irq_t allocated
   and filled in, whatever acquire or release is under way or has failed. *)
HandlersAreAlive ==
    \A d \in Drivers : d \in hard \cup woken \/ thread[d] # "wait" => d \in irq

(* A bottom handler that a top handler has asked for runs, also if the driver is
   released meanwhile. *)
BottomHandlerRuns == \A d \in Drivers : d \in work ~> d \notin work
=============================================================================
