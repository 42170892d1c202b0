-------------------------- MODULE OsalThreadKernel --------------------------
(***************************************************************************)
(* A kernel thread of linux_kernel/src/osal_thread.c and its owner.  The   *)
(* thread sets its auto-reset kill_event when its function has returned,   *)
(* and also when the function calls os_thread_exit, which does not end the *)
(* thread.  os_thread_wait waits for kill_event; os_thread_destroy neither *)
(* waits for the thread nor changes thread->state.  kill_event is the      *)
(* event of OsalEventKernel, with all its steps.  The priority the owner   *)
(* asks for is set by the thread itself, before its function.              *)
(*                                                                         *)
(* From outside src/: kthread_run may fail, which os_thread_create does    *)
(* not notice.  The owner waits before it destroys the thread, and may     *)
(* create it again when the old kernel thread is gone; the thread function *)
(* may sleep, calls os_thread_exit at most once and returns in the end;    *)
(* sched_setscheduler may refuse a priority.                               *)
(***************************************************************************)
EXTENDS Naturals

CONSTANTS
    owner,      \* the caller of create, wait and destroy
    thread,     \* the kernel thread
    NoSetter,
    Priorities  \* what callers ask for

VARIABLES
    \* thread->kill_event, its waiters and timers
    state, manual_reset, signaled, spinlock, wait_queue, pc, call, runnable,
    signal, timer, handler, stale, timedout, seen,
    \* os_thread_t and the two actors
    thread_state,   \* thread->state
    pfn_callback,   \* thread->pfn_callback is not NULL
    priority,       \* thread->priority
    sched,          \* the kernel thread's real-time priority, 0 for a normal one
    tpc,            \* where the kernel thread is
    opc,            \* where its owner is
    \* history
    exit_called     \* the function has called os_thread_exit

eventVars == <<state, manual_reset, signaled, spinlock, wait_queue, pc, call, runnable,
               signal, timer, handler, stale, timedout, seen>>
schedVars == <<priority, sched>>
vars == <<eventVars, thread_state, pfn_callback, schedVars, tpc, opc, exit_called>>

Hardwait == [ms |-> "forever", interruptible |-> FALSE]

KillEvent == INSTANCE OsalEventKernel WITH
    Waiters <- {owner}, Setters <- {thread}, Calls <- [w \in {owner} |-> {Hardwait}]

(* The types: priorities are 0 or real-time ones, and the thread's function runs
   with the one that was asked for unless the scheduler refused it; kill_event
   exists as long as the owner has a thread. *)
TypeOK ==
    /\ KillEvent!TypeOK
    /\ thread_state \in {"unset", "OSAL_INITIALIZED"}
    /\ pfn_callback \in BOOLEAN
    /\ priority \in 0..99 /\ sched \in {0, priority}
    /\ tpc \in {"none", "start", "call", "function", "asleep", "exit_set", "exit_wake",
                "set", "wake", "returned", "oops"}
    /\ opc \in {"out", "created", "wait", "waited", "wait_again"}
    /\ exit_called \in BOOLEAN
    /\ state = "INITIALIZED" <=> opc # "out"

Init ==
    /\ KillEvent!Init
    /\ thread_state = "unset" /\ pfn_callback = FALSE
    /\ priority = 0 /\ sched = 0
    /\ tpc = "none" /\ opc = "out"
    /\ exit_called = FALSE

-----------------------------------------------------------------------------
(* The owner: os_thread_create, os_thread_wait, os_thread_destroy *)

ValidatePriority(policy, p) ==
    IF policy = "SCHED_NORMAL" THEN p = 0 ELSE p \in 1..99

OsThreadCreate ==
    /\ opc = "out" /\ tpc \in {"none", "returned"}
    /\ KillEvent!OsEventCreate(FALSE)
    /\ pfn_callback' = TRUE
    /\ thread_state' = "OSAL_INITIALIZED"
    /\ \E policy \in {"SCHED_NORMAL", "SCHED_RR"}, p \in Priorities :
          ValidatePriority(policy, p) /\ priority' = p
    /\ sched' = 0
    /\ tpc' \in {"start", "none"}
    /\ opc' = "created"
    /\ exit_called' = FALSE

OsThreadWait ==
    /\ thread_state = "OSAL_INITIALIZED"
    /\ \/ opc = "created" /\ opc' = "wait"
       \/ opc = "waited" /\ opc' = "wait_again"
    /\ KillEvent!CallWait(owner, Hardwait)
    /\ UNCHANGED <<thread_state, pfn_callback, schedVars, tpc, exit_called>>

WaitStep ==
    /\ opc \in {"wait", "wait_again"}
    /\ KillEvent!Waiting(owner)
    /\ opc' = IF pc'[owner] = "idle" THEN "waited" ELSE opc
    /\ UNCHANGED <<thread_state, pfn_callback, schedVars, tpc, exit_called>>

OsThreadDestroy ==
    /\ opc = "waited"
    /\ KillEvent!OsEventDestroy
    /\ pfn_callback' = (pfn_callback /\ thread_state # "OSAL_INITIALIZED")
    /\ opc' = "out"
    /\ UNCHANGED <<thread_state, schedVars, tpc, exit_called>>

-----------------------------------------------------------------------------
(* thread_wrapper and os_thread_exit *)

SetScheduler ==
    /\ tpc = "start"
    /\ sched' \in {0, priority}
    /\ tpc' = "call"
    /\ UNCHANGED <<eventVars, thread_state, pfn_callback, priority, opc, exit_called>>

(* Mutated: the function is called when the event is set already. *)
CallFunctionLast ==
    /\ tpc = "call" /\ KillEvent!SetFlag(thread)
    /\ tpc' = IF spinlock' = thread THEN "exit_wake" ELSE "function"
    /\ UNCHANGED <<thread_state, pfn_callback, schedVars, opc, exit_called>>

CallFunction ==
    /\ tpc = "call"
    /\ tpc' = IF pfn_callback THEN "function" ELSE "oops"
    /\ UNCHANGED <<eventVars, thread_state, pfn_callback, schedVars, opc, exit_called>>

(* os_sleep and os_thread_yield; a yield's timeout of HZ/1000 jiffies is 0 where
   HZ is below 1000, and it sleeps until the next tick. *)
OsSleep ==
    /\ tpc = "function"
    /\ tpc' = "asleep"
    /\ UNCHANGED <<eventVars, thread_state, pfn_callback, schedVars, opc, exit_called>>

SleepEnds ==
    /\ tpc = "asleep"
    /\ tpc' = "function"
    /\ UNCHANGED <<eventVars, thread_state, pfn_callback, schedVars, opc, exit_called>>

OsThreadExit ==
    /\ tpc = "function" /\ ~exit_called
    /\ exit_called' = TRUE
    /\ tpc' = IF thread_state = "OSAL_INITIALIZED" THEN "exit_set" ELSE "function"
    /\ UNCHANGED <<eventVars, thread_state, pfn_callback, schedVars, opc>>

(* Mutated: the function's return does not set the event. *)
FunctionReturnSilent ==
    /\ tpc = "function"
    /\ tpc' = "returned"
    /\ UNCHANGED <<eventVars, thread_state, pfn_callback, schedVars, opc, exit_called>>

FunctionReturn ==
    /\ tpc = "function"
    /\ tpc' = "set"
    /\ UNCHANGED <<eventVars, thread_state, pfn_callback, schedVars, opc, exit_called>>

(* kill_event is set.  If it is destroyed already, the object it is part of may
   be gone too: what the thread does then is of no more interest. *)
SetKillEvent ==
    /\ \/ tpc \in {"exit_set", "set"} /\ KillEvent!SetFlag(thread)
       \/ tpc \in {"exit_wake", "wake"} /\ KillEvent!SetWake(thread)
       \/ tpc \in {"exit_set", "set"} /\ state = "UNINITIALIZED" /\ UNCHANGED eventVars
    /\ tpc' = IF state = "UNINITIALIZED" THEN "oops"
              ELSE IF spinlock' = thread
                   THEN IF tpc = "set" THEN "wake" ELSE "exit_wake"
                   ELSE IF tpc \in {"set", "wake"} THEN "returned" ELSE "function"
    /\ UNCHANGED <<thread_state, pfn_callback, schedVars, opc, exit_called>>

-----------------------------------------------------------------------------
Thread ==
    \/ SetScheduler \/ CallFunction \/ SleepEnds \/ OsThreadExit \/ FunctionReturn
    \/ SetKillEvent

Next ==
    \/ OsThreadCreate \/ OsThreadWait \/ WaitStep \/ OsThreadDestroy
    \/ Thread \/ OsSleep

(* The thread runs, its function returns although it may sleep, and a wait that
   can go on does. *)
Fairness == WF_vars(Thread) /\ SF_vars(FunctionReturn) /\ SF_vars(WaitStep)

Spec == Init /\ [][Next]_vars /\ Fairness

-----------------------------------------------------------------------------
Released == opc \in {"waited", "out"}

(* os_thread_wait "waits for one or more thread to exit": once it has returned,
   and after the owner has destroyed the thread, nothing is left of the thread
   that would touch the os_thread_t, os_event_set's last steps included, as
   long as the function has not called os_thread_exit. *)
WaitMeansReturned == Released /\ ~exit_called => tpc \in {"none", "returned"}

(* include/osal_thread.h, of os_thread_exit: "the parent should release the
   thread object by calling os_thread_destroy()".  The object a parent releases
   after its wait is no longer used by the thread. *)
ExitedMeansUnused == opc = "out" => tpc \in {"none", "returned"}

(* The first wait for a thread that kthread_run has started returns, no matter
   when the thread sets kill_event: the set is neither missed nor eaten. *)
FirstWaitReturns == (opc = "wait" /\ tpc # "none") ~> opc = "waited"
=============================================================================
