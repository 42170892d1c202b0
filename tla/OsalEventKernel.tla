--------------------------- MODULE OsalEventKernel ---------------------------
(***************************************************************************)
(* The kernel event of linux_kernel/src/osal_event.c: a signaled flag      *)
(* guarded by a spinlock, a wait queue, and a timer on the waiter's stack. *)
(* The flag and the queue have different locks: a task queues itself       *)
(* before it looks at the flag, and os_event_set looks at the queue after  *)
(* it has set the flag.                                                    *)
(*                                                                         *)
(* From the kernel (not under src/): wake_up makes every queued task that  *)
(* is not yet runnable runnable; the waker takes a task that really slept  *)
(* off the queue, and one that was still on its way to schedule() or not,  *)
(* as the kernel's version has it; del_timer stops an armed timer and does *)
(* not wait for a handler that is already running.                         *)
(***************************************************************************)
EXTENDS Naturals

CONSTANTS
    Waiters,    \* the tasks that call os_event_wait and os_event_hardwait
    Setters,    \* the contexts that call os_event_set and os_event_reset
    NoSetter,   \* the owner of a free spinlock
    Calls       \* the calls each waiter makes, drawn from AllCalls

\* wait_ms is 0, a time, or EVENT_NO_TIMEOUT; os_event_wait is interruptible
AllCalls == [ms : {"poll", "timed", "forever"}, interruptible : BOOLEAN]
NoCall == [ms |-> "none", interruptible |-> FALSE]

ASSUME CallsAssumption == Calls \in [Waiters -> SUBSET AllCalls]
ASSUME SettersAssumption == NoSetter \notin Setters

VARIABLES
    \* the event
    state,          \* p_event->state
    manual_reset,   \* p_event->manual_reset
    signaled,       \* p_event->signaled
    spinlock,       \* the setter inside os_event_set's critical section
    wait_queue,     \* the tasks on p_event->wait_queue
    \* the waiting tasks
    pc,             \* where each waiter is
    call,           \* the call it is in
    runnable,       \* its task state is TASK_RUNNING
    signal,         \* signal_pending(current)
    \* the timeouts on their stacks
    timer,          \* timeout.timer: "off" or "armed"
    handler,        \* the next step of a running timeout_handler, or "none"
    stale,          \* the wait that armed that handler's timer has returned
    timedout,       \* timeout.timedout
    \* history
    seen            \* what could have ended this call: "set", "timer", "none"

eventVars == <<state, manual_reset, signaled, spinlock>>
taskVars == <<pc, call, signal>>
timerVars == <<timer, handler, stale, timedout>>
vars == <<eventVars, wait_queue, taskVars, runnable, timerVars, seen>>

(* The types; a queue entry is on the stack of its wait, so the queue holds only
   tasks that are inside a wait and have not called finish_wait. *)
TypeOK ==
    /\ state \in {"INITIALIZED", "UNINITIALIZED"}
    /\ manual_reset \in BOOLEAN
    /\ signaled \in BOOLEAN
    /\ spinlock \in Setters \cup {NoSetter}
    /\ wait_queue \subseteq {w \in Waiters : pc[w] \notin {"idle", "conclude"}}
    /\ pc \in [Waiters -> {"idle", "check", "taken", "polled", "arm", "schedule",
                           "asleep", "conclude"}]
    /\ call \in [Waiters -> AllCalls \cup {NoCall}]
    /\ runnable \in [Waiters -> BOOLEAN]
    /\ signal \in [Waiters -> BOOLEAN]
    /\ timer \in [Waiters -> {"off", "armed"}]
    /\ handler \in [Waiters -> {"none", "mark", "wake"}]
    /\ stale \in [Waiters -> BOOLEAN]
    /\ timedout \in [Waiters -> BOOLEAN]
    /\ seen \in [Waiters -> {"none", "timer", "set"}]

EventInit ==
    /\ state = "UNINITIALIZED"
    /\ manual_reset = FALSE
    /\ signaled = FALSE
    /\ spinlock = NoSetter
    /\ wait_queue = {}

WaitersInit ==
    /\ pc = [w \in Waiters |-> "idle"]
    /\ call = [w \in Waiters |-> NoCall]
    /\ runnable = [w \in Waiters |-> TRUE]
    /\ signal = [w \in Waiters |-> FALSE]
    /\ timer = [w \in Waiters |-> "off"]
    /\ handler = [w \in Waiters |-> "none"]
    /\ stale = [w \in Waiters |-> FALSE]
    /\ timedout = [w \in Waiters |-> FALSE]
    /\ seen = [w \in Waiters |-> "none"]

Init == EventInit /\ WaitersInit

Goto(w, from, to) == pc[w] = from /\ pc' = [pc EXCEPT ![w] = to]

InCall(w) == pc[w] # "idle"

(* wake_up(&wait_queue) *)
WakeUp ==
    LET woken == {w \in wait_queue : ~runnable[w]}
    IN  /\ runnable' = [w \in Waiters |-> runnable[w] \/ w \in woken]
        /\ \E kept \in SUBSET {w \in woken : pc[w] # "asleep"} :
              wait_queue' = (wait_queue \ woken) \cup kept

(* finish_wait *)
FinishWait(w) ==
    /\ runnable' = [runnable EXCEPT ![w] = TRUE]
    /\ wait_queue' = wait_queue \ {w}

-----------------------------------------------------------------------------
OsEventCreate(manual) ==
    /\ state = "UNINITIALIZED"
    /\ state' = "INITIALIZED"
    /\ manual_reset' = manual
    /\ signaled' = FALSE
    /\ spinlock' = NoSetter
    /\ wait_queue' = {}
    /\ UNCHANGED <<taskVars, runnable, timerVars, seen>>

(* The owner destroys the event when no call on it is in progress. *)
OsEventDestroy ==
    /\ state = "INITIALIZED"
    /\ spinlock = NoSetter /\ \A w \in Waiters : ~InCall(w)
    /\ state' = "UNINITIALIZED"
    /\ UNCHANGED <<manual_reset, signaled, spinlock, wait_queue, taskVars, runnable,
                   timerVars, seen>>

-----------------------------------------------------------------------------
(* os_event_set: the flag is set, and if waitqueue_active is true an auto-reset
   flag is cleared again and everybody queued is woken; all under the spinlock,
   but tasks join and leave the queue without it. *)

SeenBy(who, what) ==
    seen' = [w \in Waiters |-> IF w \in who /\ InCall(w) THEN what ELSE seen[w]]

(* Mutated: a manual-reset event stays signaled and wakes nobody. *)
SetFlagManualSilent(s) ==
    /\ state = "INITIALIZED" /\ spinlock = NoSetter
    /\ IF wait_queue = {} \/ manual_reset
       THEN signaled' = TRUE /\ UNCHANGED spinlock
       ELSE signaled' = FALSE /\ spinlock' = s
    /\ SeenBy(Waiters, "set")
    /\ UNCHANGED <<state, manual_reset, wait_queue, taskVars, runnable, timerVars>>

SetFlag(s) ==
    /\ state = "INITIALIZED" /\ spinlock = NoSetter
    /\ IF wait_queue = {}
       THEN signaled' = TRUE /\ UNCHANGED spinlock
       ELSE signaled' = manual_reset /\ spinlock' = s
    /\ SeenBy(Waiters, "set")
    /\ UNCHANGED <<state, manual_reset, wait_queue, taskVars, runnable, timerVars>>

(* Mutated: one task is woken, as the comment in os_event_set has it. *)
SetWakeOne(s) ==
    /\ spinlock = s
    /\ \/ wait_queue = {} /\ UNCHANGED <<wait_queue, runnable>>
       \/ \E w \in wait_queue : FinishWait(w)
    /\ spinlock' = NoSetter
    /\ UNCHANGED <<state, manual_reset, signaled, taskVars, timerVars, seen>>

SetWake(s) ==
    /\ spinlock = s
    /\ WakeUp
    /\ spinlock' = NoSetter
    /\ UNCHANGED <<state, manual_reset, signaled, taskVars, timerVars, seen>>

OsEventReset ==
    /\ state = "INITIALIZED" /\ spinlock = NoSetter
    /\ signaled' = FALSE
    /\ UNCHANGED <<state, manual_reset, spinlock, wait_queue, taskVars, runnable,
                   timerVars, seen>>

-----------------------------------------------------------------------------
(* do_os_event_wait *)

(* prepare_to_wait queues the task and changes its task state. *)
CallWait(w, c) ==
    /\ state = "INITIALIZED"
    /\ Goto(w, "idle", "check")
    /\ call' = [call EXCEPT ![w] = c]
    /\ wait_queue' = wait_queue \cup {w}
    /\ runnable' = [runnable EXCEPT ![w] = FALSE]
    /\ seen' = [seen EXCEPT ![w] = IF spinlock # NoSetter THEN "set" ELSE "none"]
    /\ UNCHANGED <<eventVars, signal, timerVars>>

(* The first critical section: take the event, or give up if polling. *)
CheckSignaled(w) ==
    /\ spinlock = NoSetter /\ signaled
    /\ Goto(w, "check", "taken")
    /\ signaled' = manual_reset
    /\ SeenBy({w}, "set")
    /\ UNCHANGED <<state, manual_reset, spinlock, wait_queue, call, signal, runnable,
                   timerVars>>

CheckPoll(w) ==
    /\ spinlock = NoSetter /\ ~signaled /\ call[w].ms = "poll"
    /\ Goto(w, "check", "polled")
    /\ UNCHANGED <<eventVars, wait_queue, call, signal, runnable, timerVars, seen>>

CheckSleep(w) ==
    /\ spinlock = NoSetter /\ ~signaled /\ call[w].ms # "poll"
    /\ Goto(w, "check", IF call[w].ms = "timed" THEN "arm" ELSE "schedule")
    /\ UNCHANGED <<eventVars, wait_queue, call, signal, runnable, timerVars,
                   seen>>

(* Once the call has returned nothing of it is left. *)
EndCall(w) ==
    /\ call' = [call EXCEPT ![w] = NoCall]
    /\ signal' = [signal EXCEPT ![w] = FALSE]
    /\ seen' = [seen EXCEPT ![w] = "none"]

(* finish_wait on the early returns, after the spinlock is released. *)
Leave(w) ==
    /\ Goto(w, "taken", "idle") \/ Goto(w, "polled", "idle")
    /\ FinishWait(w)
    /\ EndCall(w)
    /\ UNCHANGED <<eventVars, timerVars>>

(* set_timeout *)
Arm(w) ==
    /\ Goto(w, "arm", "schedule")
    /\ timedout' = [timedout EXCEPT ![w] = FALSE]
    /\ timer' = [timer EXCEPT ![w] = "armed"]
    /\ UNCHANGED <<eventVars, wait_queue, call, signal, runnable, handler,
                   stale, seen>>

Interrupted(w) == call[w].interruptible /\ signal[w]

(* schedule(): a task woken since prepare_to_wait, or with a signal to take in
   an interruptible wait, does not sleep. *)
Sleep(w) ==
    /\ ~runnable[w] /\ ~Interrupted(w)
    /\ Goto(w, "schedule", "asleep")
    /\ UNCHANGED <<eventVars, wait_queue, call, signal, runnable, timerVars,
                   seen>>

ClearTimeout(w) == timer' = [timer EXCEPT ![w] = "off"]

TimedOut(w) == call[w].ms = "timed" /\ timedout[w]

(* schedule() returns: finish_wait, and clear_timeout whatever ended the wait. *)
Resume(w) ==
    /\ \/ runnable[w] /\ Goto(w, "asleep", "conclude")
       \/ (runnable[w] \/ Interrupted(w)) /\ Goto(w, "schedule", "conclude")
    /\ FinishWait(w) /\ ClearTimeout(w)
    /\ UNCHANGED <<eventVars, call, signal, handler, stale, timedout, seen>>

(* Mutated: a wait that a signal has ended is not told from one that was woken. *)
OutcomeNoSignal(w) ==
    CASE pc[w] = "taken" -> "OSAL_SUCCESS"
      [] pc[w] = "polled" -> "OSAL_TIMEOUT"
      [] pc[w] = "conclude" ->
            IF TimedOut(w) THEN "OSAL_TIMEOUT" ELSE "OSAL_SUCCESS"
      [] OTHER -> "none"

(* What the call returns once nothing more happens to it. *)
Outcome(w) ==
    CASE pc[w] = "taken" -> "OSAL_SUCCESS"
      [] pc[w] = "polled" -> "OSAL_TIMEOUT"
      [] pc[w] = "conclude" ->
            IF Interrupted(w) THEN "OSAL_NOT_DONE"
            ELSE IF TimedOut(w) THEN "OSAL_TIMEOUT"
            ELSE "OSAL_SUCCESS"
      [] OTHER -> "none"

(* The result is settled and an auto-reset event is reset, whatever the result. *)
Conclude(w) ==
    /\ manual_reset \/ spinlock = NoSetter
    /\ Goto(w, "conclude", "idle")
    /\ signaled' = (signaled /\ manual_reset)
    /\ EndCall(w)
    /\ timedout' = [timedout EXCEPT ![w] = FALSE]
    /\ stale' = [stale EXCEPT ![w] = handler[w] # "none"]
    /\ UNCHANGED <<state, manual_reset, spinlock, wait_queue, runnable, timer, handler>>

(* A signal is sent to a waiting task.  It wakes an interruptible sleeper; an
   uninterruptible wait neither notices it nor looks for it. *)
Signal(w) ==
    /\ call[w].interruptible /\ ~signal[w]
    /\ pc[w] \in {"check", "arm", "schedule", "asleep"}
    /\ signal' = [signal EXCEPT ![w] = TRUE]
    /\ runnable' = [runnable EXCEPT ![w] = TRUE]
    /\ UNCHANGED <<eventVars, wait_queue, pc, call, timerVars, seen>>

-----------------------------------------------------------------------------
(* The timer of a wait.  Once its wait has returned, what a handler that is
   still running reads and writes is a dead stack frame: its mark may or may
   not land in the frame of the task's next wait, and it may or may not find
   the queue pointer intact. *)

Expire(w) ==
    /\ timer[w] = "armed" /\ handler[w] = "none"
    /\ timer' = [timer EXCEPT ![w] = "off"]
    /\ handler' = [handler EXCEPT ![w] = "mark"]
    /\ UNCHANGED <<eventVars, wait_queue, taskVars, runnable, stale, timedout, seen>>

(* Mutated: the handler leaves its mark and does not wake the queue. *)
HandlerMarkOnly(w) ==
    /\ handler[w] = "mark"
    /\ handler' = [handler EXCEPT ![w] = "none"]
    /\ stale' = [stale EXCEPT ![w] = FALSE]
    /\ timedout' = [timedout EXCEPT ![w] = @ \/ ~stale[w]]
    /\ UNCHANGED <<eventVars, wait_queue, taskVars, runnable, timer, seen>>

HandlerMark(w) ==
    /\ handler[w] = "mark"
    /\ handler' = [handler EXCEPT ![w] = "wake"]
    /\ \/ /\ stale[w] => pc[w] \in {"schedule", "asleep", "conclude"}
          /\ timedout' = [timedout EXCEPT ![w] = TRUE]
       \/ stale[w] /\ UNCHANGED timedout
    /\ UNCHANGED <<eventVars, wait_queue, taskVars, runnable, timer, stale, seen>>

HandlerWake(w) ==
    /\ handler[w] = "wake"
    /\ handler' = [handler EXCEPT ![w] = "none"]
    /\ stale' = [stale EXCEPT ![w] = FALSE]
    /\ \/ WakeUp /\ SeenBy({v \in wait_queue : seen[v] = "none"}, "timer")
       \/ stale[w] /\ UNCHANGED <<wait_queue, runnable, seen>>
    /\ UNCHANGED <<eventVars, taskVars, timer, timedout>>

-----------------------------------------------------------------------------
Handler(w) == HandlerMark(w) \/ HandlerWake(w)

Waiting(w) ==
    \/ CheckSignaled(w) \/ CheckPoll(w) \/ CheckSleep(w) \/ Leave(w)
    \/ Arm(w) \/ Sleep(w) \/ Resume(w) \/ Conclude(w)

Next ==
    \/ \E manual \in BOOLEAN : OsEventCreate(manual)
    \/ OsEventDestroy
    \/ OsEventReset
    \/ \E s \in Setters : SetFlag(s) \/ SetWake(s)
    \/ \E w \in Waiters :
          \/ \E c \in Calls[w] : CallWait(w, c)
          \/ Signal(w)
          \/ Waiting(w)
          \/ Expire(w)
          \/ Handler(w)

(* A setter finishes its critical section and an armed timer expires; a task
   that can run does, and the spinlock is handed out fairly (ticket locks). *)
Fairness ==
    /\ \A s \in Setters : WF_vars(SetWake(s))
    /\ \A w \in Waiters : WF_vars(Expire(w)) /\ WF_vars(Handler(w)) /\ SF_vars(Waiting(w))

Spec == Init /\ [][Next]_vars /\ Fairness

-----------------------------------------------------------------------------
(* The flag is checked after the task is queued and the queue is checked after
   the flag is set: no task sleeps through a signaled event, except for as long
   as the setter that set it still has to call wake_up. *)
NoSleepWhileSignaled ==
    \A w \in Waiters :
        signaled /\ pc[w] = "asleep" /\ ~runnable[w] => spinlock # NoSetter

(* The timer is on the stack of the waiting task: it is never left armed when
   the wait returns, whichever of set, timeout and signal ended it. *)
TimerDisarmed ==
    \A w \in Waiters : timer[w] = "armed" => pc[w] \in {"schedule", "asleep"}

(* Nothing ends a wait with OSAL_SUCCESS but a set made during the call, a flag
   found signaled, or the timer of another wait on the same queue. *)
SuccessHasCause ==
    \A w \in Waiters : Outcome(w) = "OSAL_SUCCESS" => seen[w] # "none"

(* include/osal_event.h, of os_event_wait and os_event_hardwait alike: they
   return OSAL_SUCCESS when "an event occurred". *)
SuccessMeansEvent ==
    \A w \in Waiters : Outcome(w) = "OSAL_SUCCESS" => seen[w] = "set"

(* os_event_set wakes everybody: each task inside a wait when the event is set
   comes back from it, polls, timed and untimed waits alike. *)
SetReleasesWaiters ==
    \A w \in Waiters : (InCall(w) /\ seen[w] = "set") ~> ~InCall(w)

(* A wait with a timeout returns even if the event is never set. *)
TimedWaitReturns ==
    \A w \in Waiters : (call[w].ms = "timed") ~> ~InCall(w)

-----------------------------------------------------------------------------
Abstract == INSTANCE Event WITH
    Threads <- Waiters,
    live <- state = "INITIALIZED",
    manual <- manual_reset,
    flag <- signaled,
    ringing <- spinlock # NoSetter,
    occurred <- {w \in Waiters : seen[w] # "none"},
    answer <- [w \in Waiters |-> Outcome(w)]

(* The flag, the queue and the timers together are the event of the header: a set
   that finds nobody queued stays in the flag, one that does is seen by all who are
   inside a wait, also by those who come while it is in progress, and what a wait
   returns has a reason that lies in its call and in what happened during it. *)
ImplementsEvent == Abstract!Spec
=============================================================================
