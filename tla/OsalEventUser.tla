---------------------------- MODULE OsalEventUser ----------------------------
(***************************************************************************)
(* The user-space event of linux_user/src/osal_event.c: a signaled flag    *)
(* and a condition variable under one mutex.  A waiter that finds the flag *)
(* clear sleeps once and takes whatever ends its sleep for the answer: it  *)
(* does not look at the flag again.  os_event_set signals one waiter.      *)
(*                                                                         *)
(* Every access is made under p_event->lock, which is given up only inside *)
(* pthread_cond_wait: a call is one step, and a call that sleeps is two,   *)
(* with the mutex released in between.                                     *)
(***************************************************************************)
EXTENDS Naturals

CONSTANT Waiters    \* the threads that wait for the event

\* wait_ms is 0, a time, or EVENT_NO_TIMEOUT
WaitTimes == {"poll", "timed", "forever"}

VARIABLES
    state,          \* p_event->state
    manual_reset,   \* p_event->manual_reset
    signaled,       \* p_event->signaled
    condvar,        \* the threads queued on p_event->condvar
    waiting,        \* what each thread waits for: a wait time or "none"
    wait_ret,       \* what its pthread_cond_wait is going to return
    occurred        \* history: a set or a spurious wakeup came during its call

eventVars == <<state, manual_reset>>
vars == <<eventVars, signaled, condvar, waiting, wait_ret, occurred>>

(* The types; only threads whose call sleeps are queued. *)
TypeOK ==
    /\ state \in {"OSAL_INITIALIZED", "OSAL_UNINITIALIZED"}
    /\ manual_reset \in BOOLEAN
    /\ signaled \in BOOLEAN
    /\ condvar \subseteq {w \in Waiters : waiting[w] # "none"}
    /\ waiting \in [Waiters -> {"none", "timed", "forever"}]
    /\ wait_ret \in [Waiters -> {"0", "ETIMEDOUT"}]
    /\ occurred \in [Waiters -> BOOLEAN]

Init ==
    /\ state = "OSAL_UNINITIALIZED"
    /\ manual_reset = FALSE
    /\ signaled = FALSE
    /\ condvar = {}
    /\ waiting = [w \in Waiters |-> "none"]
    /\ wait_ret = [w \in Waiters |-> "0"]
    /\ occurred = [w \in Waiters |-> FALSE]

Initialized == state = "OSAL_INITIALIZED"

-----------------------------------------------------------------------------
OsEventCreate(manual) ==
    /\ ~Initialized
    /\ state' = "OSAL_INITIALIZED"
    /\ manual_reset' = manual
    /\ signaled' = FALSE
    /\ condvar' = {}
    /\ UNCHANGED <<waiting, wait_ret, occurred>>

(* The owner destroys the event when no call on it is in progress, so that the
   broadcast finds nobody. *)
OsEventDestroy ==
    /\ Initialized /\ \A w \in Waiters : waiting[w] = "none"
    /\ state' = "OSAL_UNINITIALIZED"
    /\ condvar' = {}
    /\ UNCHANGED <<manual_reset, signaled, waiting, wait_ret, occurred>>

(* Mutated: the flag is set and nobody is signaled. *)
OsEventSetSilent ==
    /\ Initialized
    /\ signaled' = TRUE
    /\ occurred' = [w \in Waiters |-> waiting[w] # "none"]
    /\ UNCHANGED <<eventVars, condvar, waiting, wait_ret>>

(* pthread_cond_signal takes one thread, any of them, off the queue. *)
OsEventSet ==
    /\ Initialized
    /\ signaled' = TRUE
    /\ \/ condvar = {} /\ UNCHANGED condvar
       \/ \E w \in condvar : condvar' = condvar \ {w}
    /\ occurred' = [w \in Waiters |-> waiting[w] # "none"]
    /\ UNCHANGED <<eventVars, waiting, wait_ret>>

OsEventReset ==
    /\ Initialized
    /\ signaled' = FALSE
    /\ UNCHANGED <<eventVars, condvar, waiting, wait_ret, occurred>>

-----------------------------------------------------------------------------
(* os_event_wait, and os_event_hardwait which is the same *)

(* A call that finds the flag set takes it and returns at once; one that finds
   it clear and only polls returns without a trace. *)
WaitSignaled(w) ==
    /\ Initialized /\ waiting[w] = "none" /\ signaled
    /\ signaled' = manual_reset
    /\ UNCHANGED <<eventVars, condvar, waiting, wait_ret, occurred>>

(* Mutated: the caller sleeps without a look at the flag. *)
WaitBlockBlind(w, ms) ==
    /\ Initialized /\ waiting[w] = "none"
    /\ waiting' = [waiting EXCEPT ![w] = ms]
    /\ condvar' = condvar \cup {w}
    /\ UNCHANGED <<eventVars, signaled, wait_ret, occurred>>

(* pthread_cond_wait and pthread_cond_timedwait queue the caller. *)
WaitBlock(w, ms) ==
    /\ Initialized /\ waiting[w] = "none" /\ ~signaled /\ ms # "poll"
    /\ waiting' = [waiting EXCEPT ![w] = ms]
    /\ condvar' = condvar \cup {w}
    /\ UNCHANGED <<eventVars, signaled, wait_ret, occurred>>

(* Mutated: the result of pthread_cond_timedwait is not kept. *)
ExpireForgotten(w) ==
    /\ w \in condvar /\ waiting[w] = "timed"
    /\ condvar' = condvar \ {w}
    /\ UNCHANGED <<eventVars, signaled, waiting, wait_ret, occurred>>

Expire(w) ==
    /\ w \in condvar /\ waiting[w] = "timed"
    /\ condvar' = condvar \ {w}
    /\ wait_ret' = [wait_ret EXCEPT ![w] = "ETIMEDOUT"]
    /\ UNCHANGED <<eventVars, signaled, waiting, occurred>>

(* POSIX lets pthread_cond_wait return 0 without a signal. *)
SpuriousWakeup(w) ==
    /\ w \in condvar
    /\ condvar' = condvar \ {w}
    /\ occurred' = [occurred EXCEPT ![w] = TRUE]
    /\ UNCHANGED <<eventVars, signaled, waiting, wait_ret>>

Woken(w) == waiting[w] # "none" /\ w \notin condvar

Status(w) == IF wait_ret[w] = "0" THEN "OSAL_SUCCESS" ELSE "OSAL_TIMEOUT"

(* The sleeper has the mutex again: whatever it returns, an auto-reset event is
   reset. *)
WaitReturn(w) ==
    /\ Woken(w)
    /\ signaled' = (signaled /\ manual_reset)
    /\ waiting' = [waiting EXCEPT ![w] = "none"]
    /\ wait_ret' = [wait_ret EXCEPT ![w] = "0"]
    /\ occurred' = [occurred EXCEPT ![w] = FALSE]
    /\ UNCHANGED <<eventVars, condvar>>

-----------------------------------------------------------------------------
Next ==
    \/ \E manual \in BOOLEAN : OsEventCreate(manual)
    \/ OsEventDestroy
    \/ OsEventSet
    \/ OsEventReset
    \/ \E w \in Waiters :
          \/ WaitSignaled(w)
          \/ \E ms \in WaitTimes : WaitBlock(w, ms)
          \/ Expire(w) \/ SpuriousWakeup(w) \/ WaitReturn(w)

(* Timeouts expire, and a woken thread gets the mutex, which nobody keeps. *)
Fairness == \A w \in Waiters : WF_vars(Expire(w)) /\ WF_vars(WaitReturn(w))

Spec == Init /\ [][Next]_vars /\ Fairness

-----------------------------------------------------------------------------
(* os_event_set signals a single thread, which timeouts, spurious wakeups and
   newcomers may beat to the mutex: still, an auto-reset event is never left
   signaled with threads asleep on it but nobody woken to take it. *)
NoSleepWhileSignaled ==
    signaled /\ ~manual_reset /\ condvar # {} => \E w \in Waiters : Woken(w)

(* Nor is it left signaled for good while somebody is inside a wait, however
   sets, timeouts, spurious wakeups and new waiters interleave. *)
SetIsTaken ==
    (signaled /\ ~manual_reset /\ \E w \in Waiters : waiting[w] # "none") ~> ~signaled

(* include/osal_event.h, of os_event_hardwait: it "will only complete on timeout
   or an event occuring", and returns OSAL_SUCCESS for the latter.  The wait does
   not look at the flag when it is woken: what it takes for the event is a set
   made during its call, or a spurious wakeup, and never its own timeout. *)
SuccessHasCause ==
    \A w \in Waiters : Woken(w) /\ Status(w) = "OSAL_SUCCESS" => occurred[w]

-----------------------------------------------------------------------------
(* The threads whose call does not sleep are inside it for one step only. *)
Abstract == INSTANCE Event WITH
    Threads <- Waiters,
    live <- Initialized,
    manual <- manual_reset,
    flag <- signaled,
    ringing <- FALSE,
    call <- [w \in Waiters |-> [ms |-> waiting[w], interruptible |-> FALSE]],
    occurred <- {w \in Waiters : occurred[w]},
    answer <- [w \in Waiters |-> IF Woken(w) THEN Status(w) ELSE "none"]

(* The flag and the condition variable together are the event of the header: a set
   stays in the flag, a thread that is taken off the queue returns what it was taken
   off for, and a wait without a timeout never returns OSAL_TIMEOUT. *)
ImplementsEvent == Abstract!Spec
=============================================================================
