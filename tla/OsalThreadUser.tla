--------------------------- MODULE OsalThreadUser ---------------------------
(***************************************************************************)
(* A thread of linux_user/src/osal_thread.c, the owner that creates it and *)
(* a client that uses it meanwhile.  The new pthread waits under mtx until *)
(* os_thread_resume makes the state THREAD_ACTIVE; os_thread_create ends   *)
(* with a resume unless it was asked for a suspended thread.  Destroy and  *)
(* terminate cancel the pthread, asynchronously, wherever it is.           *)
(*                                                                         *)
(* p_thread->state is written under mtx by resume only; wrapper, exit and  *)
(* terminate write it, and resume and terminate first read it, without.    *)
(*                                                                         *)
(* From POSIX (not under src/): a condition wait may end without a signal; *)
(* a cancelled condition wait takes the mutex again before the thread      *)
(* ends, and a thread that ends unlocks nothing; cancelling or joining a   *)
(* pthread that has been joined is undefined.                              *)
(***************************************************************************)
EXTENDS Naturals

CONSTANTS
    owner,      \* the thread that creates, waits for, destroys and terminates
    client,     \* another thread, which may resume it and ask its priority
    Nobody,     \* the holder of a free mutex
    Priorities  \* what callers ask for

Users == {owner, client}

VARIABLES
    thread_state,   \* p_thread->state
    osd_state,      \* p_thread->osd.state
    suspended_flag, \* the flags of os_thread_create have OS_THREAD_CREATE_SUSPENDED
    mtx,            \* p_thread->mtx is held by the thread itself ("self")
    cvr,            \* the thread is queued on p_thread->cvr
    sched,          \* the pthread's policy and priority
    tpc,            \* where the thread is
    cancelled,      \* pthread_cancel has been called on it
    joined,         \* pthread_join has returned for it
    upc,            \* where the users are
    \* history
    resumed,        \* a resume has made the state THREAD_ACTIVE
    spurious,       \* the wrapper's wait has ended without a signal
    terminated,     \* os_thread_terminate has been called on it
    bad_id          \* an id that has been joined was cancelled or joined

objectVars == <<thread_state, osd_state, suspended_flag, mtx, cvr>>
pthreadVars == <<sched, tpc, cancelled, joined>>
historyVars == <<resumed, spurious, terminated, bad_id>>
vars == <<objectVars, pthreadVars, upc, historyVars>>

Alive == tpc \notin {"none", "ended"}

SchedOther == [policy |-> "SCHED_OTHER", priority |-> 0]

(* The types; policy and priority fit each other; mtx is held where the wrapper
   holds it, or by a dead thread. *)
TypeOK ==
    /\ thread_state \in {"OS_THREAD_CREATE_SUSPENDED", "THREAD_ACTIVE",
                         "THREAD_INACTIVE", "unset"}
    /\ osd_state \in {"OSAL_UNINITIALIZED", "OSAL_INITIALIZED"}
    /\ suspended_flag \in BOOLEAN
    /\ mtx \in {Nobody, "self"}
    /\ cvr \in BOOLEAN
    /\ tpc \in {"none", "lock", "wait", "unlock", "function", "asleep", "return",
               "ended"}
    /\ cancelled \in BOOLEAN /\ joined \in BOOLEAN
    /\ upc \in [Users -> {"out", "in", "osd", "create_resume", "resume", "priority",
                          "wait_join", "wait_osd", "cancel", "join", "destroy_osd",
                          "terminate", "terminate_join"}]
    /\ resumed \in BOOLEAN /\ spurious \in BOOLEAN /\ terminated \in BOOLEAN /\ bad_id \in BOOLEAN
    /\ sched \in {SchedOther} \cup [policy : {"SCHED_RR"}, priority : 1..99]
    /\ cvr => tpc = "wait"
    /\ mtx = "self" => tpc \in {"unlock", "ended"}

Init ==
    /\ thread_state = "unset" /\ osd_state = "OSAL_UNINITIALIZED"
    /\ suspended_flag = FALSE
    /\ mtx = Nobody /\ cvr = FALSE
    /\ sched = SchedOther
    /\ tpc = "none" /\ cancelled = FALSE /\ joined = FALSE
    /\ upc = [u \in Users |-> "out"]
    /\ resumed = FALSE /\ spurious = FALSE /\ terminated = FALSE /\ bad_id = FALSE

UGoto(u, from, to) == upc[u] = from /\ upc' = [upc EXCEPT ![u] = to]
TGoto(from, to) == tpc = from /\ tpc' = to

\* Where a user is between its calls while there is a thread.
Free(u) == IF u = owner THEN "in" ELSE "out"

(* The client calls once create has returned and until the owner gets rid of
   the thread; a call it has begun may outlast that. *)
MayCall(u) == upc[u] = Free(u) /\ upc[owner] \in {"in", "resume", "wait_join", "wait_osd"}

-----------------------------------------------------------------------------
(* __osal_thread_wrapper and os_thread_exit.  A critical section that does not
   block is one step, except for the wrapper's, in which it may be cancelled. *)

(* Mutated: the new thread waits without a look at the state. *)
WrapperLockWait ==
    /\ TGoto("lock", "wait") /\ mtx = Nobody
    /\ cvr' = TRUE
    /\ UNCHANGED <<thread_state, osd_state, suspended_flag, mtx, sched, cancelled, joined, upc,
                   historyVars>>

(* Mutated: the wrapper does not wait. *)
WrapperLockPass ==
    /\ TGoto("lock", "unlock") /\ mtx = Nobody
    /\ mtx' = "self"
    /\ UNCHANGED <<thread_state, osd_state, suspended_flag, cvr, sched, cancelled, joined, upc,
                   historyVars>>

WrapperLock ==
    /\ mtx = Nobody
    /\ IF thread_state = "OS_THREAD_CREATE_SUSPENDED"
       THEN TGoto("lock", "wait") /\ cvr' = TRUE /\ UNCHANGED mtx
       ELSE TGoto("lock", "unlock") /\ mtx' = "self" /\ UNCHANGED cvr
    /\ UNCHANGED <<thread_state, osd_state, suspended_flag, sched, cancelled, joined, upc,
                   historyVars>>

SpuriousWakeup ==
    /\ cvr
    /\ cvr' = FALSE
    /\ spurious' = TRUE
    /\ UNCHANGED <<thread_state, osd_state, suspended_flag, mtx, pthreadVars, upc,
                   resumed, terminated, bad_id>>

(* pthread_cond_wait returns; the state is not looked at again. *)
WrapperWoken ==
    /\ ~cvr /\ mtx = Nobody
    /\ TGoto("wait", "unlock")
    /\ mtx' = "self"
    /\ UNCHANGED <<thread_state, osd_state, suspended_flag, cvr, sched, cancelled, joined, upc,
                   historyVars>>

WrapperUnlock ==
    /\ TGoto("unlock", "function")
    /\ mtx' = Nobody
    /\ UNCHANGED <<thread_state, osd_state, suspended_flag, cvr, sched, cancelled, joined, upc,
                   historyVars>>

(* os_sleep and os_thread_yield in the thread's function. *)
OsSleep ==
    /\ TGoto("function", "asleep")
    /\ UNCHANGED <<objectVars, sched, cancelled, joined, upc, historyVars>>

SleepEnds ==
    /\ TGoto("asleep", "function")
    /\ UNCHANGED <<objectVars, sched, cancelled, joined, upc, historyVars>>

(* The function returns to the wrapper or calls os_thread_exit, and either of
   them sets the state and ends the thread. *)
FunctionEnd ==
    /\ TGoto("function", "return")
    /\ UNCHANGED <<objectVars, sched, cancelled, joined, upc, historyVars>>

MarkInactive ==
    /\ TGoto("return", "ended")
    /\ thread_state' = "THREAD_INACTIVE"
    /\ UNCHANGED <<osd_state, suspended_flag, mtx, cvr, sched, cancelled, joined, upc,
                   historyVars>>

(* The thread acts on its cancellation. *)
ActOnCancel ==
    /\ cancelled /\ Alive
    /\ tpc = "wait" => mtx = Nobody
    /\ mtx' = IF tpc = "wait" THEN "self" ELSE mtx
    /\ cvr' = FALSE
    /\ tpc' = "ended"
    /\ UNCHANGED <<thread_state, osd_state, suspended_flag, sched, cancelled, joined, upc,
                   historyVars>>

-----------------------------------------------------------------------------
(* os_thread_create; when pthread_create fails there is no thread.  Without root
   the pthread inherits its creator's policy and priority, which are taken to be
   those of a normal thread, whatever was asked for. *)

ValidatePriority(policy, p) ==
    IF policy = "SCHED_OTHER" THEN p = 0 ELSE p \in 1..99

OsThreadCreate ==
    /\ UGoto(owner, "out", "osd") /\ upc[client] = "out"
    /\ thread_state' = "OS_THREAD_CREATE_SUSPENDED"
    /\ osd_state' = "OSAL_UNINITIALIZED"
    /\ suspended_flag' \in BOOLEAN
    /\ mtx' = Nobody /\ cvr' = FALSE
    /\ \E policy \in {"SCHED_OTHER", "SCHED_RR"}, p \in Priorities, root \in BOOLEAN :
          /\ ValidatePriority(policy, p)
          /\ sched' = IF root THEN [policy |-> policy, priority |-> p] ELSE SchedOther
    /\ tpc' = "lock" /\ cancelled' = FALSE /\ joined' = FALSE
    /\ resumed' = FALSE /\ spurious' = FALSE /\ terminated' = FALSE /\ bad_id' = FALSE

CreateOsd ==
    /\ UGoto(owner, "osd", IF suspended_flag THEN "in" ELSE "create_resume")
    /\ osd_state' = "OSAL_INITIALIZED"
    /\ UNCHANGED <<thread_state, suspended_flag, mtx, cvr, pthreadVars, historyVars>>

(* os_thread_resume reads the state before it takes the mutex. *)
CallResume(u) ==
    /\ \/ MayCall(u)
       \/ u = owner /\ upc[u] = "create_resume"
    /\ upc' = [upc EXCEPT ![u] =
                  IF thread_state = "OS_THREAD_CREATE_SUSPENDED" THEN "resume" ELSE Free(u)]
    /\ UNCHANGED <<objectVars, pthreadVars, historyVars>>

Resume(u) ==
    /\ mtx = Nobody
    /\ UGoto(u, "resume", Free(u))
    /\ thread_state' = "THREAD_ACTIVE"
    /\ cvr' = FALSE
    /\ resumed' = TRUE
    /\ UNCHANGED <<osd_state, suspended_flag, mtx, pthreadVars, spurious, terminated,
                   bad_id>>

(* os_thread_suspend, which suspends nothing, and os_thread_get_state: both look
   at the state without the mutex. *)
OsThreadSuspend ==
    IF thread_state = "OS_THREAD_CREATE_SUSPENDED" THEN "OSAL_SUCCESS"
    ELSE "OSAL_NOT_IMPLEMENTED"

OsThreadGetState == thread_state

(* os_thread_set_priority and os_thread_get_priority *)
CallPriority(u) ==
    /\ MayCall(u) /\ ~joined
    /\ upc' = [upc EXCEPT ![u] = "priority"]
    /\ UNCHANGED <<objectVars, pthreadVars, historyVars>>

Priority(u) ==
    /\ mtx = Nobody
    /\ UGoto(u, "priority", Free(u))
    /\ UNCHANGED <<objectVars, pthreadVars, historyVars>>

(* The policy that decides is the pthread's, not the one of os_thread_create. *)
SetPriority(u) ==
    /\ mtx = Nobody
    /\ UGoto(u, "priority", Free(u))
    /\ \E p \in Priorities :
          ValidatePriority(sched.policy, p) /\ sched' = [sched EXCEPT !.priority = p]
    /\ UNCHANGED <<objectVars, tpc, cancelled, joined, historyVars>>

-----------------------------------------------------------------------------
(* os_thread_wait, os_thread_destroy, os_thread_terminate *)

(* pthread_join; one that should not be called does what it likes. *)
Join(from, to) ==
    /\ UGoto(owner, from, to)
    /\ tpc = "ended"
    /\ joined' = TRUE
    /\ bad_id' = (bad_id \/ joined)
    /\ UNCHANGED <<objectVars, sched, tpc, cancelled, resumed, spurious, terminated>>

Cancel(from, to) ==
    /\ UGoto(owner, from, to)
    /\ cancelled' = TRUE
    /\ bad_id' = (bad_id \/ joined)
    /\ UNCHANGED <<objectVars, sched, tpc, joined, resumed, spurious, terminated>>

CallWait ==
    /\ osd_state = "OSAL_INITIALIZED"
    /\ UGoto(owner, "in", "wait_join")
    /\ UNCHANGED <<objectVars, pthreadVars, historyVars>>

(* Mutated: the wait does not note that it has joined the thread. *)
WaitOsdKeep ==
    /\ UGoto(owner, "wait_osd", "in")
    /\ UNCHANGED <<objectVars, pthreadVars, historyVars>>

WaitOsd ==
    /\ UGoto(owner, "wait_osd", "in")
    /\ osd_state' = "OSAL_UNINITIALIZED"
    /\ UNCHANGED <<thread_state, suspended_flag, mtx, cvr, pthreadVars, historyVars>>

(* Mutated: a thread is joined but not cancelled. *)
CallDestroyNoCancel ==
    /\ UGoto(owner, "in", IF osd_state = "OSAL_INITIALIZED" THEN "join" ELSE "destroy_osd")
    /\ UNCHANGED <<objectVars, pthreadVars, historyVars>>

CallDestroy ==
    /\ UGoto(owner, "in", IF osd_state = "OSAL_INITIALIZED" THEN "cancel" ELSE "destroy_osd")
    /\ UNCHANGED <<objectVars, pthreadVars, historyVars>>

DestroyOsd ==
    /\ UGoto(owner, "destroy_osd", "out")
    /\ osd_state' = "OSAL_UNINITIALIZED"
    /\ UNCHANGED <<thread_state, suspended_flag, mtx, cvr, pthreadVars, historyVars>>

(* os_thread_terminate looks at no osd.state, and leaves it as it is. *)
CallTerminate ==
    /\ UGoto(owner, "in", "terminate")
    /\ thread_state' = "THREAD_INACTIVE"
    /\ terminated' = TRUE
    /\ UNCHANGED <<osd_state, suspended_flag, mtx, cvr, pthreadVars, resumed, spurious,
                   bad_id>>

-----------------------------------------------------------------------------
Wrapper ==
    \/ WrapperLock \/ WrapperWoken \/ WrapperUnlock \/ SleepEnds \/ FunctionEnd
    \/ MarkInactive \/ ActOnCancel

User(u) ==
    \/ Resume(u) \/ Priority(u) \/ SetPriority(u)
    \/ /\ u = owner
       /\ \/ CreateOsd
          \/ upc[u] = "create_resume" /\ CallResume(u)
          \/ Join("wait_join", "wait_osd") \/ WaitOsd
          \/ Cancel("cancel", "join") \/ Join("join", "destroy_osd") \/ DestroyOsd
          \/ Cancel("terminate", "terminate_join") \/ Join("terminate_join", "in")

Next ==
    \/ Wrapper \/ OsSleep \/ SpuriousWakeup
    \/ OsThreadCreate \/ CallWait \/ CallDestroy \/ CallTerminate
    \/ \E u \in Users : CallResume(u) \/ CallPriority(u) \/ User(u)

(* Threads run, the mutex is handed out fairly, the thread's function ends. *)
Fairness ==
    /\ SF_vars(Wrapper) /\ SF_vars(FunctionEnd) /\ SF_vars(ActOnCancel)
    /\ \A u \in Users : SF_vars(User(u))

Spec == Init /\ [][Next]_vars /\ Fairness

-----------------------------------------------------------------------------
(* The pthread is cancelled and joined at most once, in whatever order the
   owner waits for it, perhaps again, and destroys it, unless the owner
   terminates it. *)
JoinedOnce == bad_id => terminated

(* Whether the new thread or its resume comes to the mutex first, and whoever
   resumes it, a resumed thread gets past its wrapper's wait. *)
ResumedRuns == (resumed /\ tpc \in {"lock", "wait"}) ~> tpc \notin {"lock", "wait"}

(* os_thread_destroy returns wherever the thread is that it cancels: asleep in
   the wrapper, in its critical section, or in its function. *)
DestroyReturns == (upc[owner] \in {"cancel", "join"}) ~> upc[owner] = "out"

(* include/osal_thread.h, of OS_THREAD_CREATE_SUSPENDED: the thread "does not
   commence execution until os_thread_resume() is called".  The wrapper does not
   look at the state again after its wait: what starts the function is a resume,
   a spurious wakeup, or a terminate that cancels the thread in the same call
   but writes the state first, while the wrapper is not yet at its test.  And
   while the function runs os_thread_suspend does not report a suspended thread,
   nor os_thread_get_state an inactive one, but for the same two causes. *)
SuspendedUntilResumed ==
    tpc \in {"function", "asleep"} =>
        /\ resumed \/ spurious \/ terminated
        /\ OsThreadSuspend = "OSAL_SUCCESS" => spurious
        /\ OsThreadGetState = "THREAD_INACTIVE" => terminated
=============================================================================
