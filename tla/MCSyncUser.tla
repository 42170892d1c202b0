----------------------------- MODULE MCSyncUser -----------------------------
(***************************************************************************)
(* User space's means to wait, side by side: an execution is of the        *)
(* semaphore or of the event, the part.  Three threads: for the semaphore, *)
(* a getter that sleeps while a putter and another getter race for the     *)
(* permit between the unlock and the signal; for the event, one to be      *)
(* signaled, one to come late, one to be left asleep.                      *)
(***************************************************************************)
EXTENDS OsalSemaUser

VARIABLES
    part,
    \* OsalEventUser
    state, manual_reset, signaled, condvar, waiting, wait_ret, occurred

eventVars == <<state, manual_reset, signaled, condvar, waiting, wait_ret, occurred>>
syncVars == <<part, vars, eventVars>>

UserEvent == INSTANCE OsalEventUser WITH Waiters <- Threads

(* What the semaphore may begin with in more than one way is fixed in the other. *)
SyncInit ==
    /\ part \in {"semaphore", "event"}
    /\ Init /\ UserEvent!Init
    /\ part = "semaphore" \/ style = "static"

SemaFrame == part = "semaphore" /\ UNCHANGED <<part, eventVars>>
EventFrame == part = "event" /\ UNCHANGED <<part, vars>>

SyncNext ==
    \/ part = "semaphore" /\ Next /\ SemaFrame
    \/ part = "event" /\ UserEvent!Next /\ EventFrame

(* Threads run, timeouts expire, and a woken thread gets the mutex.  Only the steps of
   one part are ever enabled, so that a thread's step in each can share a condition. *)
SyncFairness ==
    \A t \in Threads :
        /\ WF_syncVars(\/ part = "semaphore" /\ Inside(t) /\ SemaFrame
                       \/ part = "event" /\ UserEvent!Expire(t) /\ EventFrame)
        /\ WF_syncVars(part = "event" /\ UserEvent!WaitReturn(t) /\ EventFrame)

SyncSpec == SyncInit /\ [][SyncNext]_syncVars /\ SyncFairness

-----------------------------------------------------------------------------
(* os_event_set signals one thread: an auto-reset event is not left signaled with
   threads asleep and nobody woken to take it. *)
NoSleepWhileSignaled == UserEvent!NoSleepWhileSignaled

(* A set of an auto-reset event is taken in the end if somebody is inside a wait. *)
SetIsTaken == UserEvent!SetIsTaken

(* The flag and the condition variable are the event of include/osal_event.h: a set
   is kept in the flag, and what a wait returns has a reason. *)
ImplementsEvent == UserEvent!ImplementsEvent
=============================================================================
