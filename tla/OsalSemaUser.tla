---------------------------- MODULE OsalSemaUser ----------------------------
(***************************************************************************)
(* The user-space semaphore of linux_user/src/osal_sema.c: a count guarded *)
(* by a pthread mutex, with a condition variable non_zero that getters     *)
(* sleep on.  os_sema_put signals non_zero after it has released the       *)
(* mutex, so a getter can run between the two.  A statically defined       *)
(* semaphore is initialised by whichever caller comes first, under the     *)
(* file's global fast_mutex.                                               *)
(*                                                                         *)
(* Taking a mutex and the first thing done under it are one step: until    *)
(* the mutex is released no other thread can look at what it guards.       *)
(***************************************************************************)
EXTENDS Integers, FiniteSets

CONSTANTS
    Threads,    \* the threads that share the semaphore
    NoThread,   \* the owner of a free mutex
    Initial,    \* the initial value every initialiser passes
    MaxCount    \* bound: no put is called once count has reached it

ASSUME ThreadsAssumption == IsFiniteSet(Threads) /\ NoThread \notin Threads
ASSUME CountsAssumption == Initial \in Nat /\ MaxCount \in Nat

VARIABLES
    count,                  \* s->count
    mutex,                  \* the owner of s->lock
    non_zero,               \* the threads queued on the condition variable
    sema_static_init_cnt,   \* s->sema_static_init_cnt, 0 or 1
    fast_mutex,             \* the owner of the file-scope fast_mutex
    initialised,            \* s->lock and s->non_zero are usable
    style,                  \* how the program defines this semaphore
    ready,                  \* the threads that may use it
    pc                      \* where each thread is

useVars == <<count, mutex, non_zero>>
initVars == <<sema_static_init_cnt, fast_mutex, initialised, style, ready>>
vars == <<useVars, initVars, pc>>

InitPCs == {"init_lock", "init_write", "init_unlock"}
GetPCs == {"get_lock", "get_wait", "get_unlock"}
PutPCs == {"put_lock", "put_unlock", "put_signal"}

TypeOK ==
    /\ count \in Nat
    /\ mutex \in Threads \cup {NoThread}
    /\ non_zero \subseteq Threads
    /\ sema_static_init_cnt \in {0, 1}
    /\ fast_mutex \in Threads \cup {NoThread}
    /\ initialised \in BOOLEAN
    /\ style \in {"static", "dynamic"}
    /\ ready \subseteq Threads
    /\ pc \in [Threads -> {"idle"} \cup InitPCs \cup GetPCs \cup PutPCs]

Init ==
    /\ count = 0
    /\ mutex = NoThread
    /\ non_zero = {}
    /\ sema_static_init_cnt = 0
    /\ fast_mutex = NoThread
    /\ initialised = FALSE
    /\ style \in {"static", "dynamic"}
    /\ ready = {}
    /\ pc = [t \in Threads |-> "idle"]

Goto(t, from, to) == pc[t] = from /\ pc' = [pc EXCEPT ![t] = to]

-----------------------------------------------------------------------------
(* os_sema_init and os_sema_destroy: the creator calls them while nobody is
   in a call, and the other threads learn of the semaphore afterwards. *)

Quiet == \A t \in Threads : pc[t] = "idle"

OsSemaInit ==
    /\ style = "dynamic" /\ Quiet /\ ~initialised
    /\ initialised' = TRUE
    /\ count' = Initial
    /\ ready' = Threads
    /\ UNCHANGED <<mutex, non_zero, sema_static_init_cnt, fast_mutex, style, pc>>

OsSemaDestroy ==
    /\ style = "dynamic" /\ Quiet /\ initialised
    /\ initialised' = FALSE
    /\ ready' = {}
    /\ UNCHANGED <<useVars, sema_static_init_cnt, fast_mutex, style, pc>>

-----------------------------------------------------------------------------
(* os_sema_init_pre_inited: every user of a static semaphore calls it first,
   and may call it again, while other threads use the semaphore already. *)

CallInitPreInited(t) ==
    /\ style = "static"
    /\ Goto(t, "idle", "init_lock")
    /\ UNCHANGED <<useVars, initVars>>

(* Mutated: the test of the flag is not under fast_mutex. *)
InitLockUnguarded(t) ==
    /\ Goto(t, "init_lock",
            IF sema_static_init_cnt = 0 THEN "init_write" ELSE "init_unlock")
    /\ fast_mutex' = t
    /\ UNCHANGED <<useVars, sema_static_init_cnt, initialised, style, ready>>

InitLock(t) ==
    /\ fast_mutex = NoThread
    /\ Goto(t, "init_lock",
            IF sema_static_init_cnt = 0 THEN "init_write" ELSE "init_unlock")
    /\ fast_mutex' = t
    /\ UNCHANGED <<useVars, sema_static_init_cnt, initialised, style, ready>>

InitWrite(t) ==
    /\ Goto(t, "init_write", "init_unlock")
    /\ initialised' = TRUE
    /\ mutex' = NoThread
    /\ non_zero' = {}
    /\ count' = Initial
    /\ sema_static_init_cnt' = 1
    /\ UNCHANGED <<fast_mutex, style, ready>>

InitUnlock(t) ==
    /\ Goto(t, "init_unlock", "idle")
    /\ fast_mutex' = NoThread
    /\ ready' = ready \cup {t}
    /\ UNCHANGED <<useVars, sema_static_init_cnt, initialised, style>>

-----------------------------------------------------------------------------
(* os_sema_get *)

CallGet(t) ==
    /\ t \in ready
    /\ Goto(t, "idle", "get_lock")
    /\ UNCHANGED <<useVars, initVars>>

(* The thread evaluates the condition of the while loop with the mutex just
   taken: on entry, or at the end of pthread_cond_wait once off the queue. *)
AtLoop(t) ==
    /\ mutex = NoThread
    /\ pc[t] = "get_lock" \/ (pc[t] = "get_wait" /\ t \notin non_zero)

GetTake(t) ==
    /\ AtLoop(t) /\ count # 0
    /\ count' = count - 1
    /\ mutex' = t
    /\ pc' = [pc EXCEPT ![t] = "get_unlock"]
    /\ UNCHANGED <<non_zero, initVars>>

(* pthread_cond_wait queues the thread and releases the mutex in one step. *)
GetBlock(t) ==
    /\ AtLoop(t) /\ count = 0
    /\ non_zero' = non_zero \cup {t}
    /\ pc' = [pc EXCEPT ![t] = "get_wait"]
    /\ UNCHANGED <<count, mutex, initVars>>

(* POSIX lets pthread_cond_wait return without a signal. *)
SpuriousWakeup(t) ==
    /\ t \in non_zero
    /\ non_zero' = non_zero \ {t}
    /\ UNCHANGED <<count, mutex, initVars, pc>>

GetUnlock(t) ==
    /\ Goto(t, "get_unlock", "idle")
    /\ mutex' = NoThread
    /\ UNCHANGED <<count, non_zero, initVars>>

-----------------------------------------------------------------------------
(* os_sema_put *)

CallPut(t) ==
    /\ t \in ready /\ count < MaxCount
    /\ Goto(t, "idle", "put_lock")
    /\ UNCHANGED <<useVars, initVars>>

PutInc(t) ==
    /\ mutex = NoThread
    /\ Goto(t, "put_lock", "put_unlock")
    /\ count' = count + 1
    /\ mutex' = t
    /\ UNCHANGED <<non_zero, initVars>>

(* Mutated: the put returns without a signal. *)
PutUnlockNoSignal(t) ==
    /\ Goto(t, "put_unlock", "idle")
    /\ mutex' = NoThread
    /\ UNCHANGED <<count, non_zero, initVars>>

PutUnlock(t) ==
    /\ Goto(t, "put_unlock", "put_signal")
    /\ mutex' = NoThread
    /\ UNCHANGED <<count, non_zero, initVars>>

(* Mutated: signal only if count is seen at 1 after the mutex is released. *)
PutSignalIfOne(t) ==
    /\ Goto(t, "put_signal", "idle")
    /\ IF count # 1 \/ non_zero = {}
       THEN UNCHANGED non_zero
       ELSE \E u \in non_zero : non_zero' = non_zero \ {u}
    /\ UNCHANGED <<count, mutex, initVars>>

(* pthread_cond_signal: one queued thread, any of them, leaves the queue. *)
PutSignal(t) ==
    /\ Goto(t, "put_signal", "idle")
    /\ \/ non_zero = {} /\ UNCHANGED non_zero
       \/ \E u \in non_zero : non_zero' = non_zero \ {u}
    /\ UNCHANGED <<count, mutex, initVars>>

-----------------------------------------------------------------------------
(* The steps a thread takes inside a call it has begun. *)
Inside(t) ==
    \/ InitLock(t) \/ InitWrite(t) \/ InitUnlock(t)
    \/ GetTake(t) \/ GetBlock(t) \/ GetUnlock(t)
    \/ PutInc(t) \/ PutUnlock(t) \/ PutSignal(t)

Next ==
    \/ OsSemaInit
    \/ OsSemaDestroy
    \/ \E t \in Threads :
          \/ CallInitPreInited(t)
          \/ CallGet(t)
          \/ CallPut(t)
          \/ SpuriousWakeup(t)
          \/ Inside(t)

(* The scheduler runs a thread that can run.  Nothing makes a thread call the
   semaphore or a wakeup be spurious, and a mutex that several threads want
   goes to any of them. *)
Fairness == \A t \in Threads : WF_vars(Inside(t))

Spec == Init /\ [][Next]_vars /\ Fairness

-----------------------------------------------------------------------------
(* The wakeups on their way: getters that have left the queue and will look at
   count again, and puts that have yet to signal. *)
Waking == {t \in Threads :
              \/ pc[t] = "get_wait" /\ t \notin non_zero
              \/ pc[t] \in {"put_unlock", "put_signal"}}

(* os_sema_put releases the mutex before it signals, and getters and putters
   may run in between: still, while a getter sleeps, every available permit
   has a wakeup of its own on the way, so none is left for nobody to take. *)
NoLostWakeup == non_zero # {} => count <= Cardinality(Waking)

(* The threads inside the critical sections of get and put own the mutex.  A
   second initialisation of s->lock while it is held would break this. *)
MutualExclusion ==
    \A t \in Threads : pc[t] \in {"get_unlock", "put_unlock"} => mutex = t

(* os_sema_init_pre_inited may race with itself and with users of the
   semaphore, but no thread writes the fields of a semaphore that is already
   initialised, that anybody uses or that another thread is writing. *)
InitAlone ==
    \A t \in Threads : pc[t] = "init_write" =>
        /\ ~initialised
        /\ \A u \in Threads \ {t} : pc[u] \notin {"init_write"} \cup GetPCs \cup PutPCs

-----------------------------------------------------------------------------
(* The permits are count, a getter asks until its GetTake, and the semaphore
   lives from its initialisation to its destruction. *)
Abstract == INSTANCE Semaphore WITH
    avail <- IF initialised THEN count ELSE 0,
    asking <- {t \in Threads : pc[t] \in {"get_lock", "get_wait"}},
    live <- initialised

(* The mutex and condition-variable protocol implements the semaphore of the
   header: permits are neither lost nor duplicated by any interleaving of
   init, get, put, signal and spurious wakeup, and while permits are available
   to waiting getters, getters go on being served. *)
ImplementsSemaphore == Abstract!Spec
=============================================================================
