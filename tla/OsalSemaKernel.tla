--------------------------- MODULE OsalSemaKernel ---------------------------
(***************************************************************************)
(* The kernel's semaphore, linux_kernel/src/osal_sema.c: Linux's struct    *)
(* semaphore, which hands a permit to the longest sleeper, behind a flag   *)
(* that lets several callers initialise one semaphore.                     *)
(***************************************************************************)
EXTENDS Integers, FiniteSets, Sequences

CONSTANTS
    Threads,    \* the callers of the semaphore
    NoThread,   \* the owner of a free spinlock
    Initial,    \* the initial value every initialiser passes
    MaxCount    \* bound: no put is called once count has reached it


VARIABLES
    count,                  \* p_sema->sema.count
    wait_list,              \* p_sema->sema.wait_list, longest sleeper first
    granted,                \* the sleepers whose waiter.up is set
    sema_static_init_cnt,   \* p_sema->sema_static_init_cnt
    static_sema_lock,       \* the owner of the file's spinlock
    initialised,            \* sema_init has been called
    ready,                  \* the threads that may use the semaphore
    pc                      \* where each thread is

semaphore == <<count, wait_list, granted>>
initVars == <<sema_static_init_cnt, static_sema_lock, initialised, ready>>
vars == <<semaphore, initVars, pc>>

TypeOK ==
    /\ count \in Nat
    /\ wait_list \in Seq(Threads)
    /\ granted \subseteq Threads
    /\ sema_static_init_cnt \in {0, 1}
    /\ static_sema_lock \in Threads \cup {NoThread}
    /\ initialised \in BOOLEAN
    /\ ready \subseteq Threads
    /\ pc \in [Threads -> {"idle", "init_lock", "init_write", "init_unlock",
                           "get", "asleep"}]

(* OS_DEFINE_INITIALIZED_SEMA, or a structure that os_sema_init will fill. *)
Init ==
    /\ count = 0
    /\ wait_list = <<>>
    /\ granted = {}
    /\ sema_static_init_cnt = 0
    /\ static_sema_lock = NoThread
    /\ initialised = FALSE
    /\ ready = {}
    /\ pc = [t \in Threads |-> "idle"]

Goto(t, from, to) == pc[t] = from /\ pc' = [pc EXCEPT ![t] = to]

-----------------------------------------------------------------------------
(* sema_init(): the count, and an empty list. *)
SemaInit(n) ==
    /\ count' = n
    /\ wait_list' = <<>>
    /\ granted' = {}

(* down(): a permit if there is one, or a place at the end of the list.  The
   caller goes on at after. *)
Down(t, after) ==
    \/ /\ count > 0
       /\ count' = count - 1
       /\ Goto(t, "get", after)
       /\ UNCHANGED <<wait_list, granted>>
    \/ /\ count = 0
       /\ wait_list' = Append(wait_list, t)
       /\ Goto(t, "get", "asleep")
       /\ UNCHANGED <<count, granted>>

(* A sleeper returns when its waiter.up is set, and only then. *)
Woken(t, after) ==
    /\ t \in granted
    /\ granted' = granted \ {t}
    /\ Goto(t, "asleep", after)
    /\ UNCHANGED <<count, wait_list>>

(* up(): the permit goes to the head of the list, or is counted. *)
Up ==
    \/ /\ wait_list = <<>>
       /\ count' = count + 1
       /\ UNCHANGED <<wait_list, granted>>
    \/ /\ wait_list # <<>>
       /\ granted' = granted \cup {Head(wait_list)}
       /\ wait_list' = Tail(wait_list)
       /\ UNCHANGED count

(* down_trylock(): it returns 0 when it has taken a permit. *)
DownTrylock(acquired) ==
    /\ acquired <=> count > 0
    /\ count' = IF acquired THEN count - 1 ELSE count
    /\ UNCHANGED <<wait_list, granted>>

-----------------------------------------------------------------------------
CallInitPreInited(t) ==
    /\ t \notin ready
    /\ Goto(t, "idle", "init_lock")
    /\ UNCHANGED <<semaphore, initVars>>

(* spin_lock and the test of the flag under it. *)
InitLock(t) ==
    /\ static_sema_lock = NoThread
    /\ static_sema_lock' = t
    /\ Goto(t, "init_lock",
            IF sema_static_init_cnt = 0 THEN "init_write" ELSE "init_unlock")
    /\ UNCHANGED <<semaphore, sema_static_init_cnt, initialised, ready>>

(* Mutated: the flag is not set. *)
InitWriteUnmarked(t) ==
    /\ Goto(t, "init_write", "init_unlock")
    /\ SemaInit(Initial)
    /\ initialised' = TRUE
    /\ UNCHANGED <<sema_static_init_cnt, static_sema_lock, ready>>

InitWrite(t) ==
    /\ Goto(t, "init_write", "init_unlock")
    /\ SemaInit(Initial)
    /\ sema_static_init_cnt' = 1
    /\ initialised' = TRUE
    /\ UNCHANGED <<static_sema_lock, ready>>

InitUnlock(t) ==
    /\ Goto(t, "init_unlock", "idle")
    /\ static_sema_lock' = NoThread
    /\ ready' = ready \cup {t}
    /\ UNCHANGED <<semaphore, sema_static_init_cnt, initialised>>

(* The owner of a dynamic semaphore initialises it and hands it out.  The flag
   stays 0, so that nobody may mix both ways on one semaphore. *)
OsSemaInit ==
    /\ ~initialised
    /\ \A t \in Threads : pc[t] = "idle"
    /\ SemaInit(Initial)
    /\ initialised' = TRUE
    /\ ready' = Threads
    /\ UNCHANGED <<sema_static_init_cnt, static_sema_lock, pc>>

(* os_sema_destroy does nothing; the program stops using the semaphore.  It is
   modelled for a dynamic one: a static one would stay marked. *)
OsSemaDestroy ==
    /\ initialised /\ sema_static_init_cnt = 0
    /\ \A t \in Threads : pc[t] = "idle"
    /\ initialised' = FALSE
    /\ ready' = {}
    /\ count' = 0
    /\ UNCHANGED <<wait_list, granted, sema_static_init_cnt, static_sema_lock, pc>>

CallGet(t) ==
    /\ t \in ready
    /\ Goto(t, "idle", "get")
    /\ UNCHANGED <<semaphore, initVars>>

OsSemaGet(t) ==
    /\ Down(t, "idle") \/ Woken(t, "idle")
    /\ UNCHANGED initVars

OsSemaTryget(t) ==
    /\ t \in ready /\ pc[t] = "idle"
    /\ DownTrylock(TRUE)
    /\ UNCHANGED <<initVars, pc>>

OsSemaPut(t) ==
    /\ t \in ready /\ pc[t] = "idle"
    /\ count < MaxCount
    /\ Up
    /\ UNCHANGED <<initVars, pc>>

Inside(t) ==
    \/ InitLock(t) \/ InitWrite(t) \/ InitUnlock(t)
    \/ OsSemaGet(t)

Next ==
    \/ OsSemaInit
    \/ OsSemaDestroy
    \/ \E t \in Threads :
          \/ CallInitPreInited(t)
          \/ CallGet(t)
          \/ OsSemaTryget(t)
          \/ OsSemaPut(t)
          \/ Inside(t)

(* A runnable thread runs. *)
Fairness == \A t \in Threads : WF_vars(Inside(t))

Spec == Init /\ [][Next]_vars /\ Fairness

-----------------------------------------------------------------------------
(* A permit that has been handed to a sleeper is available to it until it
   returns from down(). *)
Abstract == INSTANCE Semaphore WITH
    avail <- IF initialised THEN count + Cardinality(granted) ELSE 0,
    asking <- {t \in Threads : pc[t] \in {"get", "asleep"}},
    live <- initialised

(* The kernel's semaphore keeps the promises of the header: permits are neither
   lost nor duplicated by callers that initialise, get, try, put and sleep at
   the same time, and a permit that is there is given to somebody who asks. *)
ImplementsSemaphore == Abstract!Spec
=============================================================================
