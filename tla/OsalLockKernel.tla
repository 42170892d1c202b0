--------------------------- MODULE OsalLockKernel ---------------------------
(***************************************************************************)
(* The locks behind os_lock_t in the kernel, linux_kernel/src/osal_lock.c: *)
(* an allocated structure with an allocated semaphore of one permit.       *)
(***************************************************************************)
EXTENDS Integers, FiniteSets, Sequences

CONSTANTS Threads, NoThread

VARIABLES
    handle,     \* what os_create_lock has returned: "none" before, "null", "lock"
    blocks,     \* what is allocated: p_lock, p_lock->p_sema
    count, wait_list, granted, pc   \* the semaphore and the threads

(* os_sema_init, os_sema_get, os_sema_tryget and os_sema_put; what belongs to
   static semaphores is not used here. *)
Sema == INSTANCE OsalSemaKernel WITH
    Initial <- 1, MaxCount <- 1, sema_static_init_cnt <- 0,
    static_sema_lock <- NoThread, initialised <- handle = "lock",
    ready <- Threads

semaphore == <<count, wait_list, granted>>
vars == <<handle, blocks, semaphore, pc>>

Goto(t, from, to) == pc[t] = from /\ pc' = [pc EXCEPT ![t] = to]

TypeOK ==
    /\ handle \in {"none", "null", "lock"}
    /\ blocks \subseteq {"p_lock", "p_sema"}
    /\ count \in 0 .. 1
    /\ wait_list \in Seq(Threads)
    /\ granted \subseteq Threads
    /\ pc \in [Threads -> {"idle", "create", "get", "asleep", "locked"}]

Init ==
    /\ handle = "none"
    /\ blocks = {}
    /\ count = 0
    /\ wait_list = <<>>
    /\ granted = {}
    /\ pc = [t \in Threads |-> "idle"]

-----------------------------------------------------------------------------
(* os_create_lock: the first allocation fails, or the second is tried. *)
AllocLock(t) ==
    /\ handle # "lock"
    /\ \A u \in Threads : pc[u] = "idle"
    /\ \/ handle' = "null" /\ UNCHANGED <<blocks, pc>>
       \/ /\ blocks' = blocks \cup {"p_lock"}
          /\ Goto(t, "idle", "create")
          /\ UNCHANGED handle
    /\ UNCHANGED semaphore

(* The semaphore is allocated and gets its permit, or the error path frees the
   structure and returns NULL. *)
AllocSema(t) ==
    /\ Goto(t, "create", "idle")
    /\ \/ /\ handle' = "null"
          /\ blocks' = blocks \ {"p_lock"}
          /\ UNCHANGED semaphore
       \/ /\ handle' = "lock"
          /\ blocks' = blocks \cup {"p_sema"}
          /\ Sema!SemaInit(1)

CallLock(t) ==
    /\ handle = "lock"
    /\ Goto(t, "idle", "get")
    /\ UNCHANGED <<handle, blocks, semaphore>>

OsLock(t) ==
    /\ Sema!Down(t, "locked") \/ Sema!Woken(t, "locked")
    /\ UNCHANGED <<handle, blocks>>

(* A try that fails changes nothing. *)
OsTryLock(t) ==
    /\ handle = "lock"
    /\ Sema!DownTrylock(TRUE)
    /\ Goto(t, "idle", "locked")
    /\ UNCHANGED <<handle, blocks>>

OsUnlock(t) ==
    /\ Goto(t, "locked", "idle")
    /\ Sema!Up
    /\ UNCHANGED <<handle, blocks>>

(* The program destroys a lock that nobody holds or waits for: the function
   frees it in any case. *)
OsDestroyLock ==
    /\ handle = "lock"
    /\ \A t \in Threads : pc[t] = "idle"
    /\ blocks' = blocks \ {"p_sema", "p_lock"}
    /\ handle' = "none"
    /\ UNCHANGED <<semaphore, pc>>

Inside(t) == AllocSema(t) \/ OsLock(t) \/ OsUnlock(t)

Next ==
    \/ OsDestroyLock
    \/ \E t \in Threads :
          AllocLock(t) \/ CallLock(t) \/ OsTryLock(t) \/ Inside(t)

(* Runnable threads run, and a thread that holds the lock releases it. *)
Fairness == \A t \in Threads : WF_vars(Inside(t))

Spec == Init /\ [][Next]_vars /\ Fairness

-----------------------------------------------------------------------------
(* A permit given to a sleeper is nobody's until the sleeper runs. *)
Abstract == INSTANCE Lock WITH
    Contexts <- Threads, NoContext <- NoThread,
    owner <- IF \E t \in Threads : pc[t] = "locked"
             THEN CHOOSE t \in Threads : pc[t] = "locked" ELSE NoThread,
    wanting <- {t \in Threads : pc[t] \in {"get", "asleep"}},
    live <- handle = "lock"

(* A lock excludes, and nobody waits for ever: the semaphore serves in order. *)
ImplementsLock == Abstract!Spec /\ Abstract!Fair

(* Memory that a thread uses is allocated, and nothing stays allocated when the
   creation fails half-way or the lock is destroyed. *)
LockMemory ==
    /\ handle = "lock" => blocks = {"p_lock", "p_sema"}
    /\ handle # "lock" =>
          /\ blocks # {} => \E t \in Threads : pc[t] = "create"
          /\ \A t \in Threads : pc[t] \notin {"get", "asleep", "locked"}
=============================================================================
