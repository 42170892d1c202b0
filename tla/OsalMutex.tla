----------------------------- MODULE OsalMutex -----------------------------
(***************************************************************************)
(* The locks that are one mutex of the system: os_lock_t, os_mutex_t and   *)
(* os_irqlock_t in user space (linux_user/src/lock.c, osal_irqlock.c) and  *)
(* os_mutex_t in the kernel (linux_kernel/src/osal_lock.c).  They differ   *)
(* in who provides the memory and in what they make of the system's        *)
(* results.                                                                *)
(***************************************************************************)
EXTENDS FiniteSets

CONSTANTS Threads, NoThread

Interfaces == {"lock", "mutex", "irqlock", "kernel_mutex"}

VARIABLES
    interface,  \* which of the four is used
    handle,     \* "none", "null" after a failed creation, "lock"
    blocks,     \* the memory os_create_lock has allocated
    owner,      \* the owner of the mutex
    pc

vars == <<interface, handle, blocks, owner, pc>>

TypeOK ==
    /\ interface \in Interfaces
    /\ handle \in {"none", "null", "lock"}
    /\ blocks \subseteq {"mutex"}
    /\ owner \in Threads \cup {NoThread}
    /\ pc \in [Threads -> {"idle", "get", "locked"}]

Init ==
    /\ interface \in Interfaces
    /\ handle = "none"
    /\ blocks = {}
    /\ owner = NoThread
    /\ pc = [t \in Threads |-> "idle"]

Goto(t, from, to) == pc[t] = from /\ pc' = [pc EXCEPT ![t] = to]

-----------------------------------------------------------------------------
(* The mutex of pthreads and of the kernel: one owner, and a free mutex is
   anybody's who waits. *)
Take(t, from) ==
    /\ handle = "lock"
    /\ owner = NoThread
    /\ owner' = t
    /\ Goto(t, from, "locked")
    /\ UNCHANGED <<interface, handle, blocks>>

Give(t) ==
    /\ owner' = NoThread
    /\ Goto(t, "locked", "idle")
    /\ UNCHANGED <<interface, handle, blocks>>

(* pthread_mutex_init may fail. *)
Make(mayFail) ==
    /\ handle # "lock"
    /\ handle' \in IF mayFail THEN {"null", "lock"} ELSE {"lock"}
    /\ UNCHANGED <<interface, blocks, owner, pc>>

(* No mutex is destroyed that somebody waits for. *)
Unmake ==
    /\ handle = "lock"
    /\ \A t \in Threads : pc[t] # "get"
    /\ handle' = "none"
    /\ UNCHANGED <<interface, owner, pc>>

(* Arguments are not NULL; a caller that gets an error from an initialisation
   does not use the lock. *)
CallLock(t) ==
    /\ handle = "lock"
    /\ Goto(t, "idle", "get")
    /\ UNCHANGED <<interface, handle, blocks, owner>>

-----------------------------------------------------------------------------
(* OS_ALLOC may fail; the result of pthread_mutex_init is not looked at. *)
OsCreateLock ==
    /\ interface = "lock"
    /\ handle # "lock"
    /\ \/ handle' = "null" /\ UNCHANGED blocks
       \/ handle' = "lock" /\ blocks' = {"mutex"}
    /\ UNCHANGED <<interface, owner, pc>>

OsLock(t) == interface = "lock" /\ Take(t, "get")

(* A try that does not get the mutex changes nothing. *)
OsTryLock(t) == interface = "lock" /\ Take(t, "idle")

OsUnlock(t) == interface = "lock" /\ Give(t)

(* Mutated: the memory is freed whatever pthread_mutex_destroy says. *)
OsDestroyLockAlways ==
    /\ interface = "lock"
    /\ IF owner = NoThread THEN Unmake
       ELSE UNCHANGED <<interface, handle, owner, pc>>
    /\ blocks' = {}

(* pthread_mutex_destroy refuses with EBUSY while somebody holds the mutex: the
   caller is told so and the memory stays. *)
OsDestroyLock ==
    /\ interface = "lock"
    /\ IF owner = NoThread THEN Unmake /\ blocks' = {} ELSE UNCHANGED vars

-----------------------------------------------------------------------------
OsMutexInit == interface = "mutex" /\ Make(TRUE)
OsMutexLock(t) == interface = "mutex" /\ Take(t, "get")
OsMutexTrylock(t) == interface = "mutex" /\ Take(t, "idle")
OsMutexUnlock(t) == interface = "mutex" /\ Give(t)

(* Refused, with OSAL_ERROR, while the mutex is held. *)
OsMutexDestroy ==
    /\ interface = "mutex"
    /\ IF owner = NoThread THEN Unmake /\ UNCHANGED blocks ELSE UNCHANGED vars

(* The kernel's functions cannot fail, not even mutex_destroy: the program has
   to know that nobody holds the mutex. *)
KernelMutexInit == interface = "kernel_mutex" /\ Make(FALSE)
KernelMutexLock(t) == interface = "kernel_mutex" /\ Take(t, "get")
KernelMutexTrylock(t) == interface = "kernel_mutex" /\ Take(t, "idle")
KernelMutexUnlock(t) == interface = "kernel_mutex" /\ Give(t)
KernelMutexDestroy ==
    interface = "kernel_mutex" /\ owner = NoThread /\ Unmake /\ UNCHANGED blocks

(* In user space an irq lock is a mutex too.  Its destroy reports success in any
   case, so that here, too, the program has to know. *)
OsIrqlockInit == interface = "irqlock" /\ Make(TRUE)
OsIrqlockAcquire(t) == interface = "irqlock" /\ Take(t, "get")
OsIrqlockRelease(t) == interface = "irqlock" /\ Give(t)
OsIrqlockDestroy ==
    interface = "irqlock" /\ owner = NoThread /\ Unmake /\ UNCHANGED blocks

-----------------------------------------------------------------------------
Inside(t) ==
    \/ OsLock(t) \/ OsMutexLock(t) \/ KernelMutexLock(t) \/ OsIrqlockAcquire(t)
    \/ OsUnlock(t) \/ OsMutexUnlock(t) \/ KernelMutexUnlock(t) \/ OsIrqlockRelease(t)

Next ==
    \/ OsCreateLock \/ OsMutexInit \/ KernelMutexInit \/ OsIrqlockInit
    \/ OsDestroyLock \/ OsMutexDestroy \/ KernelMutexDestroy \/ OsIrqlockDestroy
    \/ \E t \in Threads :
          \/ CallLock(t)
          \/ OsTryLock(t) \/ OsMutexTrylock(t) \/ KernelMutexTrylock(t)
          \/ Inside(t)

(* Runnable threads run, and a thread that holds the lock releases it. *)
Fairness == \A t \in Threads : WF_vars(Inside(t))

Spec == Init /\ [][Next]_vars /\ Fairness

-----------------------------------------------------------------------------
Abstract == INSTANCE Lock WITH
    Contexts <- Threads, NoContext <- NoThread,
    owner <- IF \E t \in Threads : pc[t] = "locked"
             THEN CHOOSE t \in Threads : pc[t] = "locked" ELSE NoThread,
    wanting <- {t \in Threads : pc[t] = "get"},
    live <- handle = "lock"

(* A lock excludes, and a free one that is waited for is taken; who gets it is
   left to the system. *)
ImplementsLock == Abstract!Spec

(* A lock that is destroyed while somebody holds it, which is refused, goes on
   being one: its memory stays until a destroy succeeds, and not longer. *)
LockMemory ==
    /\ interface = "lock" => (blocks # {} <=> handle = "lock")
    /\ \A t \in Threads : pc[t] # "idle" => handle = "lock"
=============================================================================
