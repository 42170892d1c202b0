----------------------------- MODULE MCThreading -----------------------------
(***************************************************************************)
(* What threads are made and synchronised with, side by side: semaphores,  *)
(* locks and the threads themselves.  An execution is of one of them, the  *)
(* part, and of an irq lock it watches one of the two locks the program    *)
(* nests; the abstract semaphore and lock are the same for all.            *)
(***************************************************************************)
EXTENDS Integers, FiniteSets, Sequences

CONSTANTS
    Threads, NoThread, Initial, MaxCount, Cpus, Locks,
    parent, child, client, NoSetter, Nobody, Priorities

\* A free lock belongs to nobody; locks are numbers, and 0 is none of them.
ASSUME NoThreadAssumption == NoThread \notin Threads \cup (Cpus \X {"task", "handler"})
ASSUME LocksAssumption == Locks \subseteq Nat \ {0}
ASSUME ThreadsAssumption == IsFiniteSet(Threads)
ASSUME CountsAssumption == Initial \in Nat /\ MaxCount \in Nat
ASSUME ActorsAssumption == NoSetter # child /\ parent # client /\ Nobody # "self"

VARIABLES
    part, watched,
    count, wait_list, granted,                              \* struct semaphore
    sema_static_init_cnt, static_sema_lock, initialised, ready, pc,
    interface, handle, blocks, owner, lpc,                  \* os_lock_t, os_mutex_t
    holder, irqs_on, in_irq, spinning, held, saved,         \* os_irqlock_t
    \* os_thread_t of the kernel and its event
    state, manual_reset, signaled, spinlock, wait_queue, wpc, call, runnable,
    signal, timer, handler, stale, timedout, seen,
    thread_state, pfn_callback, priority, sched, tpc, opc, exit_called,
    \* os_thread_t of user space
    p_state, osd_state, suspended_flag, mtx, cvr, p_sched, p_tpc, cancelled, joined,
    upc, resumed, spurious, terminated, bad_id

semaVars == <<sema_static_init_cnt, static_sema_lock, initialised, ready, pc>>
countVars == <<count, wait_list, granted>>
lockVars == <<handle, blocks, lpc>>
mutexVars == <<interface, owner>>
irqVars == <<holder, irqs_on, in_irq, spinning, held, saved>>
kernelThreadVars ==
    <<state, manual_reset, signaled, spinlock, wait_queue, wpc, call, runnable, signal,
      timer, handler, stale, timedout, seen, thread_state, pfn_callback, priority, sched,
      tpc, opc, exit_called>>
userThreadVars ==
    <<p_state, osd_state, suspended_flag, mtx, cvr, p_sched, p_tpc, cancelled, joined, upc,
      resumed, spurious, terminated, bad_id>>
threadVars == <<kernelThreadVars, userThreadVars>>
vars == <<part, watched, semaVars, countVars, lockVars, mutexVars, irqVars, threadVars>>

Sema == INSTANCE OsalSemaKernel
KernelLock == INSTANCE OsalLockKernel WITH pc <- lpc
Mutex == INSTANCE OsalMutex WITH pc <- lpc
Irqlock == INSTANCE OsalIrqlockKernel WITH NoContext <- NoThread, state <- saved
KernelThread == INSTANCE OsalThreadKernel WITH owner <- parent, thread <- child, pc <- wpc
UserThread == INSTANCE OsalThreadUser WITH
    owner <- parent, thread_state <- p_state, sched <- p_sched, tpc <- p_tpc

Init ==
    /\ part \in {"semaphore", "kernel_lock", "mutex", "irqlock", "kernel_thread",
                "user_thread"}
    /\ watched \in IF part = "irqlock" THEN Locks ELSE {1}
    /\ Sema!Init
    /\ Irqlock!Init
    /\ lpc = [t \in Threads |-> "idle"]
    /\ handle = "none" /\ blocks = {} /\ owner = NoThread
    /\ interface \in IF part = "mutex" THEN Mutex!Interfaces ELSE {"lock"}
    /\ KernelThread!Init
    /\ UserThread!Init

SemaFrame ==
    /\ part = "semaphore"
    /\ UNCHANGED <<part, watched, lockVars, mutexVars, irqVars, threadVars>>
KernelLockFrame ==
    /\ part = "kernel_lock"
    /\ UNCHANGED <<part, watched, semaVars, mutexVars, irqVars, threadVars>>
MutexFrame ==
    part = "mutex" /\ UNCHANGED <<part, watched, semaVars, countVars, irqVars, threadVars>>
IrqlockFrame ==
    /\ part = "irqlock"
    /\ UNCHANGED <<part, watched, semaVars, countVars, lockVars, mutexVars, threadVars>>
KernelThreadFrame ==
    /\ part = "kernel_thread"
    /\ UNCHANGED <<part, watched, semaVars, countVars, lockVars, mutexVars, irqVars,
                   userThreadVars>>
UserThreadFrame ==
    /\ part = "user_thread"
    /\ UNCHANGED <<part, watched, semaVars, countVars, lockVars, mutexVars, irqVars,
                   kernelThreadVars>>

Next ==
    \/ Sema!Next /\ SemaFrame
    \/ KernelLock!Next /\ KernelLockFrame
    \/ Mutex!Next /\ MutexFrame
    \/ Irqlock!Next /\ IrqlockFrame
    \/ KernelThread!Next /\ KernelThreadFrame
    \/ UserThread!Next /\ UserThreadFrame

(* The fairness of each part.  Only one part is ever enabled, so a condition can
   be shared between a step of each. *)
First == CHOOSE cpu \in Cpus : TRUE

Fairness ==
    /\ \A t \in Threads :
          WF_vars(\/ Sema!Inside(t) /\ SemaFrame
                  \/ KernelLock!Inside(t) /\ KernelLockFrame
                  \/ Mutex!Inside(t) /\ MutexFrame
                  \/ KernelThread!Thread /\ KernelThreadFrame)
    /\ \A cpu \in Cpus : WF_vars(Irqlock!InterruptReturn(cpu) /\ IrqlockFrame)
    /\ \A cpu \in Cpus :
          SF_vars(\/ Irqlock!Spin(<<cpu, "task">>) /\ IrqlockFrame
                  \/ /\ UserThread!User(IF cpu = First THEN parent ELSE client)
                     /\ UserThreadFrame
                  \/ IF cpu = First THEN KernelThread!FunctionReturn /\ KernelThreadFrame
                                     ELSE KernelThread!WaitStep /\ KernelThreadFrame)
    /\ \A cpu \in Cpus :
          SF_vars(\/ Irqlock!Spin(<<cpu, "handler">>) /\ IrqlockFrame
                  \/ IF cpu = First THEN UserThread!Wrapper /\ UserThreadFrame
                                     ELSE UserThread!FunctionEnd /\ UserThreadFrame)
    /\ \A l \in Locks :
          SF_vars(\/ \E c \in Irqlock!Contexts :
                        Irqlock!OsIrqlockRelease(c, l) /\ IrqlockFrame
                  \/ UserThread!ActOnCancel /\ UserThreadFrame)

Spec == Init /\ [][Next]_vars /\ Fairness

-----------------------------------------------------------------------------
(* The kernel's semaphore keeps the promises of the header: permits are neither
   lost nor duplicated by callers that initialise, get, try, put and sleep at
   the same time, and a permit that is there is given to somebody who asks. *)
ImplementsSemaphore == Sema!ImplementsSemaphore

LockOwner ==
    IF part = "irqlock" THEN holder[watched]
    ELSE IF \E t \in Threads : lpc[t] = "locked"
         THEN CHOOSE t \in Threads : lpc[t] = "locked" ELSE NoThread

LockWanting ==
    IF part = "irqlock" THEN {c \in Irqlock!Contexts : spinning[c] = watched}
    ELSE {t \in Threads : lpc[t] \in {"get", "asleep"}}

Abstract == INSTANCE Lock WITH
    Contexts <- Threads \cup Irqlock!Contexts, NoContext <- NoThread,
    owner <- LockOwner, wanting <- LockWanting, live <- part = "irqlock" \/ handle = "lock"

(* Every lock excludes, threads, tasks and handlers alike, and a free one that
   is waited for is taken.  In the kernel, where semaphores and spinlocks serve
   in order, whoever waits gets it: no handler spins for a lock its own
   processor's task holds, and no sleeper is passed over. *)
ImplementsLock ==
    Abstract!Spec /\ (part \in {"kernel_lock", "irqlock"} => Abstract!Fair)

(* Memory that a thread uses is allocated; nothing stays allocated when a
   creation fails half-way or the lock is destroyed; and a destroy that is
   refused because the mutex is held frees nothing. *)
LockMemory ==
    /\ part = "kernel_lock" => KernelLock!LockMemory
    /\ part = "mutex" => Mutex!LockMemory

(* The processor's interrupts are off exactly while a handler runs or its task
   holds or wants a lock: nested acquires and releases bring back what was
   before, and a contended lock does not bring back another processor's state. *)
IrqsRestored == Irqlock!IrqsRestored

(* When a wait for a kernel thread has returned, or the owner has destroyed it,
   the thread is done with its os_thread_t. *)
WaitMeansReturned == KernelThread!WaitMeansReturned

(* The first wait for a kernel thread returns, whenever the thread ends. *)
FirstWaitReturns == KernelThread!FirstWaitReturns

(* A pthread is cancelled and joined at most once, except by a terminate. *)
JoinedOnce == UserThread!JoinedOnce

(* A suspended thread's function starts after a resume, and what suspend and
   get_state say of a thread whose function runs is true. *)
SuspendedUntilResumed == UserThread!SuspendedUntilResumed

(* A resume is not lost, whichever of the two threads is first. *)
ResumedRuns == UserThread!ResumedRuns

(* os_thread_destroy returns wherever the thread is. *)
DestroyReturns == UserThread!DestroyReturns
=============================================================================
