------------------------- MODULE OsalIrqlockKernel -------------------------
(***************************************************************************)
(* The kernel's os_irqlock_t, linux_kernel/src/osal_irqlock.c: a spinlock  *)
(* taken with the processor's interrupts off.  Each processor runs a task  *)
(* and, while its interrupts are on, may be interrupted by a handler that  *)
(* takes the same locks.  The caller keeps the interrupt state that        *)
(* os_irqlock_acquire has found.                                           *)
(***************************************************************************)
EXTENDS Integers, SequencesExt

CONSTANTS
    Cpus,
    Locks,      \* numbers: the program takes a smaller one first
    NoContext

Contexts == Cpus \X {"task", "handler"}

VARIABLES
    holder,     \* the owner of each spinlock
    irqs_on,    \* the processors with interrupts on
    in_irq,     \* the processors that are in a handler
    spinning,   \* the lock a context spins for, 0 if none
    held,       \* the locks a context holds, the last one last
    state       \* what acquire has stored in the caller's *state, per lock

vars == <<holder, irqs_on, in_irq, spinning, held, state>>

TypeOK ==
    /\ holder \in [Locks -> Contexts \cup {NoContext}]
    /\ irqs_on \subseteq Cpus
    /\ in_irq \subseteq Cpus
    /\ spinning \in [Contexts -> Locks \cup {0}]
    /\ held \in [Contexts -> Seq(Locks)]
    /\ state \in [Contexts \X Locks -> BOOLEAN]

(* os_irqlock_init: spin_lock_init. *)
Init ==
    /\ holder = [l \in Locks |-> NoContext]
    /\ irqs_on = Cpus
    /\ in_irq = {}
    /\ spinning = [c \in Contexts |-> 0]
    /\ held = [c \in Contexts |-> <<>>]
    /\ state = [cl \in Contexts \X Locks |-> FALSE]

(* A handler runs instead of the task of its processor. *)
Running(c) ==
    /\ c[2] = IF c[1] \in in_irq THEN "handler" ELSE "task"
    /\ spinning[c] = 0

SetIrqs(cpu, on) == irqs_on' = IF on THEN irqs_on \cup {cpu} ELSE irqs_on \ {cpu}

-----------------------------------------------------------------------------
(* Mutated: the callers of one lock keep its state in one place. *)
AcquireSharedState(c, l) ==
    /\ Running(c)
    /\ \A i \in DOMAIN held[c] : held[c][i] < l
    /\ state' = [cl \in Contexts \X Locks |->
                    IF cl[2] = l THEN c[1] \in irqs_on ELSE state[cl]]
    /\ SetIrqs(c[1], FALSE)
    /\ spinning' = [spinning EXCEPT ![c] = l]
    /\ UNCHANGED <<holder, in_irq, held>>

(* spin_lock_irqsave(lock, *state) first saves the interrupt state and turns
   interrupts off, and then spins. *)
OsIrqlockAcquire(c, l) ==
    /\ Running(c)
    /\ \A i \in DOMAIN held[c] : held[c][i] < l
    /\ state' = [state EXCEPT ![<<c, l>>] = c[1] \in irqs_on]
    /\ SetIrqs(c[1], FALSE)
    /\ spinning' = [spinning EXCEPT ![c] = l]
    /\ UNCHANGED <<holder, in_irq, held>>

(* The spinlock is free: the context has it. *)
Spin(c) ==
    /\ spinning[c] # 0
    /\ holder[spinning[c]] = NoContext
    /\ holder' = [holder EXCEPT ![spinning[c]] = c]
    /\ held' = [held EXCEPT ![c] = Append(@, spinning[c])]
    /\ spinning' = [spinning EXCEPT ![c] = 0]
    /\ UNCHANGED <<irqs_on, in_irq, state>>

(* Mutated: spin_unlock_irq instead of spin_unlock_irqrestore. *)
ReleaseEnable(c, l) ==
    /\ Running(c)
    /\ held[c] # <<>> /\ Last(held[c]) = l
    /\ holder' = [holder EXCEPT ![l] = NoContext]
    /\ SetIrqs(c[1], TRUE)
    /\ held' = [held EXCEPT ![c] = Front(@)]
    /\ UNCHANGED <<in_irq, spinning, state>>

(* spin_unlock_irqrestore(lock, *state), of the lock taken last. *)
OsIrqlockRelease(c, l) ==
    /\ Running(c)
    /\ held[c] # <<>> /\ Last(held[c]) = l
    /\ holder' = [holder EXCEPT ![l] = NoContext]
    /\ SetIrqs(c[1], state[<<c, l>>])
    /\ held' = [held EXCEPT ![c] = Front(@)]
    /\ UNCHANGED <<in_irq, spinning, state>>

(* The processor takes an interrupt, with interrupts off in the handler. *)
Interrupt(cpu) ==
    /\ cpu \in irqs_on
    /\ cpu \notin in_irq
    /\ in_irq' = in_irq \cup {cpu}
    /\ irqs_on' = irqs_on \ {cpu}
    /\ UNCHANGED <<holder, spinning, held, state>>

InterruptReturn(cpu) ==
    /\ cpu \in in_irq
    /\ spinning[<<cpu, "handler">>] = 0
    /\ held[<<cpu, "handler">>] = <<>>
    /\ in_irq' = in_irq \ {cpu}
    /\ irqs_on' = irqs_on \cup {cpu}
    /\ UNCHANGED <<holder, spinning, held, state>>

Next ==
    \/ \E cpu \in Cpus : Interrupt(cpu) \/ InterruptReturn(cpu)
    \/ \E c \in Contexts :
          \/ Spin(c)
          \/ \E l \in Locks : OsIrqlockAcquire(c, l) \/ OsIrqlockRelease(c, l)

(* A processor executes; a handler returns; who holds a lock releases it, however
   often it takes others meanwhile; the kernel's spinlocks are served in order. *)
Fairness ==
    /\ \A cpu \in Cpus : WF_vars(InterruptReturn(cpu))
    /\ \A c \in Contexts : SF_vars(Spin(c))
    /\ \A l \in Locks : SF_vars(\E c \in Contexts : OsIrqlockRelease(c, l))

Spec == Init /\ [][Next]_vars /\ Fairness

-----------------------------------------------------------------------------
(* Interrupts are off exactly while a handler runs or the task holds or wants a
   lock: nested acquires and releases bring back what was before, and a lock
   that was contended does not leave the state of another processor. *)
IrqsRestored ==
    \A cpu \in Cpus :
        cpu \in irqs_on <=> /\ cpu \notin in_irq
                            /\ held[<<cpu, "task">>] = <<>>
                            /\ spinning[<<cpu, "task">>] = 0
=============================================================================
