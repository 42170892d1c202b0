-------------------------- MODULE MCThreading_proofs --------------------------
(***************************************************************************)
(* Proofs about what threads are made and synchronised with, for every set *)
(* of threads, processors and locks.  Each part of the composition has an  *)
(* invariant of its own; a step of one part leaves the variables of the    *)
(* others alone, and where two parts share variables the invariant speaks  *)
(* of the part that the execution is of.                                   *)
(***************************************************************************)
EXTENDS MCThreading, SequenceTheorems, FiniteSetTheorems, TLAPS

(* Irq locks.  A context takes its locks in ascending order, and the one it
   spins for comes after all it holds: it never spins for a lock of its own. *)
Nested ==
    \A c \in Irqlock!Contexts :
        /\ \A i, j \in 1..Len(held[c]) : i < j => held[c][i] < held[c][j]
        /\ spinning[c] # 0 => \A i \in 1..Len(held[c]) : held[c][i] < spinning[c]

(* A spinlock belongs to the context on whose stack of locks it is. *)
Owned ==
    \A c \in Irqlock!Contexts, l \in Locks :
        holder[l] = c <=> \E i \in 1..Len(held[c]) : held[c][i] = l

(* The first lock of a task, and no other, has found interrupts on. *)
Saved ==
    \A c \in Irqlock!Contexts :
        /\ \A i \in 1..Len(held[c]) : saved[<<c, held[c][i]>>] <=> c[2] = "task" /\ i = 1
        /\ spinning[c] # 0 =>
              (saved[<<c, spinning[c]>>] <=> c[2] = "task" /\ held[c] = <<>>)

(* Of the two contexts of a processor only the running one has or wants locks. *)
OneContext ==
    \A cpu \in Cpus :
        LET c == <<cpu, IF cpu \in in_irq THEN "task" ELSE "handler">>
        IN  held[c] = <<>> /\ spinning[c] = 0

IrqlockInv ==
    /\ Irqlock!TypeOK /\ Nested /\ Owned /\ Saved /\ OneContext /\ IrqsRestored
    /\ part = "irqlock" => watched \in Locks

(* The semaphore.  Sleepers are queued once, and one that has been granted a
   permit is no longer queued; a permit is counted only if nobody is queued. *)
Queued ==
    /\ \A i, j \in 1..Len(wait_list) : wait_list[i] = wait_list[j] => i = j
    /\ \A i \in 1..Len(wait_list) : wait_list[i] \notin granted
    /\ wait_list # <<>> => count = 0

(* The spinlock covers the initialisation, the flag tells the thread that is to
   write from one that has nothing left to do, and only a semaphore that has
   been written is used. *)
InitProtocol ==
    /\ \A t \in Threads :
          /\ pc[t] \in {"init_write", "init_unlock"} => static_sema_lock = t
          /\ pc[t] = "init_write" => sema_static_init_cnt = 0 /\ ~initialised
          /\ pc[t] = "init_unlock" => sema_static_init_cnt = 1
          /\ pc[t] \in {"get", "asleep"} => t \in ready
          /\ t \in ready => pc[t] \notin {"init_lock", "init_write", "init_unlock"}
    /\ sema_static_init_cnt = 1 => initialised
    /\ ready # {} => initialised
    /\ initialised /\ sema_static_init_cnt = 0 => ready = Threads

SemaSleepers ==
    /\ \A i \in 1..Len(wait_list) : pc[wait_list[i]] = "asleep"
    /\ \A t \in granted : pc[t] = "asleep"

SemaInv ==
    IF part = "semaphore"
    THEN Sema!TypeOK /\ Queued /\ SemaSleepers /\ InitProtocol
    ELSE ~initialised

(* The kernel's lock: its permit is in the semaphore, on its way to a sleeper, or
   with the thread that holds the lock. *)
OnePermit ==
    /\ count = 1 => \A t \in Threads : t \notin granted /\ lpc[t] # "locked"
    /\ \A t, u \in Threads :
          (t \in granted \/ lpc[t] = "locked") /\ (u \in granted \/ lpc[u] = "locked") => t = u

Sleepers ==
    /\ \A i \in 1..Len(wait_list) : lpc[wait_list[i]] = "asleep"
    /\ \A t \in granted : lpc[t] = "asleep"

(* A creator is alone, and memory is allocated while there is a lock or creator. *)
Creation ==
    /\ handle = "lock" =>
          blocks = {"p_lock", "p_sema"} /\ \A t \in Threads : lpc[t] # "create"
    /\ handle # "lock" => \A t \in Threads : lpc[t] \in {"idle", "create"}
    /\ handle # "lock" /\ (\A t \in Threads : lpc[t] = "idle") => blocks = {}
    /\ \A t, u \in Threads :
          lpc[t] = "create" => blocks = {"p_lock"} /\ (u = t \/ lpc[u] = "idle")

KernelLockInv ==
    part = "kernel_lock" =>
        KernelLock!TypeOK /\ Queued /\ Sleepers /\ OnePermit /\ Creation

(* The mutexes: the owner is the thread that is past its lock call. *)
MutexInv ==
    part = "mutex" =>
        /\ Mutex!TypeOK /\ Mutex!LockMemory
        /\ \A t \in Threads : owner = t <=> lpc[t] = "locked"

(* Kernel threads.  As long as the function has not called os_thread_exit, the
   only set of kill_event is the thread's last act: whatever could end the
   owner's wait, the flag, the wakeup or a wait before, comes after it. *)
Hardwaiting ==
    /\ manual_reset = FALSE
    /\ timer[parent] = "off" /\ handler[parent] = "none" /\ ~signal[parent]
    /\ call[parent] = IF wpc[parent] = "idle" THEN KernelThread!KillEvent!NoCall
                      ELSE KernelThread!Hardwait
    /\ wpc[parent] \notin {"polled", "arm"}
    /\ wpc[parent] = "idle" <=> opc \notin {"wait", "wait_again"}

SetIsLast ==
    ~exit_called =>
        /\ tpc \notin {"exit_set", "exit_wake"}
        /\ opc = "out" => tpc \in {"none", "returned"}
        /\ opc # "out" =>
              /\ spinlock = child => tpc = "wake"
              /\ \/ signaled
                 \/ opc \in {"waited", "wait_again"}
                 \/ wpc[parent] \in {"taken", "conclude"}
                 \/ wpc[parent] # "idle" /\ runnable[parent]
                 => tpc = "returned"

KernelThreadInv == KernelThread!TypeOK /\ Hardwaiting /\ SetIsLast

(* Threads of user space.  While the owner may still cancel or join the pthread
   it has not joined it, and osd.state tells it when it has. *)
NotYetJoined ==
    ~terminated =>
        /\ upc[parent] \in {"osd", "create_resume", "wait_join", "cancel", "join"} => ~joined
        /\ upc[parent] \in {"in", "resume", "priority"} /\ joined =>
              osd_state = "OSAL_UNINITIALIZED"
        /\ upc[parent] \notin {"terminate", "terminate_join"}
        /\ ~bad_id

(* What the state says is true, and past the wrapper's wait a thread has been
   resumed, has woken spuriously or has been terminated. *)
StateIsTrue ==
    /\ p_state = "THREAD_ACTIVE" => resumed
    /\ p_state = "THREAD_INACTIVE" => terminated \/ p_tpc = "ended"
    /\ p_state = "unset" => p_tpc = "none"
    /\ \/ p_tpc \in {"unlock", "function", "asleep"}
       \/ p_tpc = "wait" /\ ~cvr
       => /\ resumed \/ spurious \/ terminated
          /\ p_state = "OS_THREAD_CREATE_SUSPENDED" => spurious

UserThreadInv == UserThread!TypeOK /\ NotYetJoined /\ StateIsTrue

Inv ==
    IrqlockInv /\ SemaInv /\ KernelLockInv /\ MutexInv /\ KernelThreadInv /\ UserThreadInv

-----------------------------------------------------------------------------
(* The irq locks.  In the proofs of a step the types are used, and a part's step
   changes what the action of that part names. *)
LEMMA IrqlockInit == Init => IrqlockInv
<1> SUFFICES ASSUME Init PROVE IrqlockInv
  OBVIOUS
<1>1. Irqlock!Init /\ (part = "irqlock" => watched \in Locks)
  BY DEF Init
<1>2. Irqlock!TypeOK
  BY <1>1 DEF Irqlock!Init, Irqlock!TypeOK
<1>3. Nested /\ Saved /\ OneContext
  BY <1>1 DEF Irqlock!Init, Irqlock!Contexts, Nested, Saved, OneContext
<1>4. Owned
  BY <1>1, NoThreadAssumption DEF Irqlock!Init, Irqlock!Contexts, Owned
<1>5. IrqsRestored
  BY <1>1 DEF Irqlock!Init, Irqlock!Contexts, IrqsRestored, Irqlock!IrqsRestored
<1> QED
  BY <1>1, <1>2, <1>3, <1>4, <1>5 DEF IrqlockInv

(* A context is its processor and one of the two kinds. *)
LEMMA ContextParts ==
    ASSUME NEW c \in Irqlock!Contexts
    PROVE  c = <<c[1], c[2]>> /\ c[1] \in Cpus /\ c[2] \in {"task", "handler"}
BY DEF Irqlock!Contexts

(* A context that runs finds interrupts on exactly if it is a task without locks. *)
LEMMA RunningIrqs ==
    ASSUME IrqsRestored, NEW c \in Irqlock!Contexts, Irqlock!Running(c)
    PROVE  c[1] \in irqs_on <=> c[2] = "task" /\ held[c] = <<>>
<1>1. c = <<c[1], c[2]>> /\ c[1] \in Cpus
  BY ContextParts
<1>2. spinning[c] = 0 /\ (c[1] \in in_irq => c[2] = "handler")
      /\ (c[1] \notin in_irq => c[2] = "task")
  BY DEF Irqlock!Running
<1>3. c[1] \in irqs_on <=> /\ c[1] \notin in_irq
                           /\ held[<<c[1], "task">>] = <<>>
                           /\ spinning[<<c[1], "task">>] = 0
  BY <1>1 DEF IrqsRestored, Irqlock!IrqsRestored
<1> QED
  BY <1>1, <1>2, <1>3

(* What the types say of a context's locks. *)
LEMMA ContextTypes ==
    ASSUME Irqlock!TypeOK, NEW c \in Irqlock!Contexts
    PROVE  /\ held[c] \in Seq(Locks) /\ Len(held[c]) \in Nat
           /\ \A i \in 1..Len(held[c]) : held[c][i] \in Locks /\ held[c][i] \in Nat
           /\ spinning[c] \in Locks \cup {0}
           /\ c # NoThread
<1>1. held[c] \in Seq(Locks) /\ spinning[c] \in Locks \cup {0}
  BY DEF Irqlock!TypeOK
<1>2. Len(held[c]) \in Nat /\ \A i \in 1..Len(held[c]) : held[c][i] \in Locks
  BY <1>1
<1>3. c # NoThread
  BY NoThreadAssumption DEF Irqlock!Contexts
<1> QED
  BY <1>1, <1>2, <1>3, LocksAssumption

(* Acquire stores what it finds on the processor and stacks nothing yet. *)
LEMMA AcquireStep ==
    ASSUME IrqlockInv, NEW c \in Irqlock!Contexts, NEW l \in Locks,
           Irqlock!OsIrqlockAcquire(c, l)
    PROVE  /\ Irqlock!TypeOK' /\ Nested' /\ Owned' /\ Saved'
           /\ OneContext' /\ IrqsRestored'
<1>1. /\ Irqlock!TypeOK /\ Nested /\ Owned /\ Saved /\ OneContext /\ IrqsRestored
      /\ Irqlock!Running(c) /\ Irqlock!SetIrqs(c[1], FALSE)
      /\ \A i \in 1..Len(held[c]) : held[c][i] < l
      /\ saved' = [saved EXCEPT ![<<c, l>>] = c[1] \in irqs_on]
      /\ spinning' = [spinning EXCEPT ![c] = l]
      /\ UNCHANGED <<holder, in_irq, held>>
  <2>1. Irqlock!TypeOK
    BY DEF IrqlockInv
  <2>2. DOMAIN held[c] = 1..Len(held[c])
    BY <2>1 DEF Irqlock!TypeOK
  <2> QED
    BY <2>2 DEF IrqlockInv, Irqlock!OsIrqlockAcquire
<1>2. Irqlock!TypeOK'
  BY <1>1, ContextParts DEF Irqlock!TypeOK, Irqlock!SetIrqs
<1>3. Nested' /\ Owned'
  BY <1>1, ContextTypes DEF Nested, Owned, Irqlock!TypeOK
<1>4. OneContext' /\ IrqsRestored'
  BY <1>1, ContextParts, LocksAssumption
  DEF OneContext, IrqsRestored, Irqlock!IrqsRestored, Irqlock!TypeOK, Irqlock!Running,
      Irqlock!SetIrqs, Irqlock!Contexts
<1>5. ASSUME NEW d \in Irqlock!Contexts, NEW k \in Locks, <<d, k>> # <<c, l>>
      PROVE  saved'[<<d, k>>] <=> saved[<<d, k>>]
  BY <1>1, <1>5 DEF Irqlock!TypeOK
<1>6. saved'[<<c, l>>] <=> c[2] = "task" /\ held[c] = <<>>
  BY <1>1, RunningIrqs DEF Irqlock!TypeOK
<1>7. ASSUME NEW d \in Irqlock!Contexts
      PROVE  /\ \A i \in 1..Len(held[d]) :
                   saved'[<<d, held[d][i]>>] <=> d[2] = "task" /\ i = 1
             /\ spinning'[d] # 0 =>
                   (saved'[<<d, spinning'[d]>>] <=> d[2] = "task" /\ held[d] = <<>>)
  <2>1. ASSUME NEW i \in 1..Len(held[d]) PROVE <<d, held[d][i]>> # <<c, l>>
    BY <1>1, LocksAssumption, ContextTypes
  <2>2. \A i \in 1..Len(held[d]) : saved'[<<d, held[d][i]>>] <=> saved[<<d, held[d][i]>>]
    BY <1>1, <1>5, <2>1, ContextTypes
  <2>3. \A i \in 1..Len(held[d]) :
           saved'[<<d, held[d][i]>>] <=> d[2] = "task" /\ i = 1
    BY <1>1, <2>2 DEF Saved
  <2>4. CASE d = c
    BY <1>1, <1>6, <2>3, <2>4 DEF Irqlock!TypeOK
  <2>5. CASE d # c
    <3>1. spinning'[d] = spinning[d]
      BY <1>1, <2>5 DEF Irqlock!TypeOK
    <3>2. spinning[d] # 0 => (saved'[<<d, spinning[d]>>] <=> saved[<<d, spinning[d]>>])
      BY <1>1, <1>5, <2>5, ContextTypes
    <3> QED
      BY <1>1, <2>3, <3>1, <3>2 DEF Saved
  <2> QED
    BY <2>4, <2>5
<1>8. Saved'
  BY <1>1, <1>7 DEF Saved
<1> QED
  BY <1>2, <1>3, <1>4, <1>8

(* The spinlock that is taken becomes the last and greatest of the stack. *)
LEMMA SpinStep ==
    ASSUME IrqlockInv, NEW c \in Irqlock!Contexts, Irqlock!Spin(c)
    PROVE  /\ Irqlock!TypeOK' /\ Nested' /\ Owned' /\ Saved'
           /\ OneContext' /\ IrqsRestored'
<1> DEFINE l == spinning[c]
<1>1. /\ Irqlock!TypeOK /\ Nested /\ Owned /\ Saved /\ OneContext /\ IrqsRestored
      /\ l \in Locks /\ l \in Nat \ {0} /\ holder[l] = NoThread
      /\ holder' = [holder EXCEPT ![l] = c]
      /\ held' = [held EXCEPT ![c] = Append(held[c], l)]
      /\ spinning' = [spinning EXCEPT ![c] = 0]
      /\ UNCHANGED <<irqs_on, in_irq, saved>>
  BY LocksAssumption DEF IrqlockInv, Irqlock!Spin, Irqlock!TypeOK
<1> HIDE DEF l
<1>2. Irqlock!TypeOK'
  BY <1>1 DEF Irqlock!TypeOK
<1>3. /\ spinning'[c] = 0
      /\ Len(held'[c]) = Len(held[c]) + 1
      /\ \A i \in 1..Len(held[c]) : held'[c][i] = held[c][i]
      /\ held'[c][Len(held[c]) + 1] = l
      /\ held'[c] # <<>>
      /\ held'[c] \in Seq(Locks)
  <2>1. held[c] \in Seq(Locks)
    BY <1>1, ContextTypes
  <2>2. held'[c] = Append(held[c], l) /\ spinning'[c] = 0
    BY <1>1 DEF Irqlock!TypeOK
  <2> QED
    BY <1>1, <2>1, <2>2
<1>4. ASSUME NEW d \in Irqlock!Contexts, d # c
      PROVE  held'[d] = held[d] /\ spinning'[d] = spinning[d]
  BY <1>1, <1>4 DEF Irqlock!TypeOK
<1>5. Nested'
  <2>1. \A i \in 1..Len(held[c]) : held[c][i] < l
    BY <1>1 DEF Nested, l
  <2>2. \A i, j \in 1..Len(held'[c]) : i < j => held'[c][i] < held'[c][j]
    BY <1>1, <1>3, <2>1, ContextTypes DEF Nested
  <2> QED
    BY <1>1, <1>3, <1>4, <2>2 DEF Nested
<1>6. Owned'
  <2>1. ASSUME NEW k \in Locks
        PROVE  holder'[k] = c <=> \E i \in 1..Len(held'[c]) : held'[c][i] = k
    <3>1. CASE k = l
      BY <1>1, <1>3, <3>1, ContextTypes DEF Irqlock!TypeOK
    <3>2. CASE k # l
      BY <1>1, <1>3, <3>2, ContextTypes DEF Irqlock!TypeOK, Owned
    <3> QED
      BY <3>1, <3>2
  <2>2. ASSUME NEW d \in Irqlock!Contexts, NEW k \in Locks, d # c
        PROVE  holder'[k] = d <=> \E i \in 1..Len(held'[d]) : held'[d][i] = k
    BY <1>1, <1>4, <2>2, ContextTypes DEF Irqlock!TypeOK, Owned
  <2> QED
    BY <2>1, <2>2 DEF Owned
<1>7. OneContext'
  <2>1. \A cpu \in Cpus : c # <<cpu, IF cpu \in in_irq THEN "task" ELSE "handler">>
    BY <1>1 DEF OneContext, l
  <2> QED
    BY <1>1, <1>4, <2>1 DEF OneContext, Irqlock!Contexts
<1>8. IrqsRestored'
  <2> SUFFICES ASSUME NEW cpu \in Cpus
               PROVE  cpu \in irqs_on <=> /\ cpu \notin in_irq
                                          /\ held'[<<cpu, "task">>] = <<>>
                                          /\ spinning'[<<cpu, "task">>] = 0
    BY <1>1 DEF IrqsRestored, Irqlock!IrqsRestored
  <2>1. <<cpu, "task">> \in Irqlock!Contexts
    BY DEF Irqlock!Contexts
  <2>2. CASE c = <<cpu, "task">>
    BY <1>1, <1>3, <2>2 DEF IrqsRestored, Irqlock!IrqsRestored, l
  <2>3. CASE c # <<cpu, "task">>
    BY <1>1, <1>4, <2>1, <2>3 DEF IrqsRestored, Irqlock!IrqsRestored
  <2> QED
    BY <2>2, <2>3
<1>9. Saved'
  <2>1. saved[<<c, l>>] <=> c[2] = "task" /\ Len(held[c]) = 0
    BY <1>1, ContextTypes DEF Saved, l
  <2>2. ASSUME NEW i \in 1..Len(held'[c])
        PROVE  saved'[<<c, held'[c][i]>>] <=> c[2] = "task" /\ i = 1
    <3> DEFINE n == Len(held[c])
    <3>1. n \in Nat /\ i \in 1..(n + 1)
      BY <1>1, <1>3, ContextTypes
    <3>2. CASE i \in 1..n
      <4>1. saved[<<c, held[c][i]>>] <=> c[2] = "task" /\ i = 1
        BY <1>1, <3>2 DEF Saved
      <4>2. held'[c][i] = held[c][i]
        BY <1>3, <3>2
      <4> QED
        BY <1>1, <4>1, <4>2
    <3>3. CASE i = n + 1
      <4>1. i = 1 <=> n = 0
        BY <3>1, <3>3
      <4>2. saved'[<<c, held'[c][i]>>] <=> saved[<<c, l>>]
        BY <1>1, <1>3, <3>3
      <4> QED
        BY <2>1, <4>1, <4>2
    <3> HIDE DEF n
    <3>4. i \in 1..n \/ i = n + 1
      BY <3>1
    <3> QED
      BY <3>2, <3>3, <3>4
  <2> QED
    BY <1>1, <1>3, <1>4, <2>2 DEF Saved
<1> QED
  BY <1>2, <1>5, <1>6, <1>7, <1>8, <1>9

(* Release takes the greatest lock off the stack, and interrupts are on again
   exactly if it was the first of a task. *)
LEMMA ReleaseStep ==
    ASSUME IrqlockInv, NEW c \in Irqlock!Contexts, NEW l \in Locks,
           Irqlock!OsIrqlockRelease(c, l)
    PROVE  /\ Irqlock!TypeOK' /\ Nested' /\ Owned' /\ Saved'
           /\ OneContext' /\ IrqsRestored'
<1> DEFINE n == Len(held[c])
<1>1. /\ Irqlock!TypeOK /\ Nested /\ Owned /\ Saved /\ OneContext /\ IrqsRestored
      /\ Irqlock!Running(c) /\ Irqlock!SetIrqs(c[1], saved[<<c, l>>])
      /\ holder' = [holder EXCEPT ![l] = NoThread]
      /\ held' = [held EXCEPT ![c] = Irqlock!Front(held[c])]
      /\ held[c] # <<>> /\ Irqlock!Last(held[c]) = l
      /\ UNCHANGED <<in_irq, spinning, saved>>
  BY DEF IrqlockInv, Irqlock!OsIrqlockRelease, Irqlock!TypeOK
<1>2. n \in Nat \ {0} /\ held[c][n] = l
  BY <1>1, ContextTypes DEF Irqlock!Last
<1>3. /\ held'[c] \in Seq(Locks) /\ Len(held'[c]) = n - 1
      /\ \A i \in 1..(n - 1) : held'[c][i] = held[c][i]
  <2>1. held[c] \in Seq(Locks)
    BY <1>1, ContextTypes
  <2>2. held'[c] = SubSeq(held[c], 1, n - 1)
    BY <1>1 DEF Irqlock!TypeOK, Irqlock!Front
  <2>3. SubSeq(held[c], 1, n - 1) \in Seq(Locks) /\ Len(SubSeq(held[c], 1, n - 1)) = n - 1
    BY <1>2, <2>1, SubSeqProperties
  <2>4. \A i \in 1..(n - 1) : SubSeq(held[c], 1, n - 1)[i] = held[c][i]
    BY <1>2, <2>1, SubSeqProperties
  <2> QED
    BY <2>2, <2>3, <2>4
<1>4. ASSUME NEW d \in Irqlock!Contexts, d # c PROVE held'[d] = held[d]
  BY <1>1, <1>4 DEF Irqlock!TypeOK
<1> HIDE DEF n
<1>5. Irqlock!TypeOK'
  BY <1>1, <1>3, ContextParts DEF Irqlock!TypeOK, Irqlock!SetIrqs
<1>6. Nested'
  <2>1. \A i, j \in 1..Len(held'[c]) : i < j => held'[c][i] < held'[c][j]
    <3>1. \A i \in 1..(n - 1) : i \in 1..n /\ held'[c][i] = held[c][i]
      BY <1>2, <1>3
    <3>2. \A i, j \in 1..n : i < j => held[c][i] < held[c][j]
      BY <1>1 DEF Nested, n
    <3> QED
      BY <1>3, <3>1, <3>2
  <2>2. spinning'[c] = 0
    BY <1>1 DEF Irqlock!Running
  <2> QED
    BY <1>1, <1>4, <2>1, <2>2 DEF Nested
<1>7. Owned'
  <2>1. ASSUME NEW k \in Locks
        PROVE  holder'[k] = c <=> \E i \in 1..Len(held'[c]) : held'[c][i] = k
    <3>1. \A i \in 1..(n - 1) : held[c][i] # l
      <4>1. n \in 1..n /\ \A i \in 1..(n - 1) : i \in 1..n /\ i < n
        BY <1>2
      <4>2. \A i, j \in 1..n : i < j => held[c][i] < held[c][j]
        BY <1>1 DEF Nested, n
      <4>3. \A i \in 1..(n - 1) : held[c][i] < l
        BY <1>2, <4>1, <4>2
      <4>4. l \in Nat /\ \A i \in 1..n : held[c][i] \in Nat
        BY <1>1, ContextTypes, LocksAssumption DEF n
      <4> QED
        BY <4>1, <4>3, <4>4
    <3>2. (\E i \in 1..n : held[c][i] = k) <=> k = l \/ \E i \in 1..(n - 1) : held[c][i] = k
      <4>1. \A i \in 1..n : i = n \/ i \in 1..(n - 1)
        BY <1>2
      <4>2. n \in 1..n /\ \A i \in 1..(n - 1) : i \in 1..n
        BY <1>2
      <4> QED
        BY <1>2, <4>1, <4>2
    <3>3. holder[k] = c <=> \E i \in 1..n : held[c][i] = k
      BY <1>1 DEF Owned, n
    <3> QED
      BY <1>1, <1>3, <3>1, <3>2, <3>3, ContextTypes DEF Irqlock!TypeOK
  <2>2. ASSUME NEW d \in Irqlock!Contexts, NEW k \in Locks, d # c
        PROVE  holder'[k] = d <=> \E i \in 1..Len(held'[d]) : held'[d][i] = k
    <3>1. holder[l] = c
      BY <1>1, <1>2 DEF Owned, n
    <3> QED
      BY <1>1, <1>4, <2>2, <3>1, ContextTypes DEF Irqlock!TypeOK, Owned
  <2> QED
    BY <2>1, <2>2 DEF Owned
<1>8. OneContext'
  <2>1. \A cpu \in Cpus : c # <<cpu, IF cpu \in in_irq THEN "task" ELSE "handler">>
    BY <1>1 DEF Irqlock!Running
  <2> QED
    BY <1>1, <1>4, <2>1 DEF OneContext, Irqlock!Contexts
<1>9. saved[<<c, l>>] <=> c[2] = "task" /\ n = 1
  <2>1. n \in 1..Len(held[c])
    BY <1>2 DEF n
  <2>2. saved[<<c, held[c][n]>>] <=> c[2] = "task" /\ n = 1
    BY <1>1, <2>1 DEF Saved
  <2> QED
    BY <1>2, <2>2
<1>10. IrqsRestored'
  <2> SUFFICES ASSUME NEW cpu \in Cpus
               PROVE  cpu \in irqs_on' <=> /\ cpu \notin in_irq
                                           /\ held'[<<cpu, "task">>] = <<>>
                                           /\ spinning[<<cpu, "task">>] = 0
    BY <1>1 DEF IrqsRestored, Irqlock!IrqsRestored
  <2>1. <<cpu, "task">> \in Irqlock!Contexts
    BY DEF Irqlock!Contexts
  <2>2. CASE c = <<cpu, "task">>
    <3>1. held'[c] = <<>> <=> n = 1
      BY <1>2, <1>3
    <3>2. cpu \notin in_irq /\ spinning[c] = 0
      BY <1>1, <2>2 DEF Irqlock!Running
    <3>3. cpu \notin irqs_on
      BY <1>1, <2>2 DEF IrqsRestored, Irqlock!IrqsRestored
    <3>4. cpu \in irqs_on' <=> n = 1
      BY <1>1, <1>9, <2>2, <3>3 DEF Irqlock!SetIrqs
    <3> QED
      BY <2>2, <3>1, <3>2, <3>4
  <2>3. CASE c # <<cpu, "task">>
    <3>1. cpu \in irqs_on' <=> cpu \in irqs_on
      <4>1. CASE c[1] = cpu
        <5>1. c[2] = "handler" /\ cpu \in in_irq
          BY <2>3, <4>1, <1>1, ContextParts DEF Irqlock!Running
        <5>2. cpu \notin irqs_on
          BY <1>1, <5>1 DEF IrqsRestored, Irqlock!IrqsRestored
        <5> QED
          BY <1>1, <1>9, <5>1, <5>2 DEF Irqlock!SetIrqs
      <4>2. CASE c[1] # cpu
        BY <1>1, <4>2 DEF Irqlock!SetIrqs
      <4> QED
        BY <4>1, <4>2
    <3> QED
      BY <1>1, <1>4, <2>1, <2>3, <3>1 DEF IrqsRestored, Irqlock!IrqsRestored
  <2> QED
    BY <2>2, <2>3
<1>11. Saved'
  <2>1. spinning'[c] = 0
    BY <1>1 DEF Irqlock!Running
  <2>2. \A i \in 1..Len(held'[c]) : saved'[<<c, held'[c][i]>>] <=> c[2] = "task" /\ i = 1
    <3>1. \A i \in 1..n : saved[<<c, held[c][i]>>] <=> c[2] = "task" /\ i = 1
      BY <1>1 DEF Saved, n
    <3>2. \A i \in 1..(n - 1) : i \in 1..n /\ held'[c][i] = held[c][i]
      BY <1>2, <1>3
    <3> QED
      BY <1>1, <1>3, <3>1, <3>2
  <2> QED
    BY <1>1, <1>4, <2>1, <2>2 DEF Saved
<1> QED
  BY <1>5, <1>6, <1>7, <1>8, <1>10, <1>11

(* An interrupt is taken where the task has and wants no lock, and its handler
   returns without any. *)
LEMMA InterruptStep ==
    ASSUME IrqlockInv, NEW cpu \in Cpus,
           Irqlock!Interrupt(cpu) \/ Irqlock!InterruptReturn(cpu)
    PROVE  /\ Irqlock!TypeOK' /\ Nested' /\ Owned' /\ Saved'
           /\ OneContext' /\ IrqsRestored'
<1> USE DEF IrqlockInv, Irqlock!Interrupt, Irqlock!InterruptReturn
<1>1. Irqlock!TypeOK'
  BY DEF Irqlock!TypeOK
<1>2. UNCHANGED <<holder, held, spinning, saved>>
  OBVIOUS
<1>3. Nested' /\ Owned' /\ Saved'
  <2>1. Nested'
    BY <1>2 DEF Nested
  <2>2. Owned'
    BY <1>2 DEF Owned
  <2>3. Saved'
    BY <1>2 DEF Saved
  <2> QED
    BY <2>1, <2>2, <2>3
<1>4. OneContext' /\ IrqsRestored'
  BY DEF OneContext, IrqsRestored, Irqlock!IrqsRestored
<1> QED
  BY <1>1, <1>3, <1>4

LEMMA IrqlockStep == ASSUME IrqlockInv, [Next]_vars PROVE IrqlockInv'
<1>1. CASE Irqlock!Next /\ IrqlockFrame
  <2>1. (part = "irqlock" => watched \in Locks)'
    BY <1>1 DEF IrqlockFrame, IrqlockInv
  <2> QED
    BY <1>1, <2>1, AcquireStep, SpinStep, ReleaseStep, InterruptStep
    DEF Irqlock!Next, IrqlockInv
<1>2. CASE UNCHANGED <<part, watched, irqVars>>
  <2> USE <1>2 DEF irqVars
  <2>1. Irqlock!TypeOK => Irqlock!TypeOK'
    BY DEF Irqlock!TypeOK
  <2>2. Nested /\ Owned /\ Saved => Nested' /\ Owned' /\ Saved'
    BY DEF Nested, Owned, Saved
  <2>3. OneContext /\ IrqsRestored => OneContext' /\ IrqsRestored'
    BY DEF OneContext, IrqsRestored, Irqlock!IrqsRestored
  <2> QED
    BY <2>1, <2>2, <2>3 DEF IrqlockInv
<1> QED
  BY <1>1, <1>2
  DEF Next, vars, SemaFrame, KernelLockFrame, MutexFrame, KernelThreadFrame, UserThreadFrame

-----------------------------------------------------------------------------
(* Threads of user space: what a step of one of them keeps. *)
LEMMA UserThreadInit == Init => UserThreadInv
<1> SUFFICES ASSUME UserThread!Init PROVE UserThreadInv
  BY DEF Init
<1>1. /\ suspended_flag \in BOOLEAN /\ cvr \in BOOLEAN
      /\ cancelled \in BOOLEAN /\ joined \in BOOLEAN
      /\ resumed \in BOOLEAN /\ spurious \in BOOLEAN /\ terminated \in BOOLEAN
      /\ bad_id \in BOOLEAN
  BY Zenon DEF UserThread!Init
<1>2. UserThread!TypeOK
  BY <1>1, ActorsAssumption DEF UserThread!Init, UserThread!TypeOK
<1>3. NotYetJoined /\ StateIsTrue
  BY DEF UserThread!Init, UserThread!Users, NotYetJoined, StateIsTrue
<1> QED
  BY <1>2, <1>3 DEF UserThreadInv

(* The wrapper, the function and the end of the thread. *)
LEMMA WrapperStep ==
    ASSUME UserThreadInv,
           UserThread!Wrapper \/ UserThread!OsSleep \/ UserThread!SpuriousWakeup
    PROVE  UserThreadInv'
<1> USE ActorsAssumption
    DEF UserThreadInv, UserThread!TypeOK, NotYetJoined, StateIsTrue, UserThread!TGoto,
            UserThread!objectVars, UserThread!pthreadVars, UserThread!historyVars
<1>1. CASE UserThread!WrapperLock
  <2>1. cvr' \in BOOLEAN
    BY <1>1, Zenon DEF UserThread!WrapperLock
  <2> QED
    BY <1>1, <2>1 DEF UserThread!WrapperLock
<1>2. CASE UserThread!WrapperWoken
  BY <1>2 DEF UserThread!WrapperWoken
<1>3. CASE UserThread!WrapperUnlock
  BY <1>3 DEF UserThread!WrapperUnlock
<1>4. CASE UserThread!OsSleep \/ UserThread!SleepEnds \/ UserThread!FunctionEnd
  BY <1>4 DEF UserThread!OsSleep, UserThread!SleepEnds, UserThread!FunctionEnd
<1>5. CASE UserThread!MarkInactive
  BY <1>5 DEF UserThread!MarkInactive
<1>6. CASE UserThread!ActOnCancel
  <2>1. cvr' \in BOOLEAN
    BY <1>6, Zenon DEF UserThread!ActOnCancel
  <2> QED
    BY <1>6, <2>1 DEF UserThread!ActOnCancel, UserThread!Alive
<1>7. CASE UserThread!SpuriousWakeup
  <2>1. cvr' \in BOOLEAN /\ spurious' \in BOOLEAN
    BY <1>7, Zenon DEF UserThread!SpuriousWakeup
  <2> QED
    BY <1>7, <2>1 DEF UserThread!SpuriousWakeup
<1> QED
  BY <1>1, <1>2, <1>3, <1>4, <1>5, <1>6, <1>7 DEF UserThread!Wrapper

(* The owner's calls that make the thread and get rid of it. *)
LEMMA OwnerStep ==
    ASSUME UserThreadInv,
           \/ UserThread!OsThreadCreate \/ UserThread!CreateOsd
           \/ UserThread!CallWait \/ UserThread!CallDestroy \/ UserThread!CallTerminate
           \/ UserThread!WaitOsd \/ UserThread!DestroyOsd
    PROVE  UserThreadInv'
<1> USE ActorsAssumption
    DEF UserThreadInv, UserThread!TypeOK, NotYetJoined, StateIsTrue, UserThread!UGoto,
            UserThread!Users, UserThread!objectVars, UserThread!pthreadVars,
            UserThread!historyVars
<1>1. CASE UserThread!OsThreadCreate
  <2>1. /\ cvr' \in BOOLEAN /\ cancelled' \in BOOLEAN /\ joined' \in BOOLEAN
        /\ resumed' \in BOOLEAN /\ spurious' \in BOOLEAN /\ terminated' \in BOOLEAN
        /\ bad_id' \in BOOLEAN
    BY <1>1, Zenon DEF UserThread!OsThreadCreate
  <2> QED
    BY <1>1, <2>1 DEF UserThread!OsThreadCreate, UserThread!ValidatePriority, UserThread!SchedOther
<1>2. CASE UserThread!CreateOsd
  BY <1>2 DEF UserThread!CreateOsd
<1>3. CASE UserThread!CallWait \/ UserThread!CallDestroy
  BY <1>3 DEF UserThread!CallWait, UserThread!CallDestroy
<1>4. CASE UserThread!CallTerminate
  BY <1>4 DEF UserThread!CallTerminate
<1>5. CASE UserThread!WaitOsd \/ UserThread!DestroyOsd
  BY <1>5 DEF UserThread!WaitOsd, UserThread!DestroyOsd
<1> QED
  BY <1>1, <1>2, <1>3, <1>4, <1>5

(* pthread_join and pthread_cancel. *)
LEMMA JoinStep ==
    ASSUME UserThreadInv,
           \/ UserThread!Join("wait_join", "wait_osd")
           \/ UserThread!Cancel("cancel", "join")
           \/ UserThread!Join("join", "destroy_osd")
           \/ UserThread!Cancel("terminate", "terminate_join")
           \/ UserThread!Join("terminate_join", "in")
    PROVE  UserThreadInv'
<1> USE DEF UserThreadInv, UserThread!TypeOK, NotYetJoined, StateIsTrue, UserThread!UGoto,
            UserThread!Users, UserThread!objectVars
<1>1. ASSUME NEW from, NEW to, UserThread!Join(from, to),
             <<from, to>> \in {<<"wait_join", "wait_osd">>, <<"join", "destroy_osd">>,
                               <<"terminate_join", "in">>}
      PROVE  UserThreadInv'
  BY <1>1 DEF UserThread!Join
<1>2. ASSUME NEW from, NEW to, UserThread!Cancel(from, to),
             <<from, to>> \in {<<"cancel", "join">>, <<"terminate", "terminate_join">>}
      PROVE  UserThreadInv'
  BY <1>2 DEF UserThread!Cancel
<1> QED
  BY <1>1, <1>2

(* What the owner and its client call while there is a thread. *)
LEMMA ClientStep ==
    ASSUME UserThreadInv, NEW u \in UserThread!Users,
           \/ UserThread!CallResume(u) \/ UserThread!Resume(u)
           \/ UserThread!CallPriority(u) \/ UserThread!Priority(u)
           \/ UserThread!SetPriority(u)
    PROVE  UserThreadInv'
<1> USE ActorsAssumption
    DEF UserThreadInv, UserThread!TypeOK, NotYetJoined, StateIsTrue, UserThread!UGoto,
        UserThread!Users, UserThread!objectVars, UserThread!pthreadVars,
        UserThread!historyVars, UserThread!Free, UserThread!MayCall
<1>1. CASE UserThread!CallResume(u)
  BY <1>1 DEF UserThread!CallResume
<1>2. CASE UserThread!Resume(u)
  <2>1. cvr' \in BOOLEAN /\ resumed' \in BOOLEAN
    BY <1>2, Zenon DEF UserThread!Resume
  <2> QED
    BY <1>2, <2>1 DEF UserThread!Resume
<1>3. CASE UserThread!CallPriority(u) \/ UserThread!Priority(u)
  BY <1>3 DEF UserThread!CallPriority, UserThread!Priority
<1>4. CASE UserThread!SetPriority(u)
  BY <1>4 DEF UserThread!SetPriority, UserThread!ValidatePriority, UserThread!SchedOther
<1> QED
  BY <1>1, <1>2, <1>3, <1>4

LEMMA UserThreadStep == ASSUME UserThreadInv, [Next]_vars PROVE UserThreadInv'
<1>1. CASE UserThread!Next
  BY <1>1, WrapperStep, OwnerStep, JoinStep, ClientStep
  DEF UserThread!Next, UserThread!User
<1>2. CASE UNCHANGED userThreadVars
  BY <1>2 DEF userThreadVars, UserThreadInv, UserThread!TypeOK, NotYetJoined, StateIsTrue
<1> QED
  BY <1>1, <1>2
  DEF Next, vars, threadVars, SemaFrame, KernelLockFrame, MutexFrame, IrqlockFrame,
      KernelThreadFrame

-----------------------------------------------------------------------------
(* Kernel threads.  kill_event has one waiter and one setter. *)
LEMMA KernelThreadInit == Init => KernelThreadInv
<1> SUFFICES ASSUME KernelThread!Init PROVE KernelThreadInv
  BY DEF Init
<1> USE DEF KernelThread!Init, KernelThread!KillEvent!Init,
            KernelThread!KillEvent!EventInit, KernelThread!KillEvent!WaitersInit
<1>1. /\ manual_reset \in BOOLEAN /\ signaled \in BOOLEAN
      /\ pfn_callback \in BOOLEAN /\ exit_called \in BOOLEAN
  BY Zenon
<1>2. KernelThread!KillEvent!TypeOK
  BY <1>1 DEF KernelThread!KillEvent!TypeOK, KernelThread!KillEvent!NoCall
<1>3. KernelThread!TypeOK
  BY <1>1, <1>2 DEF KernelThread!TypeOK
<1>4. Hardwaiting /\ SetIsLast
  BY DEF Hardwaiting, SetIsLast
<1> QED
  BY <1>3, <1>4 DEF KernelThreadInv

(* os_thread_create, os_thread_wait's call and os_thread_destroy. *)
LEMMA ParentStep ==
    ASSUME KernelThreadInv,
           \/ KernelThread!OsThreadCreate \/ KernelThread!OsThreadWait
           \/ KernelThread!OsThreadDestroy
    PROVE  KernelThreadInv'
<1> USE ActorsAssumption
    DEF KernelThreadInv, KernelThread!TypeOK, KernelThread!KillEvent!TypeOK, Hardwaiting,
        SetIsLast, KernelThread!schedVars, KernelThread!KillEvent!eventVars,
        KernelThread!KillEvent!taskVars, KernelThread!KillEvent!timerVars
<1>1. CASE KernelThread!OsThreadCreate
  <2>1. /\ manual_reset' \in BOOLEAN /\ signaled' \in BOOLEAN
        /\ pfn_callback' \in BOOLEAN /\ exit_called' \in BOOLEAN
    BY <1>1, Zenon DEF KernelThread!OsThreadCreate, KernelThread!KillEvent!OsEventCreate
  <2> USE <1>1, <2>1 DEF KernelThread!OsThreadCreate, KernelThread!KillEvent!OsEventCreate,
                         KernelThread!ValidatePriority
  <2>2. KernelThread!KillEvent!TypeOK'
    OBVIOUS
  <2>3. KernelThread!TypeOK'
    OBVIOUS
  <2>4. Hardwaiting' /\ SetIsLast'
    OBVIOUS
  <2> QED
    BY <2>3, <2>4
<1>2. CASE KernelThread!OsThreadWait
  BY <1>2 DEF KernelThread!OsThreadWait, KernelThread!KillEvent!CallWait,
              KernelThread!Hardwait, KernelThread!KillEvent!AllCalls,
              KernelThread!KillEvent!Goto
<1>3. CASE KernelThread!OsThreadDestroy
  BY <1>3 DEF KernelThread!OsThreadDestroy, KernelThread!KillEvent!OsEventDestroy
<1> QED
  BY <1>1, <1>2, <1>3

(* A step of os_event_hardwait in os_thread_wait. *)
LEMMA WaitStepStep ==
    ASSUME KernelThreadInv, KernelThread!WaitStep PROVE KernelThreadInv'
<1> USE ActorsAssumption
    DEF KernelThreadInv, KernelThread!TypeOK, KernelThread!KillEvent!TypeOK, Hardwaiting,
        SetIsLast, KernelThread!schedVars, KernelThread!KillEvent!eventVars,
        KernelThread!KillEvent!taskVars, KernelThread!KillEvent!timerVars,
        KernelThread!WaitStep, KernelThread!KillEvent!Goto, KernelThread!Hardwait
<1>1. CASE KernelThread!KillEvent!CheckSignaled(parent)
  BY <1>1 DEF KernelThread!KillEvent!CheckSignaled, KernelThread!KillEvent!SeenBy
<1>2. CASE KernelThread!KillEvent!CheckSleep(parent)
  BY <1>2 DEF KernelThread!KillEvent!CheckSleep
<1>3. CASE KernelThread!KillEvent!CheckPoll(parent) \/ KernelThread!KillEvent!Arm(parent)
  BY <1>3 DEF KernelThread!KillEvent!CheckPoll, KernelThread!KillEvent!Arm
<1>4. CASE KernelThread!KillEvent!Leave(parent)
  BY <1>4 DEF KernelThread!KillEvent!Leave, KernelThread!KillEvent!FinishWait,
              KernelThread!KillEvent!EndCall
<1>5. CASE KernelThread!KillEvent!Sleep(parent)
  BY <1>5 DEF KernelThread!KillEvent!Sleep
<1>6. CASE KernelThread!KillEvent!Resume(parent)
  BY <1>6 DEF KernelThread!KillEvent!Resume, KernelThread!KillEvent!FinishWait,
              KernelThread!KillEvent!ClearTimeout, KernelThread!KillEvent!Interrupted
<1>7. CASE KernelThread!KillEvent!Conclude(parent)
  BY <1>7 DEF KernelThread!KillEvent!Conclude, KernelThread!KillEvent!EndCall
<1> QED
  BY <1>1, <1>2, <1>3, <1>4, <1>5, <1>6, <1>7 DEF KernelThread!KillEvent!Waiting

(* A step of the thread. *)
LEMMA ThreadStep ==
    ASSUME KernelThreadInv, KernelThread!Thread \/ KernelThread!OsSleep
    PROVE  KernelThreadInv'
<1> USE ActorsAssumption
    DEF KernelThreadInv, KernelThread!TypeOK, KernelThread!KillEvent!TypeOK, Hardwaiting,
        SetIsLast, KernelThread!schedVars, KernelThread!eventVars
<1>1. CASE KernelThread!SetScheduler \/ KernelThread!CallFunction
  BY <1>1 DEF KernelThread!SetScheduler, KernelThread!CallFunction
<1>2. CASE KernelThread!OsSleep \/ KernelThread!SleepEnds \/ KernelThread!FunctionReturn
  BY <1>2 DEF KernelThread!OsSleep, KernelThread!SleepEnds, KernelThread!FunctionReturn
<1>3. CASE KernelThread!OsThreadExit
  BY <1>3 DEF KernelThread!OsThreadExit
<1>4. CASE KernelThread!SetKillEvent
  <2>1. CASE tpc \in {"exit_set", "set"} /\ KernelThread!KillEvent!SetFlag(child)
    BY <1>4, <2>1
    DEF KernelThread!SetKillEvent, KernelThread!KillEvent!SetFlag,
        KernelThread!KillEvent!SeenBy, KernelThread!KillEvent!InCall,
        KernelThread!KillEvent!taskVars, KernelThread!KillEvent!timerVars
  <2>2. CASE tpc \in {"exit_wake", "wake"} /\ KernelThread!KillEvent!SetWake(child)
    BY <1>4, <2>2
    DEF KernelThread!SetKillEvent, KernelThread!KillEvent!SetWake,
        KernelThread!KillEvent!WakeUp, KernelThread!KillEvent!taskVars,
        KernelThread!KillEvent!timerVars
  <2>3. CASE state = "UNINITIALIZED" /\ UNCHANGED KernelThread!eventVars
    BY <1>4, <2>3 DEF KernelThread!SetKillEvent
  <2> QED
    BY <1>4, <2>1, <2>2, <2>3 DEF KernelThread!SetKillEvent
<1> QED
  BY <1>1, <1>2, <1>3, <1>4 DEF KernelThread!Thread

LEMMA KernelThreadStep == ASSUME KernelThreadInv, [Next]_vars PROVE KernelThreadInv'
<1>1. CASE KernelThread!Next
  BY <1>1, ParentStep, WaitStepStep, ThreadStep DEF KernelThread!Next
<1>2. CASE UNCHANGED kernelThreadVars
  BY <1>2 DEF kernelThreadVars, KernelThreadInv, KernelThread!TypeOK,
              KernelThread!KillEvent!TypeOK, Hardwaiting, SetIsLast
<1> QED
  BY <1>1, <1>2
  DEF Next, vars, threadVars, SemaFrame, KernelLockFrame, MutexFrame, IrqlockFrame,
      UserThreadFrame

-----------------------------------------------------------------------------
(* The mutexes. *)
LEMMA MutexInit == Init => MutexInv
<1> SUFFICES ASSUME Init, part = "mutex" PROVE MutexInv
  BY DEF MutexInv
<1>1. /\ interface \in Mutex!Interfaces /\ handle = "none" /\ blocks = {}
      /\ owner = NoThread /\ lpc = [t \in Threads |-> "idle"]
  BY DEF Init
<1> QED
  BY <1>1, NoThreadAssumption DEF MutexInv, Mutex!TypeOK, Mutex!LockMemory

(* Whatever the interface, a mutex is taken when free and given back by its
   owner; memory follows the handle. *)
LEMMA MutexNextStep ==
    ASSUME part = "mutex", part' = part, MutexInv, Mutex!Next PROVE MutexInv'
<1> USE NoThreadAssumption DEF MutexInv, Mutex!TypeOK, Mutex!LockMemory, Mutex!Goto
<1>1. ASSUME NEW t \in Threads, Mutex!Take(t, "get") \/ Mutex!Take(t, "idle")
      PROVE  MutexInv'
  BY <1>1 DEF Mutex!Take
<1>2. ASSUME NEW t \in Threads, Mutex!Give(t) PROVE MutexInv'
  BY <1>2 DEF Mutex!Give
<1>3. ASSUME NEW t \in Threads, Mutex!CallLock(t) PROVE MutexInv'
  BY <1>3 DEF Mutex!CallLock
<1>4. CASE /\ interface # "lock"
           /\ Mutex!Make(TRUE) \/ Mutex!Make(FALSE)
  BY <1>4 DEF Mutex!Make
<1>5. CASE /\ owner = NoThread /\ Mutex!Unmake
           /\ blocks' = IF interface = "lock" THEN {} ELSE blocks
  BY <1>5 DEF Mutex!Unmake
<1>6. CASE Mutex!OsCreateLock
  BY <1>6 DEF Mutex!OsCreateLock
<1>7. CASE UNCHANGED Mutex!vars
  BY <1>7 DEF Mutex!vars
<1>8. CASE Mutex!OsDestroyLock \/ Mutex!OsMutexDestroy \/ Mutex!KernelMutexDestroy
              \/ Mutex!OsIrqlockDestroy
  BY <1>5, <1>7, <1>8
  DEF Mutex!OsDestroyLock, Mutex!OsMutexDestroy, Mutex!KernelMutexDestroy,
      Mutex!OsIrqlockDestroy
<1>9. CASE Mutex!OsMutexInit \/ Mutex!KernelMutexInit \/ Mutex!OsIrqlockInit
  BY <1>4, <1>9 DEF Mutex!OsMutexInit, Mutex!KernelMutexInit, Mutex!OsIrqlockInit
<1>10. ASSUME NEW t \in Threads,
              \/ Mutex!OsTryLock(t) \/ Mutex!OsMutexTrylock(t) \/ Mutex!KernelMutexTrylock(t)
              \/ Mutex!Inside(t)
       PROVE  MutexInv'
  BY <1>1, <1>2, <1>10
  DEF Mutex!OsTryLock, Mutex!OsMutexTrylock, Mutex!KernelMutexTrylock, Mutex!Inside,
      Mutex!OsLock, Mutex!OsMutexLock, Mutex!KernelMutexLock, Mutex!OsIrqlockAcquire,
      Mutex!OsUnlock, Mutex!OsMutexUnlock, Mutex!KernelMutexUnlock, Mutex!OsIrqlockRelease
<1> QED
  BY <1>3, <1>6, <1>8, <1>9, <1>10 DEF Mutex!Next

LEMMA MutexStep == ASSUME MutexInv, [Next]_vars PROVE MutexInv'
<1>1. CASE Mutex!Next /\ MutexFrame
  BY <1>1, MutexNextStep DEF MutexFrame
<1>2. CASE part' = part /\ part # "mutex"
  BY <1>2 DEF MutexInv
<1>3. CASE UNCHANGED <<part, lockVars, mutexVars>>
  BY <1>3 DEF lockVars, mutexVars, MutexInv, Mutex!TypeOK, Mutex!LockMemory
<1> QED
  BY <1>1, <1>2, <1>3
  DEF Next, vars, SemaFrame, KernelLockFrame, IrqlockFrame, KernelThreadFrame,
      UserThreadFrame

-----------------------------------------------------------------------------
(* The queue of a kernel semaphore, which the kernel's lock uses too.  A sleeper
   joins it at the end. *)
LEMMA QueueJoin ==
    ASSUME wait_list \in Seq(Threads), Queued, NEW t \in Threads, count = 0,
           \A i \in 1..Len(wait_list) : wait_list[i] # t,
           t \notin granted,
           wait_list' = Append(wait_list, t), UNCHANGED <<count, granted>>
    PROVE  /\ Queued' /\ wait_list' \in Seq(Threads)
           /\ \A i \in 1..Len(wait_list') :
                 \/ i \in 1..Len(wait_list) /\ wait_list'[i] = wait_list[i]
                 \/ i = Len(wait_list) + 1 /\ wait_list'[i] = t
<1>1. /\ wait_list' \in Seq(Threads)
      /\ \A i \in 1..Len(wait_list') :
            \/ i \in 1..Len(wait_list) /\ wait_list'[i] = wait_list[i]
            \/ i = Len(wait_list) + 1 /\ wait_list'[i] = t
  OBVIOUS
<1> QED
  BY <1>1 DEF Queued

(* The head of the queue is granted a permit and leaves it. *)
LEMMA QueueLeave ==
    ASSUME wait_list \in Seq(Threads), Queued, wait_list # <<>>,
           granted' = granted \cup {Head(wait_list)}, wait_list' = Tail(wait_list),
           UNCHANGED count
    PROVE  /\ Queued' /\ wait_list' \in Seq(Threads)
           /\ Head(wait_list) \in Threads \ granted
           /\ \E i \in 1..Len(wait_list) : wait_list[i] = Head(wait_list)
           /\ \A i \in 1..Len(wait_list') :
                 i + 1 \in 1..Len(wait_list) /\ wait_list'[i] = wait_list[i + 1]
<1>1. /\ Len(wait_list) \in Nat \ {0} /\ Head(wait_list) = wait_list[1]
      /\ 1 \in 1..Len(wait_list) /\ wait_list[1] \in Threads
  OBVIOUS
<1>2. /\ wait_list' \in Seq(Threads)
      /\ \A i \in 1..Len(wait_list') :
            i + 1 \in 1..Len(wait_list) /\ wait_list'[i] = wait_list[i + 1]
  OBVIOUS
<1>3. \A i, j \in 1..Len(wait_list') : wait_list'[i] = wait_list'[j] => i = j
  BY <1>1, <1>2 DEF Queued
<1>4. \A i \in 1..Len(wait_list') : wait_list'[i] \notin granted'
  BY <1>1, <1>2 DEF Queued
<1>5. wait_list' # <<>> => count' = 0
  BY DEF Queued
<1> QED
  BY <1>1, <1>2, <1>3, <1>4, <1>5 DEF Queued

-----------------------------------------------------------------------------
(* The kernel's lock. *)
LEMMA KernelLockInit == Init => KernelLockInv
<1> SUFFICES ASSUME Init, part = "kernel_lock" PROVE KernelLockInv
  BY DEF KernelLockInv
<1>1. /\ handle = "none" /\ blocks = {} /\ lpc = [t \in Threads |-> "idle"]
      /\ count = 0 /\ wait_list = <<>> /\ granted = {}
  BY DEF Init, Sema!Init
<1>2. KernelLock!TypeOK
  <2>1. count \in 0..1 /\ wait_list \in Seq(Threads) /\ granted \subseteq Threads
    BY <1>1
  <2> QED
    BY <1>1, <2>1 DEF KernelLock!TypeOK
<1>3. wait_list = <<>> /\ \A i \in 1..Len(wait_list) : FALSE
  BY <1>1
<1>4. Queued /\ Sleepers
  BY <1>1, <1>3 DEF Queued, Sleepers
<1>5. OnePermit /\ Creation
  BY <1>1 DEF OnePermit, Creation
<1> QED
  BY <1>2, <1>4, <1>5 DEF KernelLockInv

(* Creation and destruction: nobody sleeps, so nobody is queued. *)
LEMMA CreationStep ==
    ASSUME KernelLock!TypeOK, Queued, Sleepers, OnePermit, Creation,
           \/ KernelLock!OsDestroyLock
           \/ \E t \in Threads : KernelLock!AllocLock(t) \/ KernelLock!AllocSema(t)
    PROVE  KernelLock!TypeOK' /\ Queued' /\ Sleepers' /\ OnePermit' /\ Creation'
<1>1. CASE KernelLock!OsDestroyLock
  BY <1>1
  DEF KernelLock!OsDestroyLock, KernelLock!semaphore, KernelLock!TypeOK, Queued, Sleepers,
      OnePermit, Creation
<1>2. ASSUME NEW t \in Threads, KernelLock!AllocLock(t)
      PROVE  KernelLock!TypeOK' /\ Queued' /\ Sleepers' /\ OnePermit' /\ Creation'
  <2> USE <1>2 DEF KernelLock!AllocLock, KernelLock!Goto, KernelLock!semaphore,
                   KernelLock!TypeOK
  <2>1. KernelLock!TypeOK' /\ Queued'
    BY DEF Queued
  <2>2. Sleepers' /\ OnePermit'
    BY DEF Sleepers, OnePermit
  <2>3. Creation'
    BY DEF Creation
  <2> QED
    BY <2>1, <2>2, <2>3
<1>3. ASSUME NEW t \in Threads, KernelLock!AllocSema(t)
      PROVE  KernelLock!TypeOK' /\ Queued' /\ Sleepers' /\ OnePermit' /\ Creation'
  <2> USE <1>3 DEF KernelLock!AllocSema, KernelLock!Sema!SemaInit, KernelLock!Goto,
                   KernelLock!semaphore, KernelLock!TypeOK, Creation
  <2>1. ASSUME UNCHANGED <<count, wait_list, granted>>
        PROVE  KernelLock!TypeOK' /\ Queued'
    BY <2>1 DEF Queued
  <2>2. ASSUME count' = 1, wait_list' = <<>>, granted' = {}
        PROVE  KernelLock!TypeOK' /\ Queued'
    <3>1. KernelLock!TypeOK'
      BY <2>2
    <3> QED
      BY <2>2, <3>1 DEF Queued
  <2>3. KernelLock!TypeOK' /\ Queued'
    BY <2>1, <2>2
  <2>4. Sleepers' /\ OnePermit'
    BY DEF Sleepers, OnePermit
  <2>5. Creation'
    OBVIOUS
  <2> QED
    BY <2>3, <2>4, <2>5
<1> QED
  BY <1>1, <1>2, <1>3

(* A lock call that does not have to wait, or that has waited, takes the permit. *)
LEMMA TakeStep ==
    ASSUME KernelLock!TypeOK, Queued, Sleepers, OnePermit, Creation, NEW t \in Threads,
           \/ KernelLock!OsTryLock(t)
           \/ /\ UNCHANGED <<handle, blocks>>
              /\ \/ KernelLock!Sema!Down(t, "locked") /\ count > 0
                 \/ KernelLock!Sema!Woken(t, "locked")
    PROVE  KernelLock!TypeOK' /\ Queued' /\ Sleepers' /\ OnePermit' /\ Creation'
<1> USE DEF KernelLock!OsTryLock, KernelLock!Sema!Down, KernelLock!Sema!DownTrylock,
            KernelLock!Sema!Woken, KernelLock!Goto, KernelLock!Sema!Goto,
            KernelLock!TypeOK
<1>1. KernelLock!TypeOK'
  <2>1. lpc' = [lpc EXCEPT ![t] = "locked"] /\ UNCHANGED <<wait_list, handle, blocks>>
    OBVIOUS
  <2>2. count' \in 0..1 /\ granted' \subseteq granted
    OBVIOUS
  <2> QED
    BY <2>1, <2>2
<1>2. Queued' /\ Sleepers'
  <2>1. wait_list' = wait_list /\ granted' \subseteq granted /\ count' <= count
    OBVIOUS
  <2>2. wait_list # <<>> => count' = 0
    BY DEF Queued
  <2>3. Queued'
    BY <2>1, <2>2 DEF Queued
  <2>4. Sleepers'
    BY <2>1 DEF Queued, Sleepers
  <2> QED
    BY <2>3, <2>4
<1>3. OnePermit'
  BY DEF OnePermit
<1>4. Creation'
  BY DEF Creation, Sleepers
<1> QED
  BY <1>1, <1>2, <1>3, <1>4

(* A call begins, and goes to sleep if there is no permit. *)
LEMMA SleepStep ==
    ASSUME KernelLock!TypeOK, Queued, Sleepers, OnePermit, Creation, NEW t \in Threads,
           \/ KernelLock!CallLock(t)
           \/ /\ UNCHANGED <<handle, blocks>>
              /\ KernelLock!Sema!Down(t, "locked") /\ count = 0
    PROVE  KernelLock!TypeOK' /\ Queued' /\ Sleepers' /\ OnePermit' /\ Creation'
<1>1. CASE KernelLock!CallLock(t)
  <2> USE <1>1 DEF KernelLock!CallLock, KernelLock!Goto, KernelLock!semaphore,
                   KernelLock!TypeOK
  <2>1. KernelLock!TypeOK' /\ Queued'
    BY DEF Queued
  <2>2. Sleepers' /\ OnePermit' /\ Creation'
    BY DEF Sleepers, OnePermit, Creation
  <2> QED
    BY <2>1, <2>2
<1>2. CASE /\ UNCHANGED <<handle, blocks>>
           /\ KernelLock!Sema!Down(t, "locked") /\ count = 0
  <2>1. /\ lpc[t] = "get" /\ lpc' = [lpc EXCEPT ![t] = "asleep"]
        /\ wait_list' = Append(wait_list, t)
        /\ UNCHANGED <<count, granted, handle, blocks>>
    BY <1>2 DEF KernelLock!Sema!Down, KernelLock!Sema!Goto
  <2>2. /\ wait_list \in Seq(Threads) /\ t \notin granted
        /\ \A i \in 1..Len(wait_list) : wait_list[i] # t
    BY <2>1 DEF KernelLock!TypeOK, Sleepers
  <2>3. /\ Queued' /\ wait_list' \in Seq(Threads)
        /\ \A i \in 1..Len(wait_list') :
              \/ i \in 1..Len(wait_list) /\ wait_list'[i] = wait_list[i]
              \/ i = Len(wait_list) + 1 /\ wait_list'[i] = t
    BY <1>2, <2>1, <2>2, QueueJoin
  <2>4. KernelLock!TypeOK'
    BY <2>1, <2>3 DEF KernelLock!TypeOK
  <2>5. Sleepers'
    BY <2>1, <2>2, <2>3 DEF KernelLock!TypeOK, Sleepers
  <2>6. OnePermit' /\ Creation'
    BY <2>1 DEF KernelLock!TypeOK, OnePermit, Creation
  <2> QED
    BY <2>3, <2>4, <2>5, <2>6
<1> QED
  BY <1>1, <1>2

(* An unlock counts the permit or hands it to the longest sleeper. *)
LEMMA UnlockStep ==
    ASSUME KernelLock!TypeOK, Queued, Sleepers, OnePermit, Creation, NEW t \in Threads,
           KernelLock!OsUnlock(t)
    PROVE  KernelLock!TypeOK' /\ Queued' /\ Sleepers' /\ OnePermit' /\ Creation'
<1>1. /\ lpc[t] = "locked" /\ lpc' = [lpc EXCEPT ![t] = "idle"]
      /\ UNCHANGED <<handle, blocks>>
      /\ KernelLock!Sema!Up
  BY DEF KernelLock!OsUnlock, KernelLock!Goto
<1>2. count = 0 /\ granted = {}
  BY <1>1 DEF OnePermit, Sleepers, KernelLock!TypeOK
<1>3. Creation'
  BY <1>1 DEF Creation, KernelLock!TypeOK
<1>4. CASE wait_list = <<>>
  <2>1. count' = 1 /\ UNCHANGED <<wait_list, granted>>
    BY <1>1, <1>2, <1>4 DEF KernelLock!Sema!Up
  <2>2. KernelLock!TypeOK' /\ Queued'
    BY <1>1, <1>4, <2>1 DEF KernelLock!TypeOK, Queued
  <2>3. Sleepers' /\ OnePermit'
    BY <1>1, <1>2, <1>4, <2>1 DEF KernelLock!TypeOK, Sleepers, OnePermit
  <2> QED
    BY <1>3, <2>2, <2>3
<1>5. CASE wait_list # <<>>
  <2>1. /\ granted' = granted \cup {Head(wait_list)} /\ wait_list' = Tail(wait_list)
        /\ UNCHANGED count
    BY <1>1, <1>5 DEF KernelLock!Sema!Up
  <2>2. /\ Queued' /\ wait_list' \in Seq(Threads)
        /\ Head(wait_list) \in Threads \ granted
        /\ \E i \in 1..Len(wait_list) : wait_list[i] = Head(wait_list)
        /\ \A i \in 1..Len(wait_list') :
              i + 1 \in 1..Len(wait_list) /\ wait_list'[i] = wait_list[i + 1]
    BY <1>5, <2>1, QueueLeave DEF KernelLock!TypeOK
  <2> DEFINE h == Head(wait_list)
  <2>3. h \in Threads /\ h # t /\ lpc[h] = "asleep" /\ granted' = {h}
    BY <1>1, <1>2, <2>1, <2>2 DEF Sleepers
  <2>4. KernelLock!TypeOK'
    BY <1>1, <2>1, <2>2, <2>3 DEF KernelLock!TypeOK
  <2> HIDE DEF h
  <2>5. Sleepers'
    BY <1>1, <2>2, <2>3 DEF KernelLock!TypeOK, Sleepers
  <2>6. OnePermit'
    BY <1>1, <1>2, <2>1, <2>3 DEF KernelLock!TypeOK, OnePermit
  <2> QED
    BY <1>3, <2>2, <2>4, <2>5, <2>6
<1> QED
  BY <1>4, <1>5

LEMMA KernelLockNextStep ==
    ASSUME part = "kernel_lock", part' = part, KernelLockInv, KernelLock!Next
    PROVE  KernelLockInv'
<1>1. KernelLock!TypeOK /\ Queued /\ Sleepers /\ OnePermit /\ Creation
  BY DEF KernelLockInv
<1>2. ASSUME NEW t \in Threads, KernelLock!OsLock(t)
      PROVE  KernelLock!TypeOK' /\ Queued' /\ Sleepers' /\ OnePermit' /\ Creation'
  <2>1. count > 0 \/ count = 0
    <3>1. count \in 0..1
      BY <1>1 DEF KernelLock!TypeOK
    <3> QED
      BY <3>1
  <2> QED
    BY <1>1, <1>2, <2>1, TakeStep, SleepStep DEF KernelLock!OsLock
<1> QED
  BY <1>1, <1>2, CreationStep, TakeStep, SleepStep, UnlockStep
  DEF KernelLock!Next, KernelLock!Inside, KernelLockInv

LEMMA KernelLockStep == ASSUME KernelLockInv, [Next]_vars PROVE KernelLockInv'
<1>1. CASE KernelLock!Next /\ KernelLockFrame
  BY <1>1, KernelLockNextStep DEF KernelLockFrame
<1>2. CASE part' = part /\ part # "kernel_lock"
  BY <1>2 DEF KernelLockInv
<1>3. CASE UNCHANGED <<part, lockVars, countVars>>
  <2> USE <1>3 DEF lockVars, countVars
  <2>1. KernelLock!TypeOK => KernelLock!TypeOK'
    BY DEF KernelLock!TypeOK
  <2>2. Queued => Queued'
    BY DEF Queued
  <2>3. Sleepers /\ OnePermit /\ Creation => Sleepers' /\ OnePermit' /\ Creation'
    BY DEF Sleepers, OnePermit, Creation
  <2> QED
    BY <2>1, <2>2, <2>3 DEF KernelLockInv
<1> QED
  BY <1>1, <1>2, <1>3
  DEF Next, vars, SemaFrame, MutexFrame, IrqlockFrame, KernelThreadFrame, UserThreadFrame

-----------------------------------------------------------------------------
(* The kernel's semaphore. *)
LEMMA SemaInitial == Init => SemaInv
<1> SUFFICES ASSUME Sema!Init PROVE SemaInv
  BY DEF Init
<1> USE DEF Sema!Init
<1>1. /\ initialised \in BOOLEAN /\ ~initialised
  BY Zenon
<1>2. count \in Nat /\ wait_list \in Seq(Threads) /\ granted \subseteq Threads
  OBVIOUS
<1>3. Sema!TypeOK
  BY <1>1, <1>2 DEF Sema!TypeOK
<1>4. wait_list = <<>> /\ \A i \in 1..Len(wait_list) : FALSE
  OBVIOUS
<1>5. Queued /\ SemaSleepers
  BY <1>4 DEF Queued, SemaSleepers
<1>6. InitProtocol
  BY <1>1 DEF InitProtocol
<1> QED
  BY <1>1, <1>3, <1>5, <1>6 DEF SemaInv

(* Static and dynamic initialisation, and the end of a dynamic semaphore: it is
   written while nobody uses it. *)
LEMMA InitialisationStep ==
    ASSUME Sema!TypeOK, Queued, SemaSleepers, InitProtocol,
           \/ Sema!OsSemaInit \/ Sema!OsSemaDestroy
           \/ \E t \in Threads :
                 \/ Sema!CallInitPreInited(t) \/ Sema!InitLock(t)
                 \/ Sema!InitWrite(t) \/ Sema!InitUnlock(t)
    PROVE  Sema!TypeOK' /\ Queued' /\ SemaSleepers' /\ InitProtocol'
<1> USE CountsAssumption, NoThreadAssumption DEF Sema!semaphore, Sema!initVars, Sema!Goto
<1>1. CASE Sema!OsSemaInit
  <2> USE <1>1 DEF Sema!OsSemaInit, Sema!SemaInit
  <2>1. initialised' \in BOOLEAN
    BY Zenon
  <2>2. count' \in Nat /\ wait_list' = <<>> /\ granted' = {} /\ pc' = pc
    OBVIOUS
  <2>3. Sema!TypeOK'
    BY <2>1, <2>2 DEF Sema!TypeOK
  <2>4. Queued' /\ SemaSleepers'
    BY <2>2 DEF Queued, SemaSleepers
  <2>5. InitProtocol'
    BY DEF Sema!TypeOK, InitProtocol
  <2> QED
    BY <2>3, <2>4, <2>5
<1>2. CASE Sema!OsSemaDestroy
  <2> USE <1>2 DEF Sema!OsSemaDestroy
  <2>1. initialised' \in BOOLEAN
    BY Zenon
  <2>2. Sema!TypeOK'
    BY <2>1 DEF Sema!TypeOK
  <2>3. Queued' /\ SemaSleepers'
    BY DEF Queued, SemaSleepers
  <2>4. InitProtocol'
    BY DEF Sema!TypeOK, InitProtocol
  <2> QED
    BY <2>2, <2>3, <2>4
<1>3. ASSUME NEW t \in Threads, Sema!CallInitPreInited(t)
      PROVE  Sema!TypeOK' /\ Queued' /\ SemaSleepers' /\ InitProtocol'
  <2> USE <1>3 DEF Sema!CallInitPreInited, Sema!TypeOK
  <2>1. Sema!TypeOK'
    OBVIOUS
  <2>2. Queued' /\ SemaSleepers'
    BY DEF Queued, SemaSleepers
  <2>3. InitProtocol'
    BY DEF InitProtocol
  <2> QED
    BY <2>1, <2>2, <2>3
<1>4. ASSUME NEW t \in Threads, Sema!InitLock(t) \/ Sema!InitUnlock(t)
      PROVE  Sema!TypeOK' /\ Queued' /\ SemaSleepers' /\ InitProtocol'
  <2> USE <1>4 DEF Sema!InitLock, Sema!InitUnlock, Sema!TypeOK
  <2>1. Sema!TypeOK'
    OBVIOUS
  <2>2. Queued' /\ SemaSleepers'
    BY DEF Queued, SemaSleepers
  <2>3. InitProtocol'
    BY DEF InitProtocol
  <2> QED
    BY <2>1, <2>2, <2>3
<1>5. ASSUME NEW t \in Threads, Sema!InitWrite(t)
      PROVE  Sema!TypeOK' /\ Queued' /\ SemaSleepers' /\ InitProtocol'
  <2> USE <1>5 DEF Sema!InitWrite, Sema!SemaInit
  <2>1. initialised' \in BOOLEAN
    BY Zenon
  <2>2. count' \in Nat /\ wait_list' = <<>> /\ granted' = {}
    OBVIOUS
  <2>3. Sema!TypeOK'
    BY <2>1, <2>2 DEF Sema!TypeOK
  <2>4. Queued' /\ SemaSleepers'
    BY <2>2 DEF Queued, SemaSleepers
  <2>5. InitProtocol'
    BY DEF Sema!TypeOK, InitProtocol
  <2> QED
    BY <2>3, <2>4, <2>5
<1> QED
  BY <1>1, <1>2, <1>3, <1>4, <1>5

(* The use of the semaphore. *)
LEMMA SemaUseStep ==
    ASSUME Sema!TypeOK, Queued, SemaSleepers, InitProtocol, NEW t \in Threads,
           \/ Sema!CallGet(t) \/ Sema!OsSemaGet(t)
           \/ Sema!OsSemaTryget(t) \/ Sema!OsSemaPut(t)
    PROVE  Sema!TypeOK' /\ Queued' /\ SemaSleepers' /\ InitProtocol'
<1>1. UNCHANGED Sema!initVars
  BY DEF Sema!CallGet, Sema!OsSemaGet, Sema!OsSemaTryget, Sema!OsSemaPut
<1>2. ASSUME pc' = pc \/ \E from, to \in {"idle", "get", "asleep"} :
                            Sema!Goto(t, from, to) /\ (from = "idle" => t \in ready)
      PROVE  InitProtocol' /\ pc' \in [Threads -> {"idle", "init_lock", "init_write",
                                                   "init_unlock", "get", "asleep"}]
  BY <1>1, <1>2 DEF Sema!initVars, Sema!Goto, Sema!TypeOK, InitProtocol
<1>3. CASE Sema!CallGet(t)
  <2>1. InitProtocol' /\ Sema!TypeOK'
    BY <1>2, <1>3 DEF Sema!CallGet, Sema!semaphore, Sema!initVars, Sema!TypeOK
  <2>2. Queued' /\ SemaSleepers'
    BY <1>3
    DEF Sema!CallGet, Sema!semaphore, Sema!Goto, Queued, SemaSleepers, Sema!TypeOK
  <2> QED
    BY <2>1, <2>2
<1>4. CASE Sema!OsSemaGet(t) /\ Sema!Woken(t, "idle")
  <2>1. InitProtocol' /\ Sema!TypeOK'
    BY <1>1, <1>2, <1>4 DEF Sema!Woken, Sema!initVars, Sema!TypeOK
  <2>2. Queued' /\ SemaSleepers'
    BY <1>4 DEF Sema!Woken, Sema!Goto, Queued, SemaSleepers, Sema!TypeOK
  <2> QED
    BY <2>1, <2>2
<1>5. CASE /\ count > 0
           /\ \/ Sema!OsSemaGet(t) /\ Sema!Down(t, "idle")
              \/ Sema!OsSemaTryget(t)
  <2>1. /\ count' = count - 1 /\ UNCHANGED <<wait_list, granted>>
        /\ pc' = pc \/ Sema!Goto(t, "get", "idle")
    BY <1>5 DEF Sema!Down, Sema!OsSemaTryget, Sema!DownTrylock
  <2>2. InitProtocol' /\ Sema!TypeOK'
    BY <1>1, <1>2, <1>5, <2>1 DEF Sema!initVars, Sema!TypeOK
  <2>3. Queued' /\ SemaSleepers'
    BY <1>5, <2>1 DEF Sema!Goto, Queued, SemaSleepers, Sema!TypeOK
  <2> QED
    BY <2>2, <2>3
<1>6. CASE Sema!OsSemaGet(t) /\ Sema!Down(t, "idle") /\ count = 0
  <2>1. /\ Sema!Goto(t, "get", "asleep")
        /\ wait_list' = Append(wait_list, t)
        /\ UNCHANGED <<count, granted>>
    BY <1>6 DEF Sema!Down
  <2>2. /\ wait_list \in Seq(Threads) /\ t \notin granted
        /\ \A i \in 1..Len(wait_list) : wait_list[i] # t
    BY <2>1 DEF Sema!TypeOK, Sema!Goto, SemaSleepers
  <2>3. /\ Queued' /\ wait_list' \in Seq(Threads)
        /\ \A i \in 1..Len(wait_list') :
              \/ i \in 1..Len(wait_list) /\ wait_list'[i] = wait_list[i]
              \/ i = Len(wait_list) + 1 /\ wait_list'[i] = t
    BY <1>6, <2>1, <2>2, QueueJoin
  <2>4. InitProtocol' /\ Sema!TypeOK'
    BY <1>1, <1>2, <2>1, <2>3 DEF Sema!initVars, Sema!TypeOK
  <2>5. SemaSleepers'
    BY <2>1, <2>2, <2>3 DEF Sema!Goto, Sema!TypeOK, SemaSleepers
  <2> QED
    BY <2>3, <2>4, <2>5
<1>7. CASE Sema!OsSemaPut(t) /\ wait_list = <<>>
  <2>1. count' = count + 1 /\ UNCHANGED <<wait_list, granted, pc>>
    BY <1>7 DEF Sema!OsSemaPut, Sema!Up
  <2>2. InitProtocol' /\ Sema!TypeOK'
    BY <1>1, <1>2, <2>1 DEF Sema!initVars, Sema!TypeOK
  <2>3. Queued' /\ SemaSleepers'
    BY <1>7, <2>1 DEF Queued, SemaSleepers
  <2> QED
    BY <2>2, <2>3
<1>8. CASE Sema!OsSemaPut(t) /\ wait_list # <<>>
  <2>1. /\ granted' = granted \cup {Head(wait_list)} /\ wait_list' = Tail(wait_list)
        /\ UNCHANGED <<count, pc>>
    BY <1>8 DEF Sema!OsSemaPut, Sema!Up
  <2>2. /\ Queued' /\ wait_list' \in Seq(Threads)
        /\ Head(wait_list) \in Threads \ granted
        /\ \E i \in 1..Len(wait_list) : wait_list[i] = Head(wait_list)
        /\ \A i \in 1..Len(wait_list') :
              i + 1 \in 1..Len(wait_list) /\ wait_list'[i] = wait_list[i + 1]
    BY <1>8, <2>1, QueueLeave DEF Sema!TypeOK
  <2>3. InitProtocol' /\ Sema!TypeOK'
    BY <1>1, <1>2, <2>1, <2>2 DEF Sema!initVars, Sema!TypeOK
  <2>4. SemaSleepers'
    BY <2>1, <2>2 DEF SemaSleepers
  <2> QED
    BY <2>2, <2>3, <2>4
<1>9. count > 0 \/ count = 0
  <2>1. count \in Nat
    BY DEF Sema!TypeOK
  <2> QED
    BY <2>1
<1> QED
  <2>1. Sema!OsSemaTryget(t) => count > 0
    BY DEF Sema!OsSemaTryget, Sema!DownTrylock
  <2> QED
    BY <1>3, <1>4, <1>5, <1>6, <1>7, <1>8, <1>9, <2>1 DEF Sema!OsSemaGet

LEMMA SemaStep == ASSUME SemaInv, [Next]_vars PROVE SemaInv'
<1>1. CASE Sema!Next /\ SemaFrame
  BY <1>1, InitialisationStep, SemaUseStep
  DEF SemaFrame, SemaInv, Sema!Next, Sema!Inside
<1>2. CASE UNCHANGED <<part, semaVars>> /\ part # "semaphore"
  BY <1>2 DEF SemaInv, semaVars
<1>3. CASE UNCHANGED <<part, semaVars, countVars>>
  <2> USE <1>3 DEF semaVars, countVars
  <2>1. Sema!TypeOK => Sema!TypeOK'
    BY DEF Sema!TypeOK
  <2>2. Queued /\ SemaSleepers => Queued' /\ SemaSleepers'
    BY DEF Queued, SemaSleepers
  <2>3. InitProtocol => InitProtocol'
    BY DEF InitProtocol
  <2> QED
    BY <2>1, <2>2, <2>3 DEF SemaInv
<1> QED
  BY <1>1, <1>2, <1>3
  DEF Next, vars, KernelLockFrame, MutexFrame, IrqlockFrame, KernelThreadFrame,
      UserThreadFrame

-----------------------------------------------------------------------------
(* Every part keeps its invariant, whichever part the execution is of. *)
THEOREM Invariance == Spec => []Inv
<1>1. Init => Inv
  BY IrqlockInit, SemaInitial, KernelLockInit, MutexInit, KernelThreadInit, UserThreadInit
  DEF Inv
<1>2. Inv /\ [Next]_vars => Inv'
  BY IrqlockStep, SemaStep, KernelLockStep, MutexStep, KernelThreadStep, UserThreadStep
  DEF Inv
<1> QED
  BY <1>1, <1>2, PTL DEF Spec

(* os_irqlock_acquire and os_irqlock_release, nested and contended as they may
   be, leave a processor's interrupts on exactly if its task has no lock and no
   handler runs. *)
THEOREM InterruptsAreRestored == Spec => []IrqsRestored
<1>1. Inv => IrqsRestored
  BY DEF Inv, IrqlockInv
<1> QED
  BY <1>1, Invariance, PTL

(* Half-way failures of os_create_lock and refused destroys leak nothing and free
   nothing that is used. *)
THEOREM LocksAreAllocated == Spec => []LockMemory
<1>1. ASSUME KernelLockInv, part = "kernel_lock" PROVE KernelLock!LockMemory
  BY <1>1 DEF KernelLockInv, Creation, KernelLock!TypeOK, KernelLock!LockMemory
<1>2. Inv => LockMemory
  BY <1>1 DEF Inv, MutexInv, LockMemory
<1> QED
  BY <1>2, Invariance, PTL

(* An os_thread_wait of the kernel that has returned found the thread past its
   last use of the os_thread_t, unless its function called os_thread_exit. *)
THEOREM WaitedThreadIsDone == Spec => []WaitMeansReturned
<1>1. Inv => WaitMeansReturned
  BY DEF Inv, KernelThreadInv, KernelThread!TypeOK, SetIsLast, WaitMeansReturned,
         KernelThread!WaitMeansReturned, KernelThread!Released
<1> QED
  BY <1>1, Invariance, PTL

(* os_thread_wait and os_thread_destroy cancel and join a pthread at most once. *)
THEOREM OneJoin == Spec => []JoinedOnce
<1>1. Inv => JoinedOnce
  BY DEF Inv, UserThreadInv, NotYetJoined, JoinedOnce, UserThread!JoinedOnce
<1> QED
  BY <1>1, Invariance, PTL

(* A thread made with OS_THREAD_CREATE_SUSPENDED runs its function only after a
   resume, a spurious wakeup or in a terminate, and is then seen to run. *)
THEOREM SuspendedThreadWaits == Spec => []SuspendedUntilResumed
<1>1. Inv => SuspendedUntilResumed
  BY DEF Inv, UserThreadInv, StateIsTrue, SuspendedUntilResumed,
         UserThread!SuspendedUntilResumed, UserThread!OsThreadSuspend,
         UserThread!OsThreadGetState
<1> QED
  BY <1>1, Invariance, PTL

-----------------------------------------------------------------------------
(* Refinement.  Which thread holds a lock is read off the threads' positions. *)
LEMMA HolderIs ==
    ASSUME NEW f, NEW t \in Threads, f[t] = "locked",
           \A u \in Threads : f[u] = "locked" => u = t
    PROVE  (IF \E u \in Threads : f[u] = "locked"
            THEN CHOOSE u \in Threads : f[u] = "locked" ELSE NoThread) = t
OBVIOUS

(* Seen through one irq lock, an acquire of it wants it, the spin grants it and
   its release releases it; everything else is a stutter. *)
LEMMA IrqlockRefines ==
    ASSUME IrqlockInv, part = "irqlock", Irqlock!Next, IrqlockFrame
    PROVE  [Abstract!Next]_(Abstract!vars)
<1>1. /\ Irqlock!TypeOK /\ Nested /\ Owned /\ watched \in Locks
      /\ watched' = watched /\ part' = "irqlock" /\ handle' = handle
  BY DEF IrqlockInv, IrqlockFrame, lockVars
<1>2. /\ LockOwner = holder[watched] /\ LockOwner' = holder'[watched]
      /\ LockWanting = {c \in Irqlock!Contexts : spinning[c] = watched}
      /\ LockWanting' = {c \in Irqlock!Contexts : spinning'[c] = watched}
  BY <1>1 DEF LockOwner, LockWanting
<1>3. watched # 0
  BY <1>1, LocksAssumption
<1>4. ASSUME NEW cpu \in Cpus, Irqlock!Interrupt(cpu) \/ Irqlock!InterruptReturn(cpu)
      PROVE  UNCHANGED Abstract!vars
  BY <1>1, <1>2, <1>4 DEF Irqlock!Interrupt, Irqlock!InterruptReturn, Abstract!vars
<1>5. ASSUME NEW c \in Irqlock!Contexts, NEW l \in Locks, Irqlock!OsIrqlockAcquire(c, l)
      PROVE  [Abstract!Next]_(Abstract!vars)
  <2>1. /\ holder' = holder /\ spinning[c] = 0
        /\ spinning' = [spinning EXCEPT ![c] = l]
        /\ \A i \in 1..Len(held[c]) : held[c][i] < l
    <3>1. DOMAIN held[c] = 1..Len(held[c])
      BY <1>1 DEF Irqlock!TypeOK
    <3> QED
      BY <1>5, <3>1 DEF Irqlock!OsIrqlockAcquire, Irqlock!Running
  <2>2. CASE l = watched
    <3>1. holder[l] # c
      <4>1. \A i \in 1..Len(held[c]) : held[c][i] # l
        BY <1>1, <2>1, LocksAssumption, ContextTypes
      <4> QED
        BY <1>1, <4>1 DEF Owned
    <3>2. Abstract!Want(c)
      BY <1>1, <1>2, <1>3, <2>1, <2>2, <3>1 DEF Abstract!Want, Irqlock!TypeOK
    <3> QED
      BY <3>2 DEF Abstract!Next
  <2>3. CASE l # watched
    BY <1>1, <1>2, <1>3, <2>1, <2>3 DEF Abstract!vars, Irqlock!TypeOK
  <2> QED
    BY <2>2, <2>3
<1>6. ASSUME NEW c \in Irqlock!Contexts, Irqlock!Spin(c)
      PROVE  [Abstract!Next]_(Abstract!vars)
  <2>1. /\ holder[spinning[c]] = NoThread
        /\ holder' = [holder EXCEPT ![spinning[c]] = c]
        /\ spinning' = [spinning EXCEPT ![c] = 0]
    BY <1>6 DEF Irqlock!Spin
  <2>2. CASE spinning[c] = watched
    <3>1. Abstract!Grant(c)
      BY <1>1, <1>2, <1>3, <2>1, <2>2 DEF Abstract!Grant, Irqlock!TypeOK
    <3> QED
      BY <3>1 DEF Abstract!Next
  <2>3. CASE spinning[c] # watched
    BY <1>1, <1>2, <1>3, <2>1, <2>3 DEF Abstract!vars, Irqlock!TypeOK
  <2> QED
    BY <2>2, <2>3
<1>7. ASSUME NEW c \in Irqlock!Contexts, NEW l \in Locks, Irqlock!OsIrqlockRelease(c, l)
      PROVE  [Abstract!Next]_(Abstract!vars)
  <2>1. /\ holder' = [holder EXCEPT ![l] = NoThread] /\ spinning' = spinning
        /\ held[c] # <<>> /\ Irqlock!Last(held[c]) = l
    BY <1>7 DEF Irqlock!OsIrqlockRelease
  <2>2. CASE l = watched
    <3>1. Len(held[c]) \in 1..Len(held[c]) /\ held[c][Len(held[c])] = l
      BY <1>1, <2>1, ContextTypes DEF Irqlock!Last
    <3>2. holder[l] = c /\ c # NoThread
      BY <1>1, <3>1, ContextTypes DEF Owned
    <3>3. Abstract!Release
      BY <1>1, <1>2, <2>1, <2>2, <3>2 DEF Abstract!Release, Irqlock!TypeOK
    <3> QED
      BY <3>3 DEF Abstract!Next
  <2>3. CASE l # watched
    BY <1>1, <1>2, <2>1, <2>3 DEF Abstract!vars, Irqlock!TypeOK
  <2> QED
    BY <2>2, <2>3
<1> QED
  BY <1>4, <1>5, <1>6, <1>7 DEF Irqlock!Next

(* A lock of threads: what a step does to the owner and to those who wait. *)
LEMMA ThreadLockView ==
    ASSUME part # "irqlock", part' = part, NEW t \in Threads
    PROVE  /\ (\A u \in Threads : lpc[u] # "locked") => LockOwner = NoThread
           /\ (\A u \in Threads : lpc'[u] # "locked") => LockOwner' = NoThread
           /\ (\A u \in Threads : lpc[u] = "locked" <=> u = t) => LockOwner = t
           /\ (\A u \in Threads : lpc'[u] = "locked" <=> u = t) => LockOwner' = t
           /\ LockWanting = {u \in Threads : lpc[u] \in {"get", "asleep"}}
           /\ LockWanting' = {u \in Threads : lpc'[u] \in {"get", "asleep"}}
           /\ t # NoThread
<1>1. part' # "irqlock"
  OBVIOUS
<1>2. ASSUME \A u \in Threads : lpc[u] = "locked" <=> u = t PROVE LockOwner = t
  BY <1>2, HolderIs DEF LockOwner
<1>3. ASSUME \A u \in Threads : lpc'[u] = "locked" <=> u = t PROVE LockOwner' = t
  BY <1>1, <1>3, HolderIs DEF LockOwner
<1> QED
  BY <1>1, <1>2, <1>3, NoThreadAssumption DEF LockOwner, LockWanting

(* Where a thread is, in a lock of either kind. *)
LockPlaces == [Threads -> {"idle", "create", "get", "asleep", "locked"}]

(* Nobody holds the lock, t goes from its call, or from a try, to holding it. *)
LEMMA ThreadTakes ==
    ASSUME part # "irqlock", part' = part, handle' = handle, handle = "lock",
           NEW t \in Threads, lpc \in LockPlaces,
           \A u \in Threads : lpc[u] # "locked",
           lpc[t] \in {"idle", "get", "asleep"}, lpc' = [lpc EXCEPT ![t] = "locked"]
    PROVE  [Abstract!Next]_(Abstract!vars)
<1> USE DEF LockPlaces
<1>1. LockOwner = NoThread /\ LockOwner' = t /\ t # NoThread
  BY ThreadLockView
<1>2. /\ LockWanting = {u \in Threads : lpc[u] \in {"get", "asleep"}}
      /\ LockWanting' = {u \in Threads : lpc'[u] \in {"get", "asleep"}}
  BY ThreadLockView
<1>3. LockWanting' = LockWanting \ {t}
  BY <1>2
<1>4. CASE lpc[t] = "idle"
  <2>1. t \notin LockWanting /\ LockWanting' = LockWanting
    BY <1>2, <1>3, <1>4
  <2>2. Abstract!Try(t)
    BY <1>1, <2>1 DEF Abstract!Try
  <2> QED
    BY <2>2 DEF Abstract!Next
<1>5. CASE lpc[t] \in {"get", "asleep"}
  <2>1. Abstract!Grant(t)
    BY <1>1, <1>2, <1>3, <1>5 DEF Abstract!Grant
  <2> QED
    BY <2>1 DEF Abstract!Next
<1> QED
  BY <1>4, <1>5

(* The one thread that holds the lock gives it back. *)
LEMMA ThreadGives ==
    ASSUME part # "irqlock", part' = part, handle' = handle,
           NEW t \in Threads, lpc \in LockPlaces,
           \A u \in Threads : lpc[u] = "locked" <=> u = t,
           lpc' = [lpc EXCEPT ![t] = "idle"]
    PROVE  [Abstract!Next]_(Abstract!vars)
<1> USE DEF LockPlaces
<1>1. LockOwner = t /\ LockOwner' = NoThread /\ t # NoThread
  BY ThreadLockView
<1>2. LockWanting' = LockWanting
  BY ThreadLockView
<1>3. Abstract!Release
  BY <1>1, <1>2 DEF Abstract!Release
<1> QED
  BY <1>3 DEF Abstract!Next

(* A thread that does not hold the lock begins to wait for it. *)
LEMMA ThreadWants ==
    ASSUME part # "irqlock", part' = part, handle' = handle, handle = "lock",
           NEW t \in Threads, lpc \in LockPlaces, lpc[t] = "idle",
           lpc' = [lpc EXCEPT ![t] = "get"]
    PROVE  [Abstract!Next]_(Abstract!vars)
<1> USE DEF LockPlaces
<1>1. LockOwner' = LockOwner /\ LockOwner # t
  <2>1. \A u \in Threads : lpc'[u] = "locked" <=> lpc[u] = "locked"
    OBVIOUS
  <2>2. (\E u \in Threads : lpc[u] = "locked") =>
           LockOwner \in {u \in Threads : lpc[u] = "locked"}
    BY DEF LockOwner
  <2>3. (CHOOSE u \in Threads : lpc'[u] = "locked") = (CHOOSE u \in Threads : lpc[u] = "locked")
    BY <2>1
  <2> QED
    BY <2>1, <2>2, <2>3, NoThreadAssumption DEF LockOwner
<1>2. LockWanting' = LockWanting \cup {t} /\ t \notin LockWanting
  BY ThreadLockView
<1>3. Abstract!Want(t)
  BY <1>1, <1>2 DEF Abstract!Want
<1> QED
  BY <1>3 DEF Abstract!Next

(* Nobody takes or leaves the lock or a place before it. *)
LEMMA ThreadsStay ==
    ASSUME part # "irqlock", part' = part,
           \A u \in Threads : /\ lpc'[u] = "locked" <=> lpc[u] = "locked"
                              /\ lpc'[u] \in {"get", "asleep"} <=> lpc[u] \in {"get", "asleep"}
    PROVE  LockOwner' = LockOwner /\ LockWanting' = LockWanting
<1>1. (CHOOSE u \in Threads : lpc'[u] = "locked") = (CHOOSE u \in Threads : lpc[u] = "locked")
  OBVIOUS
<1>2. LockOwner' = LockOwner
  BY <1>1 DEF LockOwner
<1>3. LockWanting' = LockWanting
  BY DEF LockWanting
<1> QED
  BY <1>2, <1>3

(* The lock comes into being, or goes while nobody uses it. *)
LEMMA LockComesAndGoes ==
    ASSUME part # "irqlock", part' = part,
           \A u \in Threads : /\ lpc[u] \notin {"locked", "get", "asleep"}
                              /\ lpc'[u] \notin {"locked", "get", "asleep"}
    PROVE  [Abstract!Next]_(Abstract!vars)
<1>1. LockOwner = NoThread /\ LockWanting = {} /\ LockOwner' = NoThread /\ LockWanting' = {}
  BY DEF LockOwner, LockWanting
<1>2. CASE handle' = "lock" <=> handle = "lock"
  BY <1>1, <1>2 DEF Abstract!vars
<1>3. CASE handle' = "lock" /\ handle # "lock"
  BY <1>1, <1>3 DEF Abstract!Next, Abstract!Create
<1>4. CASE handle' # "lock" /\ handle = "lock"
  BY <1>1, <1>4 DEF Abstract!Next, Abstract!Destroy
<1> QED
  BY <1>2, <1>3, <1>4

(* The kernel's semaphore lock. *)
LEMMA KernelLockRefines ==
    ASSUME KernelLockInv, part = "kernel_lock", KernelLock!Next, KernelLockFrame
    PROVE  [Abstract!Next]_(Abstract!vars)
<1>1. /\ KernelLock!TypeOK /\ Sleepers /\ OnePermit /\ Creation
      /\ part' = part /\ part # "irqlock" /\ lpc \in LockPlaces
  BY DEF KernelLockInv, KernelLockFrame, KernelLock!TypeOK, LockPlaces
<1>2. CASE KernelLock!OsDestroyLock
  BY <1>1, <1>2, LockComesAndGoes DEF KernelLock!OsDestroyLock
<1>3. ASSUME NEW t \in Threads, KernelLock!AllocLock(t) \/ KernelLock!AllocSema(t)
      PROVE  [Abstract!Next]_(Abstract!vars)
  <2>1. \A u \in Threads : /\ lpc[u] \notin {"locked", "get", "asleep"}
                           /\ lpc'[u] \notin {"locked", "get", "asleep"}
    BY <1>1, <1>3
    DEF KernelLock!AllocLock, KernelLock!AllocSema, KernelLock!Goto, Creation, LockPlaces
  <2> QED
    BY <1>1, <2>1, LockComesAndGoes
<1>4. ASSUME NEW t \in Threads, KernelLock!CallLock(t) PROVE [Abstract!Next]_(Abstract!vars)
  BY <1>1, <1>4, ThreadWants DEF KernelLock!CallLock, KernelLock!Goto
<1>5. ASSUME NEW t \in Threads,
             \/ KernelLock!OsTryLock(t)
             \/ /\ UNCHANGED handle
                /\ \/ KernelLock!Sema!Down(t, "locked") /\ count > 0
                   \/ KernelLock!Sema!Woken(t, "locked")
      PROVE  [Abstract!Next]_(Abstract!vars)
  <2>1. /\ lpc[t] \in {"idle", "get", "asleep"} /\ lpc' = [lpc EXCEPT ![t] = "locked"]
        /\ handle' = handle
        /\ count > 0 \/ t \in granted
    BY <1>5
    DEF KernelLock!OsTryLock, KernelLock!Sema!DownTrylock, KernelLock!Goto,
        KernelLock!Sema!Down, KernelLock!Sema!Woken, KernelLock!Sema!Goto
  <2>2. count > 0 => count = 1
    <3>1. count \in 0..1
      BY <1>1 DEF KernelLock!TypeOK
    <3> QED
      BY <3>1
  <2>3. \A u \in Threads : lpc[u] # "locked"
    BY <1>1, <2>1, <2>2 DEF OnePermit, Sleepers
  <2>4. handle = "lock"
    BY <1>1, <1>5, <2>1 DEF Creation, KernelLock!OsTryLock, KernelLock!Sema!Down,
                            KernelLock!Sema!Woken, KernelLock!Sema!Goto
  <2> QED
    BY <1>1, <2>1, <2>3, <2>4, ThreadTakes
<1>6. ASSUME NEW t \in Threads, UNCHANGED handle, KernelLock!Sema!Down(t, "locked"), count = 0
      PROVE  [Abstract!Next]_(Abstract!vars)
  <2>1. lpc[t] = "get" /\ lpc' = [lpc EXCEPT ![t] = "asleep"]
    BY <1>6 DEF KernelLock!Sema!Down, KernelLock!Sema!Goto
  <2>2. LockOwner' = LockOwner /\ LockWanting' = LockWanting
    BY <1>1, <2>1, ThreadsStay
  <2> QED
    BY <1>1, <1>6, <2>2 DEF Abstract!vars
<1>7. ASSUME NEW t \in Threads, KernelLock!OsUnlock(t) PROVE [Abstract!Next]_(Abstract!vars)
  <2>1. /\ lpc[t] = "locked" /\ lpc' = [lpc EXCEPT ![t] = "idle"] /\ handle' = handle
    BY <1>7 DEF KernelLock!OsUnlock, KernelLock!Goto
  <2> QED
    BY <1>1, <2>1, ThreadGives DEF OnePermit
<1>8. ASSUME NEW t \in Threads, KernelLock!OsLock(t) PROVE [Abstract!Next]_(Abstract!vars)
  <2>1. count > 0 \/ count = 0
    <3>1. count \in 0..1
      BY <1>1 DEF KernelLock!TypeOK
    <3> QED
      BY <3>1
  <2> QED
    BY <1>5, <1>6, <1>8, <2>1 DEF KernelLock!OsLock
<1> QED
  BY <1>2, <1>3, <1>4, <1>5, <1>7, <1>8 DEF KernelLock!Next, KernelLock!Inside

(* The mutexes. *)
LEMMA MutexRefines ==
    ASSUME MutexInv, part = "mutex", Mutex!Next, MutexFrame
    PROVE  [Abstract!Next]_(Abstract!vars)
<1>1. /\ Mutex!TypeOK /\ Mutex!LockMemory
      /\ \A t \in Threads : owner = t <=> lpc[t] = "locked"
      /\ part' = part /\ part # "irqlock" /\ lpc \in LockPlaces
  <2>1. lpc \in [Threads -> {"idle", "get", "locked"}]
    BY DEF MutexInv, Mutex!TypeOK
  <2>2. lpc \in LockPlaces
    BY <2>1 DEF LockPlaces
  <2> QED
    BY <2>2 DEF MutexInv, MutexFrame
<1>2. ASSUME NEW t \in Threads, Mutex!Take(t, "get") \/ Mutex!Take(t, "idle")
      PROVE  [Abstract!Next]_(Abstract!vars)
  <2>1. /\ handle = "lock" /\ handle' = handle /\ owner = NoThread
        /\ lpc[t] \in {"idle", "get", "asleep"} /\ lpc' = [lpc EXCEPT ![t] = "locked"]
    BY <1>2 DEF Mutex!Take, Mutex!Goto
  <2>2. \A u \in Threads : lpc[u] # "locked"
    BY <1>1, <2>1, NoThreadAssumption
  <2> QED
    BY <1>1, <2>1, <2>2, ThreadTakes
<1>3. ASSUME NEW t \in Threads, Mutex!Give(t) PROVE [Abstract!Next]_(Abstract!vars)
  <2>1. /\ lpc[t] = "locked" /\ lpc' = [lpc EXCEPT ![t] = "idle"] /\ handle' = handle
    BY <1>3 DEF Mutex!Give, Mutex!Goto
  <2>2. \A u \in Threads : lpc[u] = "locked" <=> u = t
    BY <1>1, <2>1
  <2> QED
    BY <1>1, <2>1, <2>2, ThreadGives
<1>4. ASSUME NEW t \in Threads, Mutex!CallLock(t) PROVE [Abstract!Next]_(Abstract!vars)
  BY <1>1, <1>4, ThreadWants DEF Mutex!CallLock, Mutex!Goto
<1>5. CASE \/ Mutex!OsCreateLock \/ Mutex!OsMutexInit \/ Mutex!KernelMutexInit
           \/ Mutex!OsIrqlockInit
  <2>1. handle # "lock" /\ lpc' = lpc
    BY <1>5 DEF Mutex!OsCreateLock, Mutex!OsMutexInit, Mutex!KernelMutexInit,
                Mutex!OsIrqlockInit, Mutex!Make
  <2>2. \A u \in Threads : lpc[u] = "idle"
    BY <1>1, <2>1 DEF Mutex!LockMemory
  <2> QED
    BY <1>1, <2>1, <2>2, LockComesAndGoes
<1>6. CASE UNCHANGED <<handle, lpc>>
  <2>1. LockOwner' = LockOwner /\ LockWanting' = LockWanting
    BY <1>1, <1>6, ThreadsStay
  <2> QED
    BY <1>1, <1>6, <2>1 DEF Abstract!vars
<1>7. CASE owner = NoThread /\ Mutex!Unmake
  <2>1. /\ lpc' = lpc /\ \A u \in Threads : lpc[u] \notin {"locked", "get", "asleep"}
    BY <1>1, <1>7, NoThreadAssumption DEF Mutex!Unmake, Mutex!TypeOK
  <2> QED
    BY <1>1, <2>1, LockComesAndGoes
<1>8. CASE \/ Mutex!OsDestroyLock \/ Mutex!OsMutexDestroy \/ Mutex!KernelMutexDestroy
           \/ Mutex!OsIrqlockDestroy
  BY <1>6, <1>7, <1>8
  DEF Mutex!OsDestroyLock, Mutex!OsMutexDestroy, Mutex!KernelMutexDestroy,
      Mutex!OsIrqlockDestroy, Mutex!vars
<1>9. ASSUME NEW t \in Threads,
             \/ Mutex!OsTryLock(t) \/ Mutex!OsMutexTrylock(t) \/ Mutex!KernelMutexTrylock(t)
             \/ Mutex!Inside(t)
      PROVE  [Abstract!Next]_(Abstract!vars)
  BY <1>2, <1>3, <1>9
  DEF Mutex!OsTryLock, Mutex!OsMutexTrylock, Mutex!KernelMutexTrylock, Mutex!Inside,
      Mutex!OsLock, Mutex!OsMutexLock, Mutex!KernelMutexLock, Mutex!OsIrqlockAcquire,
      Mutex!OsUnlock, Mutex!OsMutexUnlock, Mutex!KernelMutexUnlock, Mutex!OsIrqlockRelease
<1> QED
  BY <1>4, <1>5, <1>8, <1>9 DEF Mutex!Next

(* Every lock excludes: seen through its owner and those who wait, the kernel's
   semaphore lock, the mutexes of both systems and each spinlock of a nest of irq
   locks make the steps of the abstract lock.  ImplementsLock adds the fairness,
   which only TLC checks. *)
THEOREM LockRefinement == Spec => Abstract!SafeSpec
<1>1. Init => Abstract!Init
  <2> SUFFICES ASSUME Init PROVE Abstract!Init
    OBVIOUS
  <2>1. (part = "irqlock" \/ handle = "lock") \in BOOLEAN
    BY Zenon
  <2>2. LockOwner = NoThread
    BY DEF Init, Irqlock!Init, LockOwner
  <2>3. LockWanting = {}
    BY LocksAssumption DEF Init, Irqlock!Init, LockWanting
  <2> QED
    BY <2>1, <2>2, <2>3 DEF Abstract!Init
<1>2. Inv /\ [Next]_vars => [Abstract!Next]_(Abstract!vars)
  <2> SUFFICES ASSUME Inv, [Next]_vars PROVE [Abstract!Next]_(Abstract!vars)
    OBVIOUS
  <2>1. CASE Irqlock!Next /\ IrqlockFrame
    BY <2>1, IrqlockRefines DEF Inv, IrqlockFrame
  <2>2. CASE KernelLock!Next /\ KernelLockFrame
    BY <2>2, KernelLockRefines DEF Inv, KernelLockFrame
  <2>3. CASE Mutex!Next /\ MutexFrame
    BY <2>3, MutexRefines DEF Inv, MutexFrame
  <2>4. CASE UNCHANGED <<part, watched, handle, lpc, holder, spinning>>
    BY <2>4 DEF LockOwner, LockWanting, Abstract!vars
  <2> QED
    BY <2>1, <2>2, <2>3, <2>4
    DEF Next, vars, SemaFrame, KernelThreadFrame, UserThreadFrame, lockVars, irqVars
<1> QED
  BY <1>1, <1>2, Invariance, PTL DEF Spec, Abstract!SafeSpec

(* The threads inside os_sema_get. *)
SemaAsking == {t \in Threads : pc[t] \in {"get", "asleep"}}

(* The instance of the semaphore brings its own name for the number of elements. *)
LEMMA SameCardinality == \A S : Sema!Cardinality(S) = Cardinality(S)
  BY DEF Sema!Cardinality, Cardinality

(* The permit that is handed to a sleeper moves from the count to granted, and the
   sleeper that takes it leaves granted: each counts for one. *)
LEMMA GrantedCounts ==
    ASSUME granted \subseteq Threads
    PROVE  /\ Sema!Cardinality(granted) \in Nat
           /\ \A t \in granted :
                 /\ Sema!Cardinality(granted \ {t}) = Sema!Cardinality(granted) - 1
                 /\ Sema!Cardinality(granted) > 0
           /\ \A t : t \notin granted =>
                 Sema!Cardinality(granted \cup {t}) = Sema!Cardinality(granted) + 1
<1>1. IsFiniteSet(granted)
  BY ThreadsAssumption, FS_Subset
<1>2. Sema!Cardinality(granted) \in Nat
  BY <1>1, FS_CardinalityType, SameCardinality
<1>3. ASSUME NEW t \in granted
      PROVE  /\ Sema!Cardinality(granted \ {t}) = Sema!Cardinality(granted) - 1
             /\ Sema!Cardinality(granted) > 0
  <2>1. Sema!Cardinality(granted \ {t}) = Sema!Cardinality(granted) - 1
    BY <1>1, FS_RemoveElement, SameCardinality
  <2>2. Sema!Cardinality(granted) # 0
    BY <1>1, FS_EmptySet, SameCardinality
  <2> QED
    BY <1>2, <2>1, <2>2
<1>4. ASSUME NEW t, t \notin granted
      PROVE  Sema!Cardinality(granted \cup {t}) = Sema!Cardinality(granted) + 1
  BY <1>1, <1>4, FS_AddElement, SameCardinality
<1> QED
  BY <1>2, <1>3, <1>4

(* The initialisers and the end of the semaphore. *)
LEMMA InitialisationRefines ==
    ASSUME SemaInv, part = "semaphore",
           \/ Sema!OsSemaInit \/ Sema!OsSemaDestroy
           \/ \E t \in Threads :
                 Sema!CallInitPreInited(t) \/ Sema!InitLock(t) \/ Sema!InitWrite(t)
                 \/ Sema!InitUnlock(t)
    PROVE  [Sema!Abstract!Next]_(Sema!Abstract!vars)
<1>1. Sema!TypeOK /\ SemaSleepers /\ InitProtocol
  BY DEF SemaInv
<1>2. pc \in [Threads -> {"idle", "init_lock", "init_write", "init_unlock", "get", "asleep"}]
  BY <1>1 DEF Sema!TypeOK
<1>3. Sema!Cardinality({}) = 0 /\ Initial \in Nat
  BY FS_EmptySet, SameCardinality, CountsAssumption
<1>4. initialised \in BOOLEAN
  BY <1>1 DEF Sema!TypeOK
<1>5. CASE Sema!OsSemaInit \/ \E t \in Threads : Sema!InitWrite(t)
  <2>1. /\ ~initialised /\ count' = Initial /\ granted' = {}
        /\ SemaAsking' = SemaAsking
    BY <1>1, <1>2, <1>5
    DEF InitProtocol, Sema!OsSemaInit, Sema!InitWrite, Sema!SemaInit, Sema!Goto, SemaAsking
  <2>2. initialised' = TRUE
    BY <1>5, Zenon DEF Sema!OsSemaInit, Sema!InitWrite
  <2>3. Sema!Abstract!Create
    BY <1>3, <2>1, <2>2 DEF Sema!Abstract!Create, SemaAsking
  <2> QED
    BY <2>3 DEF Sema!Abstract!Next
<1>6. CASE Sema!OsSemaDestroy
  <2>1. /\ initialised /\ SemaAsking = {} /\ SemaAsking' = {}
    BY <1>1, <1>6 DEF Sema!OsSemaDestroy, SemaAsking
  <2>2. initialised' = FALSE
    BY <1>6, Zenon DEF Sema!OsSemaDestroy
  <2>3. Sema!Abstract!Destroy
    BY <2>1, <2>2 DEF Sema!Abstract!Destroy, SemaAsking
  <2> QED
    BY <2>3 DEF Sema!Abstract!Next
<1>7. ASSUME NEW t \in Threads,
             Sema!CallInitPreInited(t) \/ Sema!InitLock(t) \/ Sema!InitUnlock(t)
      PROVE  [Sema!Abstract!Next]_(Sema!Abstract!vars)
  <2>1. SemaAsking' = SemaAsking /\ count' = count /\ granted' = granted
    BY <1>2, <1>7
    DEF Sema!CallInitPreInited, Sema!InitLock, Sema!InitUnlock, Sema!Goto, SemaAsking,
        Sema!semaphore
  <2>2. initialised' = initialised
    BY <1>7, Zenon DEF Sema!CallInitPreInited, Sema!InitLock, Sema!InitUnlock, Sema!initVars
  <2> QED
    BY <2>1, <2>2 DEF Sema!Abstract!vars, SemaAsking
<1> QED
  BY <1>5, <1>6, <1>7

(* Gets, tries and puts. *)
LEMMA SemaUseRefines ==
    ASSUME SemaInv, part = "semaphore", NEW t \in Threads,
           \/ Sema!CallGet(t) \/ Sema!OsSemaTryget(t) \/ Sema!OsSemaPut(t)
           \/ Sema!OsSemaGet(t)
    PROVE  [Sema!Abstract!Next]_(Sema!Abstract!vars)
<1>1. Sema!TypeOK /\ Queued /\ SemaSleepers /\ InitProtocol
  BY DEF SemaInv
<1>2. /\ pc \in [Threads -> {"idle", "init_lock", "init_write", "init_unlock", "get", "asleep"}]
      /\ count \in Nat /\ granted \subseteq Threads
  BY <1>1 DEF Sema!TypeOK
<1>3. initialised /\ initialised' /\ initialised' = initialised
  BY <1>1, <1>2
  DEF InitProtocol, SemaSleepers, Sema!CallGet, Sema!OsSemaTryget, Sema!OsSemaPut,
      Sema!OsSemaGet, Sema!Down, Sema!Woken, Sema!Goto, Sema!initVars
<1>4. /\ Sema!Cardinality(granted) \in Nat
      /\ \A u \in granted :
            /\ Sema!Cardinality(granted \ {u}) = Sema!Cardinality(granted) - 1
            /\ Sema!Cardinality(granted) > 0
      /\ \A u : u \notin granted =>
            Sema!Cardinality(granted \cup {u}) = Sema!Cardinality(granted) + 1
  BY <1>2, GrantedCounts
<1>6. CASE Sema!CallGet(t)
  <2>1. /\ SemaAsking' = SemaAsking \cup {t} /\ t \notin SemaAsking
        /\ count' = count /\ granted' = granted
    BY <1>2, <1>6 DEF Sema!CallGet, Sema!Goto, Sema!semaphore, SemaAsking
  <2>2. Sema!Abstract!Ask(t)
    BY <1>3, <2>1 DEF Sema!Abstract!Ask, SemaAsking
  <2> QED
    BY <2>2 DEF Sema!Abstract!Next
<1>7. CASE Sema!OsSemaTryget(t)
  <2>1. /\ SemaAsking' = SemaAsking /\ t \notin SemaAsking
        /\ count > 0 /\ count' = count - 1 /\ granted' = granted
    BY <1>2, <1>7 DEF Sema!OsSemaTryget, Sema!DownTrylock, SemaAsking
  <2>2. Sema!Abstract!Take(t)
    BY <1>2, <1>3, <1>4, <2>1 DEF Sema!Abstract!Take, SemaAsking
  <2> QED
    BY <2>2 DEF Sema!Abstract!Next
<1>8. CASE Sema!OsSemaPut(t)
  <2>1. SemaAsking' = SemaAsking
    BY <1>8 DEF Sema!OsSemaPut, SemaAsking
  <2>2. count' + Sema!Cardinality(granted') = count + Sema!Cardinality(granted) + 1
    <3>1. CASE wait_list = <<>>
      BY <1>2, <1>4, <1>8, <3>1 DEF Sema!OsSemaPut, Sema!Up
    <3>2. CASE wait_list # <<>>
      <4>1. Head(wait_list) \notin granted
        BY <1>1, <3>2 DEF Queued, Sema!TypeOK
      <4>2. count' = count /\ granted' = granted \cup {Head(wait_list)}
        BY <1>8, <3>2 DEF Sema!OsSemaPut, Sema!Up
      <4> QED
        BY <1>2, <1>4, <4>1, <4>2
    <3> QED
      BY <3>1, <3>2
  <2>3. Sema!Abstract!Release
    BY <1>3, <2>1, <2>2 DEF Sema!Abstract!Release, SemaAsking
  <2> QED
    BY <2>3 DEF Sema!Abstract!Next
<1>9. CASE Sema!Down(t, "idle") /\ count = 0
  <2>1. SemaAsking' = SemaAsking /\ count' = count /\ granted' = granted
    BY <1>2, <1>9 DEF Sema!Down, Sema!Goto, SemaAsking
  <2> QED
    BY <1>3, <2>1 DEF Sema!Abstract!vars, SemaAsking
<1>10. CASE Sema!Woken(t, "idle") \/ (Sema!Down(t, "idle") /\ count > 0)
  <2>1. SemaAsking' = SemaAsking \ {t} /\ t \in SemaAsking
    BY <1>2, <1>10 DEF Sema!Down, Sema!Woken, Sema!Goto, SemaAsking
  <2>2. /\ count' + Sema!Cardinality(granted') = (count + Sema!Cardinality(granted)) - 1
        /\ count + Sema!Cardinality(granted) > 0
    <3>1. CASE t \in granted /\ granted' = granted \ {t} /\ count' = count
      BY <1>2, <1>4, <3>1
    <3>2. CASE count > 0 /\ count' = count - 1 /\ granted' = granted
      BY <1>2, <1>4, <3>2
    <3> QED
      BY <1>2, <1>10, <3>1, <3>2 DEF Sema!Down, Sema!Woken
  <2>3. Sema!Abstract!Grant(t)
    BY <1>3, <2>1, <2>2 DEF Sema!Abstract!Grant, SemaAsking
  <2> QED
    BY <2>3 DEF Sema!Abstract!Next
<1>11. CASE Sema!OsSemaGet(t)
  BY <1>2, <1>9, <1>10, <1>11 DEF Sema!OsSemaGet, Sema!Down
<1> QED
  BY <1>6, <1>7, <1>8, <1>11

(* The kernel's semaphore keeps the header's promises about its permits: it is
   created once however many callers initialise it, and each get, try and put
   moves exactly one permit, the one on its way to a sleeper included.
   ImplementsSemaphore adds the fairness, which only TLC checks. *)
THEOREM SemaphoreRefinement == Spec => Sema!Abstract!SafeSpec
<1>1. Init => Sema!Abstract!Init
  <2> SUFFICES ASSUME Init PROVE Sema!Abstract!Init
    OBVIOUS
  <2>1. initialised = FALSE
    BY Zenon DEF Init, Sema!Init
  <2>2. SemaAsking = {}
    BY DEF Init, Sema!Init, SemaAsking
  <2> QED
    BY <2>1, <2>2 DEF Sema!Abstract!Init, SemaAsking
<1>2. Inv /\ [Next]_vars => [Sema!Abstract!Next]_(Sema!Abstract!vars)
  <2> SUFFICES ASSUME Inv, [Next]_vars PROVE [Sema!Abstract!Next]_(Sema!Abstract!vars)
    OBVIOUS
  <2>1. CASE Sema!Next /\ SemaFrame
    BY <2>1, InitialisationRefines, SemaUseRefines
    DEF Inv, SemaFrame, Sema!Next, Sema!Inside
  <2>2. CASE UNCHANGED semaVars /\ UNCHANGED countVars
    BY <2>2 DEF semaVars, countVars, Sema!Abstract!vars
  <2>3. CASE UNCHANGED semaVars /\ part # "semaphore"
    <3>1. ~initialised
      BY <2>3 DEF Inv, SemaInv
    <3>2. initialised' = initialised /\ pc' = pc
      BY <2>3, Zenon DEF semaVars
    <3> QED
      BY <3>1, <3>2 DEF Sema!Abstract!vars
  <2> QED
    BY <2>1, <2>2, <2>3
    DEF Next, vars, KernelLockFrame, MutexFrame, IrqlockFrame, KernelThreadFrame,
        UserThreadFrame
<1> QED
  BY <1>1, <1>2, Invariance, PTL DEF Spec, Sema!Abstract!SafeSpec
=============================================================================
