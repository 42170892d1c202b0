---------------------------- MODULE OsalIrqProxy ----------------------------
(***************************************************************************)
(* User-space interrupts: the /proc/irqproxy driver of                     *)
(* linux_kernel/src/osal_irq.c together with the thread of                 *)
(* linux_user/src/osal_irq.c that reads it.  The driver's interrupt        *)
(* handler sets an event, disables the irq and notes that it did; a read   *)
(* enables the irq again if the previous read has reported the interrupt,  *)
(* and waits for the event for at most a second.  The event is the kernel  *)
(* event of OsalEventKernel, with all its steps.                           *)
(*                                                                         *)
(* From the kernel (not under src/): disable_irq_nosync and enable_irq     *)
(* count; a handler does not run while the irq is disabled; free_irq waits *)
(* for a running handler; a file is released when it is closed and no read *)
(* of it is in progress.                                                   *)
(***************************************************************************)
EXTENDS Naturals

CONSTANTS
    reader,     \* os_irq_thread, in its reads
    closer,     \* the context that polls the event when the file is released
    irq,        \* osal_irqproxy_handler
    NoSetter

ASSUME NamesAssumption == reader # closer /\ irq # NoSetter

VARIABLES
    \* the event in os_irqproxy_t, its waiters and timers
    state, manual_reset, signaled, spinlock, wait_queue, pc, call, runnable,
    signal, timer, handler, stale, timedout, seen,
    \* the driver
    proxy,      \* os_irqproxy_t exists and its top half is: "none", "listening", "deaf"
    disabled,   \* irqproxy->disabled
    received,   \* irqproxy->received, which is also what the last read returned
    hard,       \* the next step of the handler that runs, or "none"
    rel,        \* the next step of osal_irqproxy_release, or "none"
    \* the interrupt line
    depth,      \* how often the irq is disabled
    asserting,  \* the device asserts the line
    \* the user-space side
    file,       \* the open file: "none", "open", "closed" (a read holds it)
    fd,         \* irq->fd >= 0
    irqfunc,    \* irq->irqfunc, by the call that registered it
    upc,        \* where the caller of os_(un)register_top_half is
    rpc         \* where the irq thread is

eventVars == <<state, manual_reset, signaled, spinlock, wait_queue, pc, call, runnable,
               signal, timer, handler, stale, timedout, seen>>
lineVars == <<depth, asserting>>
userVars == <<file, fd, irqfunc, upc>>
vars == <<eventVars, proxy, disabled, received, hard, rel, lineVars, userVars, rpc>>

Read == [ms |-> "timed", interruptible |-> TRUE]
Poll == [ms |-> "poll", interruptible |-> TRUE]

Event == INSTANCE OsalEventKernel WITH
    Waiters <- {reader, closer},
    Setters <- {irq},
    Calls <- [w \in {reader, closer} |-> IF w = reader THEN {Read} ELSE {Poll}]

TypeOK ==
    /\ Event!TypeOK
    /\ proxy \in {"none", "listening", "deaf"}
    /\ disabled \in BOOLEAN
    /\ received \in {0, 1}
    /\ hard \in {"none", "set", "wake", "disable", "mark"}
    /\ rel \in {"none", "free_irq", "test", "poll", "enable", "destroy"}
    /\ depth \in 0..1
    /\ asserting \in BOOLEAN
    /\ file \in {"none", "open", "closed"}
    /\ fd \in BOOLEAN
    /\ irqfunc \in {"NULL", "irqhandler", "bottom_handler"}
    /\ irqfunc # "NULL" <=> upc # "out"
    /\ upc \in {"out", "write", "start", "in", "closing", "error", "setfd", "join"}
    /\ rpc \in {"none", "loop", "entry", "enable", "call", "wait", "return", "irqfunc",
                "exited"}

Init ==
    /\ Event!Init
    /\ proxy = "none" /\ disabled = FALSE /\ received = 1
    /\ hard = "none" /\ rel = "none"
    /\ depth = 0 /\ asserting = FALSE
    /\ file = "none" /\ fd = FALSE /\ irqfunc = "NULL"
    /\ upc = "out" /\ rpc = "none"

-----------------------------------------------------------------------------
(* The device and osal_irqproxy_handler *)

Raise ==
    /\ proxy = "listening" /\ ~asserting
    /\ asserting' = TRUE
    /\ UNCHANGED <<eventVars, proxy, disabled, received, hard, rel, depth, userVars, rpc>>

Interrupt ==
    /\ asserting /\ proxy = "listening" /\ depth = 0 /\ hard = "none"
    /\ hard' = "set"
    /\ UNCHANGED <<eventVars, proxy, disabled, received, rel, lineVars, userVars, rpc>>

HandlerSet ==
    /\ \/ /\ hard = "set" /\ Event!SetFlag(irq)
          /\ hard' = IF spinlock' = irq THEN "wake" ELSE "disable"
       \/ hard = "wake" /\ Event!SetWake(irq) /\ hard' = "disable"
    /\ UNCHANGED <<proxy, disabled, received, rel, lineVars, userVars, rpc>>

HandlerDisable ==
    /\ hard = "disable"
    /\ depth' = depth + 1
    /\ hard' = "mark"
    /\ UNCHANGED <<eventVars, proxy, disabled, received, rel, asserting, userVars, rpc>>

HandlerMark ==
    /\ hard = "mark"
    /\ disabled' = TRUE
    /\ hard' = "none"
    /\ UNCHANGED <<eventVars, proxy, received, rel, lineVars, userVars, rpc>>

-----------------------------------------------------------------------------
(* os_irq_thread and osal_irqproxy_read *)

(* A read of a file that is closed already fails, and the loop goes round. *)
ReaderLoop ==
    /\ rpc = "loop" /\ (fd => file = "open")
    /\ rpc' = IF fd THEN "entry" ELSE "exited"
    /\ UNCHANGED <<eventVars, proxy, disabled, received, hard, rel, lineVars, userVars>>

(* Mutated: the note that the irq is disabled stays when it is enabled. *)
ReadEntryKeepNote ==
    /\ rpc = "entry"
    /\ IF disabled
       THEN rpc' = (IF received = 1 THEN "enable" ELSE "return") /\ received' = 1
       ELSE rpc' = "call" /\ UNCHANGED received
    /\ UNCHANGED <<eventVars, proxy, disabled, hard, rel, lineVars, userVars>>

(* Mutated: a read that was interrupted goes on failing. *)
ReadEntryFail ==
    /\ rpc = "entry"
    /\ IF disabled /\ received = 1
       THEN disabled' = FALSE /\ rpc' = "enable"
       ELSE rpc' = (IF disabled THEN "return" ELSE "call") /\ UNCHANGED disabled
    /\ UNCHANGED <<eventVars, proxy, received, hard, rel, lineVars, userVars>>

ReadEntry ==
    /\ rpc = "entry"
    /\ IF disabled /\ received = 1
       THEN disabled' = FALSE /\ rpc' = "enable" /\ UNCHANGED received
       ELSE /\ IF disabled
               THEN received' = 1 /\ rpc' = "return"
               ELSE rpc' = "call" /\ UNCHANGED received
            /\ UNCHANGED disabled
    /\ UNCHANGED <<eventVars, proxy, hard, rel, lineVars, userVars>>

ReadEnable ==
    /\ rpc = "enable"
    /\ depth' = depth - 1
    /\ rpc' = "call"
    /\ UNCHANGED <<eventVars, proxy, disabled, received, hard, rel, asserting, userVars>>

(* Mutated: the read waits until there is an interrupt. *)
ReadCallForever ==
    /\ rpc = "call" /\ Event!CallWait(reader, [Read EXCEPT !.ms = "forever"])
    /\ rpc' = "wait"
    /\ UNCHANGED <<proxy, disabled, received, hard, rel, lineVars, userVars>>

ReadCall ==
    /\ rpc = "call" /\ Event!CallWait(reader, Read)
    /\ rpc' = "wait"
    /\ UNCHANGED <<proxy, disabled, received, hard, rel, lineVars, userVars>>

ReadWait ==
    /\ rpc = "wait" /\ Event!Waiting(reader)
    /\ IF pc'[reader] = "idle"
       THEN /\ received' = IF Event!Outcome(reader) = "OSAL_SUCCESS" THEN 1 ELSE 0
            /\ rpc' = "return"
       ELSE UNCHANGED <<received, rpc>>
    /\ UNCHANGED <<proxy, disabled, hard, rel, lineVars, userVars>>

(* The read returns 0 or -EINTR; if the file was closed meanwhile, the return
   of its last user releases it first. *)
ReadReturn ==
    /\ rpc = "return" /\ rel = "none"
    /\ IF file = "closed"
       THEN rel' = "free_irq" /\ file' = "none" /\ UNCHANGED rpc
       ELSE rpc' = (IF received = 1 THEN "irqfunc" ELSE "loop") /\ UNCHANGED <<rel, file>>
    /\ UNCHANGED <<eventVars, proxy, disabled, received, hard, lineVars, fd, irqfunc, upc>>

(* The driver's interrupt function makes the device stop asserting the line. *)
IrqFunc ==
    /\ rpc = "irqfunc"
    /\ asserting' = FALSE
    /\ rpc' = "loop"
    /\ UNCHANGED <<eventVars, proxy, disabled, received, hard, rel, depth, userVars>>

-----------------------------------------------------------------------------
(* os_register_top_half and os_unregister_top_half of user space *)

(* osal_irqproxy_open: the file's private_data, its proxy, is NULL. *)
OsalIrqproxyOpen == proxy' = "none" /\ file' = "open"

Open(function) ==
    /\ upc = "out"
    /\ OsalIrqproxyOpen
    /\ fd' = TRUE /\ upc' = "write" /\ irqfunc' = function
    /\ UNCHANGED <<eventVars, disabled, received, hard, rel, lineVars, rpc>>

OsAcquireInterrupt == Open("irqhandler")

(* The top handler is ignored; without a bottom handler there is no interrupt. *)
OsAcquireSharedInterrupt == Open("bottom_handler")

(* osal_irqproxy_write makes the proxy and registers its handler *)
Write ==
    /\ upc = "write"
    /\ Event!OsEventCreate(FALSE)
    /\ proxy' = "listening" /\ disabled' = FALSE /\ received' = 1
    /\ upc' = "start"
    /\ UNCHANGED <<hard, rel, lineVars, file, fd, irqfunc, rpc>>

(* ... or fails, and the file that is closed has no proxy to release. *)
WriteFail ==
    /\ upc = "write"
    /\ file' = "none" /\ fd' = FALSE /\ irqfunc' = "NULL" /\ upc' = "out"
    /\ UNCHANGED <<eventVars, proxy, disabled, received, hard, rel, lineVars, rpc>>

StartThread ==
    /\ upc = "start"
    /\ rpc' = "loop" /\ upc' = "in"
    /\ UNCHANGED <<eventVars, proxy, disabled, received, hard, rel, lineVars, file, fd, irqfunc>>

(* close: the caller releases the file unless a read of it is in progress. *)
Close(from, to) ==
    /\ upc = from /\ upc' = to
    /\ IF rpc \in {"none", "loop", "irqfunc"}
       THEN file' = "none" /\ rel' = "free_irq"
       ELSE file' = "closed" /\ UNCHANGED rel
    /\ UNCHANGED <<eventVars, proxy, disabled, received, hard, lineVars, fd, irqfunc, rpc>>

StartFail == Close("start", "error")
OsReleaseInterrupt == irqfunc = "irqhandler" /\ Close("in", "closing")
OsReleaseSharedInterrupt == irqfunc = "bottom_handler" /\ Close("in", "closing")

Closed ==
    /\ upc \in {"closing", "error"} /\ (file = "closed" \/ rel = "none")
    /\ upc' = IF upc = "closing" THEN "setfd" ELSE "out"
    /\ fd' = (fd /\ upc = "closing")
    /\ irqfunc' = IF upc = "closing" THEN irqfunc ELSE "NULL"
    /\ UNCHANGED <<eventVars, proxy, disabled, received, hard, rel, lineVars, file, rpc>>

SetFd ==
    /\ upc = "setfd"
    /\ fd' = FALSE /\ upc' = "join"
    /\ UNCHANGED <<eventVars, proxy, disabled, received, hard, rel, lineVars, file, irqfunc, rpc>>

Join ==
    /\ upc = "join" /\ rpc = "exited"
    /\ rpc' = "none" /\ upc' = "out" /\ irqfunc' = "NULL"
    /\ UNCHANGED <<eventVars, proxy, disabled, received, hard, rel, lineVars, file, fd>>

-----------------------------------------------------------------------------
(* osal_irqproxy_release *)

(* Mutated: a handler that is still running is not waited for. *)
ReleaseNoSync ==
    /\ rel = "free_irq"
    /\ proxy' = "deaf" /\ rel' = "test"
    /\ asserting' = FALSE
    /\ UNCHANGED <<eventVars, disabled, received, hard, depth, userVars, rpc>>

ReleaseFreeIrq ==
    /\ rel = "free_irq" /\ hard = "none"
    /\ proxy' = "deaf" /\ rel' = "test"
    /\ asserting' = FALSE      \* nobody is left who would hear the device
    /\ UNCHANGED <<eventVars, disabled, received, hard, depth, userVars, rpc>>

(* disabled || os_event_wait(&irqproxy->event, 0) == OSAL_SUCCESS *)
ReleaseTest ==
    /\ rel = "test"
    /\ IF disabled
       THEN rel' = "enable" /\ UNCHANGED eventVars
       ELSE rel' = "poll" /\ Event!CallWait(closer, Poll)
    /\ UNCHANGED <<proxy, disabled, received, hard, lineVars, userVars, rpc>>

ReleasePoll ==
    /\ rel = "poll" /\ Event!Waiting(closer)
    /\ rel' = IF pc'[closer] # "idle" THEN "poll"
              ELSE IF Event!Outcome(closer) = "OSAL_SUCCESS" THEN "enable" ELSE "destroy"
    /\ UNCHANGED <<proxy, disabled, received, hard, lineVars, userVars, rpc>>

ReleaseEnable ==
    /\ rel = "enable"
    /\ depth' = depth - 1
    /\ rel' = "destroy"
    /\ UNCHANGED <<eventVars, proxy, disabled, received, hard, asserting, userVars, rpc>>

ReleaseDestroy ==
    /\ rel = "destroy"
    /\ Event!OsEventDestroy
    /\ proxy' = "none" /\ rel' = "none"
    /\ UNCHANGED <<disabled, received, hard, lineVars, userVars, rpc>>

-----------------------------------------------------------------------------
Hard == HandlerSet \/ HandlerDisable \/ HandlerMark

Reader ==
    \/ ReaderLoop \/ ReadEntry \/ ReadEnable \/ ReadCall \/ ReadWait \/ ReadReturn
    \/ IrqFunc

Release ==
    \/ ReleaseFreeIrq \/ ReleaseTest \/ ReleasePoll \/ ReleaseEnable \/ ReleaseDestroy

Timer ==
    /\ \E w \in {reader, closer} : Event!Expire(w) \/ Event!Handler(w)
    /\ UNCHANGED <<proxy, disabled, received, hard, rel, lineVars, userVars, rpc>>

SignalReader ==
    /\ Event!Signal(reader)
    /\ UNCHANGED <<proxy, disabled, received, hard, rel, lineVars, userVars, rpc>>

Unregister == Closed \/ SetFd \/ Join

Next ==
    \/ Raise \/ Interrupt \/ Hard
    \/ Reader \/ Timer \/ SignalReader
    \/ OsAcquireInterrupt \/ OsAcquireSharedInterrupt
    \/ Write \/ WriteFail \/ StartThread \/ StartFail
    \/ OsReleaseInterrupt \/ OsReleaseSharedInterrupt \/ Unregister
    \/ Release

(* The irq thread has the highest priority and runs whenever it can, timers
   expire, an enabled asserted line interrupts, and calls that are begun end. *)
Fairness ==
    /\ WF_vars(Interrupt) /\ WF_vars(Hard)
    /\ WF_vars(Reader) /\ WF_vars(Timer)
    /\ WF_vars(Release) /\ WF_vars(StartThread) /\ WF_vars(Unregister)

Spec == Init /\ [][Next]_vars /\ Fairness

-----------------------------------------------------------------------------
(* disable_irq_nosync in the handler and enable_irq in read and release are
   paired through the flag `disabled', which handler and read both write
   without a lock: nobody enables an irq that is not disabled, *)
EnableIsBalanced == rpc = "enable" \/ rel = "enable" => depth = 1

(* and a proxy that is gone has not left the shared line disabled. *)
LineLeftEnabled == proxy = "none" => depth = 0 /\ hard = "none"

(* While an irq thread reads, a disabled irq is noted as such, so that a later
   read will enable it, or the handler is about to make the note. *)
DisabledIsNoted ==
    proxy = "listening" /\ depth = 1 => disabled \/ hard = "mark" \/ rpc = "enable"

Serving == upc = "in"

(* Every interrupt reaches the user-space interrupt function, whatever reads
   were interrupted by signals, timed out, or raced with the handler, *)
InterruptDelivered == (asserting /\ Serving) ~> (~asserting \/ ~Serving)

(* the irq does not stay disabled, *)
IrqReenabled == (depth = 1) ~> (depth = 0)

(* and os_unregister_top_half returns: no read outlasts its timeout. *)
UnregisterReturns == (upc = "closing") ~> (upc = "out")
=============================================================================
