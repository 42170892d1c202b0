# A TLA+ verification of OSAL for Linux

OSAL is an operating system abstraction layer.  Drivers and programs written
against the interface in `include/` run in the Linux kernel
(`linux_kernel/`) and in user space (`linux_user/`).  Little of its code is an
algorithm; most of it is a protocol between threads, interrupt handlers, timers
and the objects they share.  The specifications here model those protocols step
by step, at the points where another thread can get in between.

* [What the system consists of](#what-the-system-consists-of)
* [The modules](#the-modules)
* [The runs](#the-runs)
* [Fairness](#fairness)
* [Where code and documentation disagree](#where-code-and-documentation-disagree)
* [The proofs](#the-proofs)
* [What is not modelled](#what-is-not-modelled)
* [Plan](#plan)

Paths are relative to the repository's root.

## What the system consists of

| Component | State | Operations | What is hard about it |
|---|---|---|---|
| **User-space semaphore** `linux_user/src/osal_sema.c` | count, mutex, condition variable, static-initialisation flag; a `fast_mutex` for all semaphores | init, init_pre_inited, get, put, destroy | `put` signals after it has released the mutex; several threads initialise a static semaphore at once |
| **Kernel semaphore** `linux_kernel/src/osal_sema.c` | the kernel's `struct semaphore` and the same flag | the same and tryget | static initialisation while others use it |
| **Locks** `linux_kernel/src/osal_lock.c`, `osal_irqlock.c`, `linux_user/src/lock.c`, `osal_irqlock.c` | one semaphore, mutex or spinlock; for irq locks the caller's saved interrupt state | create, init, lock, try, unlock, destroy | two allocations; destroying a lock that is held; interrupts off while nested locks are held, and back on |
| **Kernel event** `linux_kernel/src/osal_event.c` | flag and manual-reset mode under a spinlock, wait queue with a lock of its own, a timer on the waiter's stack | create, set, reset, wait, hardwait, destroy | flag and queue are not read together; the timer's handler outlives the wait; signals; an expiry wakes everybody |
| **User-space event** `linux_user/src/osal_event.c` | flag, mutex, condition variable, count of waiters | the same | one `pthread_cond_wait` without a loop; set wakes one of several |
| **Kernel interrupts** `linux_kernel/src/osal_irq.c`, first part | per driver: `pending`, a kthread, the registered top half; per line: the chip's mask bit | acquire, release, top half, kthread | top half against thread; drivers share the mask; release against both |
| **Shared interrupts** the part after it | per driver an `os_irq_t` and Linux's interrupt thread | acquire_shared, release_shared, both handlers | release against handlers in progress; the bottom handler that was asked for |
| **irqproxy** the rest of that file, `linux_user/src/osal_irq.c` | per open file: event, `disabled`, `received`; in user space: fd and the irq thread | open, write (register), read (wait), release; register and unregister | flag and irq depth change without a lock, in the handler and in read; close against a read in progress |
| **Kernel thread** `linux_kernel/src/osal_thread.c` | state, callback, priority, `kill_event` | create, wait, exit, destroy, priorities | an auto-reset event tells the owner that the thread has ended |
| **User-space thread** `linux_user/src/osal_thread.c` | state, osd.state, a mutex and condition variable for the suspended start | create, resume, suspend, get_state, wait, exit, destroy, terminate, priorities | state is read and written with and without the mutex; asynchronous cancellation |
| **User-space PCI** `linux_user/src/osal_pci.c` | a handle with the device's address and interrupt; the kernel's listing in `/proc/bus/pci` | find first and next by id or class, device of an address, interrupt, configuration reads and writes | devices come and go between and during searches; a file per access, with an early return at each step |
| **Kernel PCI** `linux_kernel/src/osal_pci.c` | Linux's `struct pci_dev` and its reference count | the same, and enable_device | references over a chain of searches |
| **Firmware** `osal_firmware.c` (both), `linux_kernel/src/osal_linux_driver.c`, `scripts/osal_fw_hotplug.sh` | the context's image; the driver's device; in the kernel, a request in sysfs | request, release; module entry and exit | a protocol with a script, which may be late |
| **List** `linux_user/include/os/osal_list.h`, the kernel's | pointers | init, add, delete, iterate | deleting under an iteration |
| **Trace** `osal_trace.c` (both) | levels per subsystem, a `static` severity, a threshold | init, deinit, trace, print | the severity is one variable for all threads |
| **Clock, alarms, sleep** `osal_clock.c`, `include/os/osal_clock.h`, `osal_sched.h` (both) | none | stamp, difference, alarm, sleep | units, overflow, wrap-around |
| **Memory mapping** `raw/memmap.c` (both) | the page table | map, unmap | arithmetic at page boundaries, in signed integers |
| Memory helpers, version, port I/O, characters | none | wrappers | |

How they interact: the irqproxy and the kernel thread each contain a kernel
event and are driven by it; the kernel's `os_lock_t` contains a kernel semaphore;
user-space interrupts are a user-space thread that reads the irqproxy device; the
module's entry and exit set up irqproxy and firmware; PCI and the drivers
above use interrupts; everything else is independent of one another.

What makes each part correct, in one line each:

* A semaphore gives out as many permits as were put, and no getter sleeps while
  there is a permit that nobody has been woken for.
* A lock has one holder at a time, thread or interrupt handler, and a free lock
  that is wanted is taken; interrupts are off while an irq lock is held, and no longer.
* An event that is set releases the tasks that wait for it, a wait ends for a
  reason, and what a wait has started (its timer) ends with it.
* An interrupt that is taken is handled; a line is not left masked or disabled;
  what a release frees is no longer used by handler or thread.
* Waiting for a thread returns, and not before the thread is done with the
  object; joining happens once.
* A search of devices ends and has returned every device that was there; what is
  read or written is the device's, and all of it; a handle is of a live device.
* A firmware request is answered, and if it succeeds, with the whole image; its
  memory is freed once.
* A loop over a list is at each node; a mapping leads to its memory; times and
  messages are what they are said to be.

The list of hazards in `PROJECT.json` names, line by line, where these
could go wrong and which property would notice.

## The modules

| Module | Models | Composes |
|---|---|---|
| `Semaphore` | what the header promises of a semaphore, with fairness | |
| `Lock` | what the headers promise of a lock, with fairness | |
| `Event` | what the header promises of an event | |
| `OsalSemaUser` | the user-space semaphore | implements `Semaphore` |
| `OsalSemaKernel` | the kernel semaphore | implements `Semaphore` |
| `OsalLockKernel` | the kernel's `os_lock_t` | `OsalSemaKernel`; implements `Lock` |
| `OsalMutex` | the locks that are one mutex: the three of user space, the kernel's `os_mutex_t` | implements `Lock` |
| `OsalIrqlockKernel` | the kernel's irq locks, tasks and handlers | implements `Lock`, per lock |
| `OsalEventKernel` | the kernel event | implements `Event` |
| `OsalEventUser` | the user-space event | implements `Event` |
| `OsalInterruptKernel` | acquire and release, top half and kthread, for any number of drivers on one line | |
| `OsalSharedInterrupt` | shared interrupts with Linux's threaded handlers | |
| `OsalIrqProxy` | the proxy driver, the irq thread and the registering process | `OsalEventKernel` |
| `OsalThreadKernel` | a kernel thread and its owner | `OsalEventKernel` |
| `OsalThreadUser` | a pthread, its owner and a client | |
| `OsalPciUser` | the device searches of user-space PCI, and a program that enumerates | |
| `OsalPciKernel` | the searches of kernel PCI with their references, and os_pci_enable_device | |
| `OsalPciConfig` | the configuration accesses of both, and the layout of the header | |
| `OsalFirmware` | firmware on both sides, the script, the module's entry and exit | |
| `OsalList` | the list and its loops | |
| `OsalMemmap` | mapping and unmapping on both sides | |
| `OsalClock` | stamps, alarms and sleep of both sides | |
| `OsalTrace` | the filter, the severity and the thresholds | |
| `*_proofs` | theorems about the module they are named after, an instance with the constants left open | |
| `MCSyncUser` | components side by side | `OsalSemaUser`, `OsalEventUser` |
| `MCThreading` | components side by side | `OsalSemaKernel`, `OsalLockKernel`, `OsalMutex`, `OsalIrqlockKernel`, `OsalThreadKernel`, `OsalThreadUser` |
| `MCDevices` | components side by side | `OsalPciUser`, `OsalFirmware`, `OsalSharedInterrupt` |
| `MCLibrary` | components side by side | `OsalPciUser`, `OsalPciKernel`, `OsalPciConfig`, `OsalList`, `OsalMemmap`, `OsalClock`, `OsalTrace` |
| the other `MC*` | instances of the module they are named after | |

The four collecting instances put components that share no state side by side.
Their variable `part` says which of them an execution is of; it is chosen in
`Init` and never changes, so that the behaviours are those of the components, one
after the other, and no interleaving of independent components is explored.  What
a component may begin with in more than one way is fixed while another is the part.
Where two components promise the same thing, as the locks do, one property of
the instance states it for all of them.

Variables carry the names of the fields they stand for (`signaled`,
`manual_reset`, `pending`, `disabled`, `received`, `osd_state` ...), and actions
those of the functions.  A function in which others can interfere is a sequence
of actions, one per critical section or per access to shared state; a program
counter per task (`pc`, `kpc`, `tpc`, `rpc`, `upc`, and `top`, `hard`, `rel` for
handlers) says where it is.  The `map` in `PROJECT.json` gives the lines of each
definition.  An operator whose comment begins with "Mutated:" belongs to no
specification: it is what the definition below it would be with a plausible bug,
kept to show that the properties notice.

**`OsalSemaUser`.**  Taking the mutex and the first thing done under it are one
action (nobody else can look before the mutex is released); releasing it is the
next, and the signal of `os_sema_put` a third.  A semaphore is either static
(every user calls `os_sema_init_pre_inited` first, at any time) or dynamic
(created and destroyed while nobody is inside a call).

**`OsalEventKernel`.**  `prepare_to_wait`, the check of the flag, the arming of
the timer, going to sleep, waking, `finish_wait` with `del_timer`, and the final
reset are separate actions, as are the flag and the wake-up of `os_event_set`.
The handler of a timer has two steps, its mark and its wake-up, and may still be
at either when the wait that armed it has returned (`stale`): then it writes to
or reads from a stack frame that is gone or has been used again, and the model
allows every outcome of that which the code's frames make possible: the mark may
hit the next wait's mark or nothing, the wake-up may happen or not (`ClearTimeout`,
`TimedOut`).  `seen` is history: what has happened during a call that could end it.

**`OsalEventUser`.**  Critical sections are single actions; an expiry or a
wake-up of `pthread_cond_(timed)wait` takes a waiter off the queue, and its
return with the mutex is an action of its own.

**`OsalInterruptKernel`.**  One run of handlers per line calls the registered
top halves in any order.  The top half has three steps (mask, mark, wake), the
kthread eight, acquire and release one for every call they make to the kernel.
`request_irq` and `kthread_run` may fail.  `abandoned` is history: a release has
cleared a mark the thread had not yet acted on, which leaves a shared line masked;
`MaskedIsOwed` and `InterruptHandled` are about the other executions.

**`OsalIrqProxy`.**  The handler's `os_event_set`, `disable_irq_nosync` and note
are separate steps, and so are read's test-and-clear of the note, its
`enable_irq` and the wait, whose steps are those of `OsalEventKernel`.  A file
that is closed while a read is in progress is released when the read returns, by
the reading thread.

**`OsalSharedInterrupt`.**  An interrupt calls each driver that was on the line
when it began; the wrapper translates the top handler's answer; Linux's thread
runs the bottom handler once however often it was woken, after it has tried to
raise its priority (`inited`).  Releasing is leaving the line, waiting for what
is in progress, and freeing, in three steps.  `work` is history: a bottom handler
is owed.

**`OsalSemaKernel`.**  `down` gives the caller a permit or a place at the end of
the list, `up` gives the permit to the head of the list or counts it: a
sleeper's permit is never up for grabs.  Static initialisation is as in user
space, with a spinlock.

**`OsalLockKernel`, `OsalMutex`, `OsalIrqlockKernel`.**  The first uses the steps
of `OsalSemaKernel` with one permit, behind the two allocations of
`os_create_lock`.  The second has one action per function of each of the four
interfaces, which differ in who may fail and in what they tell the caller; all
of them are the mutex.  In the third a processor runs a task and, while its
interrupts are on, may run a handler instead; acquire saves the interrupt state
and turns interrupts off before it spins.  The program nests locks in one order.

**`OsalThreadKernel`.**  `kill_event` is the whole event of `OsalEventKernel`
with the owner as its only waiter and the thread as its only setter.  The thread
sets its priority itself, after it has started.

**`OsalThreadUser`.**  The thread may act on a cancellation anywhere
(`PTHREAD_CANCEL_ASYNCHRONOUS` is what the wrapper sets), also with the mutex
held, which nobody then unlocks.  `os_thread_suspend` and `os_thread_get_state`
change nothing and are operators.

**`OsalPciUser`.**  The bus is a kind of device per slot and the order in which
`/proc/bus/pci/devices` lists them; devices come and go at any time.  A search
reads the file when it opens it and then takes one line per step; what stands
for the vendor and device, or for the class, is the device's kind.  The search
by id believes the line, the one by class asks the device.  Addresses are
numbers, composed and taken apart as the macros do.  `disturbed` is history: it
is set by what an enumeration is not made for (see `EnumerationComplete`).

**`OsalPciKernel`.**  Two tasks search, the program and a call of
`os_pci_enable_device`; Linux removes devices at any time and frees them with
their last reference.  `handles` counts what the program has, `forgotten` what it
has given to `os_pci_free_device`, which drops no reference.  Also the device that
a search stands at may be removed, between two steps of the loop of
`os_pci_enable_device` for one.  The search still has its reference and reads its
id; Linux then finds no more or begins again with the first device, and both are
alternatives of `PciGet`.  `strayed` is history: a search has ended in the first of
these ways.

**`OsalPciConfig`.**  A user-space access is opening, seeking, the transfer and
closing; the device may be unplugged and another plugged in between (`swapped`,
history).  The content is one different number per byte.  The layout of
`os_pci_dev_header_t` follows from the sizes of its members and the compiler's
alignment, compared register by register.

**`OsalFirmware`.**  A request in the kernel is one entry in sysfs, always under
the same name.  Scripts run independently of the requests that started them: what
one writes reaches whatever request is there.  A buffer's content is the set of
images that were written to it.

**`OsalList`.**  `next` and `last` are functions on nodes; `members` is the list
as a sequence, as history.  A loop is at a node (`entry`), and the safe loop has
read the next one already.  The nodes that a loop has to be at are `due`.

**`OsalMemmap`.**  The page table is a function; what a program was given is a set
of regions.  Addresses wrap at `Word` and go through signed integers as in the
code.  The tables of cards are the code's, in its order.

**`OsalClock`.**  Time passes in microseconds; ticks, seconds and alarms are
computed from it with the widths of the code's types.  Stamps of both sides are
taken together and compared with the time that has passed.  A sleep ends when it
is due: time does not pass it over, and `slept` keeps how long it took.  How much
later its task gets the processor is the scheduler's affair and not in the model.

**`OsalTrace`.**  Reading the severity, writing it back and sending the message
are three steps of a thread.

### What the models take from outside the repository

* Linux: `wake_up` makes all queued tasks runnable; `schedule` returns when the
  task is runnable, or has a signal and sleeps interruptibly; `del_timer` does
  not wait for a running handler; handlers of one line do not run at the same
  time; `free_irq` waits for a handler run in progress; `kthread_stop` sets a
  flag, wakes once and waits; `disable_irq` counts; a mask that a top half has
  set at the chip is not undone by the flow handler when the top half returns.
* POSIX: a condition wait may return without a signal; a signal wakes one of the
  queued threads; a cancelled condition wait takes the mutex first; using the id
  of a joined thread is undefined.
* Linux, for locks: a semaphore's `up` hands its permit to the longest sleeper;
  spinlocks are served in order; an interrupt handler runs with its processor's
  interrupts off.
* Linux, for devices: `request_threaded_irq` runs a thread once per series of
  wake-ups; `request_firmware` makes one entry per name in sysfs, which `echo 1`
  empties, `echo 0` completes and anything else, or a timeout, gives up;
  `pci_get_device` and its like take a reference and drop that of the device
  they go on from; from one that has been removed they find no more (before
  Linux 2.6.28) or begin again with the first device (since 3.9).
* Linux, for memory and time: `mmap` and `ioremap` map whole pages at a free
  place; `jiffies` wraps; `msecs_to_jiffies` rounds up; the wall clock may be set.
* `/proc/bus/pci`: devices are listed in the order in which the kernel found them,
  the listing is read in one piece, and a device's configuration file exists
  while it is plugged.
* The environment keeps to the headers: no call on an object that is not
  initialised, no destroy while a call is in progress (a mutex that refuses it
  may be destroyed while it is held), and in the kernel thread's
  model a wait before a destroy.

## The runs

| Run | Instance | Shows |
|---|---|---|
| `event_kernel` | 2 waiters (one polls and waits with a timeout, one waits for ever, interruptibly or not), 1 setter | `NoSleepWhileSignaled`; flag, queue and timers implement `Event`: a set is kept or seen by all who wait, what a wait returns has a reason; a set releases everybody inside a wait, a timed wait returns |
| `sync_user` | semaphore: 3 threads, count at most 2; event: 3 waiters, every kind of timeout | `NoLostWakeup`, `MutualExclusion`; the protocol implements `Semaphore`, liveness included; an auto-reset event is never left set with sleepers and nobody woken, and is taken in the end; the protocol implements `Event`: a wait that succeeds was woken by a set or spuriously, one without a timeout never times out |
| `interrupt_kernel` | 2 drivers on one line | no thread sleeps through its interrupt, nothing freed is used, the shared mask is cleared in the end, interrupts are handled |
| `irq_proxy` | 1 device, 1 reader, 1 registering process | disable and enable are paired, the line is left enabled, interrupts reach user space, unregistering returns |
| `threading` | semaphores and locks with 3 threads, count at most 2; 2 processors with 2 irq locks; a thread of each side with its owner, and in user space a client | semaphore and locks implement their specifications, liveness included; `LockMemory`, `IrqsRestored`; the first wait returns, and when it does the thread is done with the object; cancelled and joined once; a suspended thread starts for a named reason, a resume is not lost, destroy returns |
| `devices` | PCI with 2 slots; firmware with 2 drivers, 2 scripts and 2 buffers; a line with 2 drivers | an enumeration ends; a firmware request is answered, and a buffer has one owner and the whole image; handlers find their `os_irq_t` alive, and a bottom handler that was asked for runs |
| `library` | PCI of both sides with 3 devices; accesses at 60, 254 and 257 of a configuration space; a list of 3 nodes; 16 pages of 4 bytes; a clock of 4 microseconds to the millisecond; 2 tracing threads | an undisturbed enumeration finds every device that stayed and nothing else; a handle's device, and the one `os_pci_enable_device` is at, are not freed even when they are removed; an access that succeeds moved what it should; loops are at each node; mappings are exact; times are right within what the clock can tell apart, and alarms and sleeps are due on time, sleeps in the unit that their side takes; the severity of a message comes from somebody |
| `event_phantom`, `interrupt_stop`, `thread_exit`, `pci_interrupt`, `sleep_units` | the kernel event as above; 1 driver; 1 kernel thread; PCI with 3 slots; the clock alone (`MCClock`), sleeping for a tick | the five disagreements below |

Every module has a type invariant `TypeOK`.  Most are proved, alone or within an
inductive invariant; the runs spend their time on the other properties.

**Why these bounds.**  The races of the semaphore need a sleeping getter, a
second getter and a putter: three threads.  A count of two lets one permit be
signaled and another not.  The kernel event needs two waiters so that one's
timer, or one's consumption of the flag, meets the other's wait; setters exclude
each other with the spinlock for the whole of `os_event_set`, so a second one
adds no interleaving.  The user-space event needs one waiter to be woken, one to
come late and take the flag, and one to be left asleep.  Two drivers are what it
takes to share a line: a mask set by one and cleared by the other; the theorems
of `OsalInterruptKernel_proofs` hold for any number, as do those of the other
`*_proofs` for threads, processors, locks, drivers, scripts, devices and nodes.

Two processors and two locks make a task spin with its interrupts off, hold one
lock and want another, and be interrupted by a handler that wants either;
`ImplementsLock` watches one of the two locks, chosen at the start.  Priorities
are one that is not real-time, the highest, and one that is out of range.

Two scripts are one that is late and one whose request it disturbs; two buffers
are one that is held and one for a second request.  Two slots let a device be
found, unplugged and replaced while the other is listed (`EnumerationEnds`);
three are a device to start from, one to find next, and one that comes or goes,
on two buses so that the addresses differ in more than one field.
Configuration offsets are the last register an ordinary user sees, one that an
access of four bytes crosses the end of the file from, and one past it.

Three nodes are a node with a neighbour on each side.  Sixteen pages leave room
for two mappings of two pages at addresses at and inside a page, below and above
the middle of the address space, where the int is negative.  The clock's units
are small so that `jiffies` wraps (`FirstTick` is shortly before it), seconds
and ticks begin at different times, and products overflow `Word` (16) within
the bound.

All calls, timeouts, signals, resets and repetitions of acquire/release are
unbounded.  What is bounded is named in the modules: `MaxCount` (no further puts
are called), `MaxHandles` (the handles a program was given to one device; a search
of `os_pci_enable_device` is not bounded), `MaxRegions`, `Scripts`, `Buffers` (no further
requests are made), `MaxBegin` and `MaxTime` (of the clock), and that a device of
`OsalPciKernel` is plugged once.

**Deadlock.**  The cfgs that say `CHECK_DEADLOCK FALSE` are those of systems that
may stop: an interrupt release whose stop races with the thread; a thread that
waits for a lock whose holder keeps it, a second time for a kernel thread, for
one that could not be started, for the mutex of a cancelled pthread, or for a
suspended one; a driver whose exit has failed; and the parts of `library`
whose bounds are reached.

**Mutants.**  Every property of a passing run comes with a mutated definition
under which TLC finds it violated: a wake-up left out, `if` for `while`, an event
forgotten at destroy, two steps swapped, a guard not looked at.

## Fairness

In a collecting instance only one part is ever enabled, so a fairness condition
there is about a disjunction of one step of each part: in the executions of a
part it is the condition of that part's own `Fairness`.

* A thread that can take a step inside a call it has begun takes it (weak
  fairness): the schedulers of both systems guarantee that to runnable threads.
  No fairness is assumed of starting a call, of signals, of spurious wake-ups, of
  devices, or of failures.
* Where a thread may find a lock taken each time it looks, its fairness is
  strong: kernel spinlocks are ticket locks (`OsalEventKernel`), and the user-space
  thread's mutex is contended by at most three threads that each hold it for a few
  instructions (`OsalThreadUser`).  `OsalSemaUser` gets by with weak fairness:
  its liveness says that some getter is served, not which.
* An armed timer expires and a running handler finishes.
* Whoever holds a lock releases it, however often it takes others meanwhile
  (`ImplementsLock`): a lock that is kept is nobody's fault but the program's.
  Handlers of `OsalIrqlockKernel` return.  Spinning for a spinlock is strongly
  fair, as they are served in order.
* Firmware scripts run to their end, and Linux's interrupt threads run; Linux
  need not lose patience with a request.
* An enabled line that is asserted interrupts, and a handler that has begun ends.
* A search that has begun goes on, and a program that has found a device asks for
  the next one or frees it (`EnumerationEnds`): without that an enumeration ends
  when the program likes.
* The function of a thread ends (`FirstWaitReturns`, `DestroyReturns`): only then
  does the code promise anything about a wait.
* `UnregisterReturns` assumes that the unregistering thread gets the processor
  between `close` and `fd = -1`, although the irq thread, with a real-time
  priority, spins on a failing read meanwhile.  On one processor the code does
  not guarantee it; the hazard list says so.

## Where code and documentation disagree

Each of these is a run that TLC ends with a counterexample.

* **`event_phantom`** (`linux_kernel/src/osal_event.c:77`): the timeout of one
  wait calls `wake_up` for the whole queue; a wait without a timeout returns
  `OSAL_SUCCESS` for any wake-up.  The header says `OSAL_SUCCESS` means "an event
  occurred".
* **`interrupt_stop`** (`linux_kernel/src/osal_irq.c:245`): the wake-up of
  `kthread_stop` falls between the thread's test of `kthread_should_stop` and its
  `prepare_to_wait`.  Thread and release wait for each other, although the comment
  at line 371 expects the thread to wake up and exit.
* **`thread_exit`** (`linux_kernel/src/osal_thread.c:84`): `os_thread_exit` sets
  `kill_event` and returns, so the function goes on, and the wrapper sets the
  event again, perhaps in an object the parent has already destroyed as the header
  tells it to.
* **`pci_interrupt`** (`linux_user/src/osal_pci.c:305`): a handle that was found by
  class, or by address (line 344), has an `irq` that nobody has written;
  `os_pci_get_interrupt` returns it with `OSAL_SUCCESS`, of which the header says
  "returned IRQ is valid".
* **`sleep_units`** (`linux_kernel/include/os/osal_sched.h:100`): the kernel's
  `_OS_SLEEP` gives its argument to `msecs_to_jiffies`, while the header
  (`include/osal_sched.h:65-70`) says that `OS_SLEEP` delays "for the number of
  micro-seconds ( 1/1000000 or a second ) requested", as it does in user space.  A
  sleep in the kernel is a thousand times as long as the header says; in the
  instance, where a millisecond has four microseconds, four times and at most two
  ticks, which the property allows for.

Two more are properties that hold, because they name the exception.  The
user-space event and the wrapper of the user-space thread wait on their
condition variables without a loop, so that a spurious wake-up passes for an
event, or starts a thread that was created suspended (the header: it "does not
commence execution until `os_thread_resume()` is called").  `ImplementsEvent` and
`SuspendedUntilResumed` say that there is no other exception, but one:
`os_thread_terminate` writes the state before it cancels, and a suspended thread
that comes to its test in between runs its function until it is cancelled.

The models have other oddities of the code in them that no run singles out:

* Locks: the kernel's `os_lock`, `os_unlock` and `os_destroy_lock` return 1, where
  `include/osal_lock.h` (lines 74, 88 and 95) has 0 for success; user space's `os_create_lock` ignores what
  `pthread_mutex_init` says; there is no `os_sema_tryget` in user space.
* PCI: `os_pci_free_device` drops no reference in the kernel, so a device that was
  found is never freed; user space reports every configuration file that cannot
  be opened as `OSAL_NOT_FOUND`, and an error after a write that was partly done;
  the layout of the header structure matches the registers only where an
  unsigned long has four bytes.
* Firmware: a second request on a context forgets the first one's buffer; the exit
  unregisters a device whose registration failed, and the entry reports success
  all the same; a late script can complete the next request with the wrong
  image; user space stores the size before an allocation that may fail.
* Threads: `os_thread_suspend` suspends nothing; a resume in user space may write
  `THREAD_ACTIVE` over the `THREAD_INACTIVE` of a thread that has ended meanwhile;
  a new priority is checked against the policy that the thread had inherited;
  the kernel's `os_thread_get_state` returns a value its header does not list.
* Memory mapping: the kernel adds the offset to the NULL of a failed `ioremap`, and
  "below 512MB" includes 512 MB.
* PCI in the kernel: `os_pci_enable_device` returns `OSAL_SUCCESS` also when Linux
  found no more because the device it stood at had been removed, with devices left
  that were not enabled.
* Time: user space's milliseconds are whole seconds; products overflow 32 bits; a
  sleep does not say that a signal has ended it.
* Trace: bits of severity accumulate, and are those of the subsystem's level
  rather than the message's.

## The proofs

Eight modules have theorems, for every value of the constants, checked by TLAPS.
Most are about an invariant: an inductive one, `IInv` or `Inv`, implies it; the
lemma for the steps has a case per action.  The inductive invariants were checked
by TLC on the instances first.  In a collecting instance the invariant of a
component speaks of the executions in which it is the part, or of its variables,
which do not change in the others.

**`OsalSemaUser_proofs`** (assumes: finitely many threads, natural counts).
`IInv` is the type invariant, `WaitQueue` (only threads inside the condition wait
are queued), `InitInv` (who is where in the static initialisation, and that users
exist only once the semaphore is initialised), `MutualExclusion` and
`NoLostWakeup`.  The last is a statement about a cardinality: a put adds one
permit and one thread to `Waking`; a getter that takes a permit leaves `Waking`
or was never in it, which is safe because then it takes a permit without using
a wake-up; a signal replaces one thread in `Waking` by another.  `WaitQueue` is
needed because a signal that hit a thread elsewhere would be lost, `InitInv`
because a second initialisation would empty the queue.
Theorem `Refinement` maps every step to a step of `Semaphore` or a stutter.

**`OsalEventKernel_proofs`** (assumes: the calls are calls, the spinlock's free
value is no setter).  `IInv` adds to the types and `TimerDisarmed`:
`Sleepers` (a task that is not runnable is queued, so that a set finds it; nobody
is inside a call on an event that is not initialised; and `NoSleepWhileSignaled`
also for a task that is still on its way to sleep) and `Causes` (a task that is
about to conclude its wait, or that is runnable again after it has queued itself,
has something in `seen` or a signal; a task that took the flag, and one inside a
call while a set is in progress, have seen a set).  From these follow
`NoSleepWhileSignaled` and `SuccessHasCause`.  Theorem `Refinement` maps every step to
a step of `Event` or a stutter.  It needs `Calling` besides, which ties a task's call
to where the task is, and `Causes` after the step: what `schedule()` returns with is
settled by what has happened before.

**`OsalEventUser_proofs`.**  `NoSleepWhileSignaled` is inductive together with
the types.  `SuccessHasCause` needs `Idle` besides: nobody is inside a wait on an
event that is not initialised, so that no waiter is taken off the queue by a
create.  `Refinement` maps every step to a step of `Event` too; `Reasons` says that
what `pthread_cond_timedwait` is going to return fits the call and the queue.

**`OsalInterruptKernel_proofs`** (assumes: `NoDriver` is no driver).  `IInv` adds
`Lifecycle` (where the thread can be, given where acquire and release are) and
`Owed` (`MaskedIsOwed` inside a handler run as well, except between a top half's
mask and its mark: a masked line with a registered driver has one that is marked
pending or whose thread will unmask it).

**`OsalIrqProxy_proofs`** (assumes: the reader and the closer are two, the irq is
a setter).  Its first lemma is that every step of the proxy is a step of the
kernel event or leaves it alone (`EventIsUsed`).  The theorems of
`OsalEventKernel_proofs` are then those of the event in the driver: an instance,
`Facts`, states them for its two waiters and one setter.  `IInv` adds `Lives`
(who may be in the driver, given where the registering process, the irq thread
and a release are), `Balance` (who has disabled the irq has noted it or is about
to; who has taken the note enables) and `Unread` (the event is signaled only
while somebody is about to take it or to note that the irq is disabled).
`EnableIsBalanced` needs `Unread`, because otherwise a read would return at once,
the next one be called without a note, and the handler run with the irq noted as
disabled.

**`MCThreading_proofs`** (assumes: finitely many threads, natural counts, locks
are positive numbers, `NoThread` is no thread or context, the actors differ).
`Inv` is a conjunction with an invariant per component:

* `IrqlockInv`.  Locks are taken in one order (`Nested`), a lock belongs to whoever
  has it in its list (`Owned`), a task's first lock and no other has found
  interrupts on (`Saved`), and of a processor's task and handler only the one
  that runs has or wants locks (`OneContext`).
  `IrqsRestored` follows for any number of processors and locks.
* `SemaInv`, `KernelLockInv`, `MutexInv`.  Sleepers are queued once, and a permit
  is counted only if nobody is queued (`Queued`); a kernel lock's one permit is in
  the semaphore, on its way to a sleeper or with the holder (`OnePermit`); its
  memory is that of the step that creation is at (`Creation`).
* `KernelThreadInv`.  Every wait of the owner is a hardwait that only a set ends,
  (`Hardwaiting`), and, as long as the function has not called `os_thread_exit`,
  that set is the thread's last act: the flag, the wake-up and the end of a wait
  all come after it (`SetIsLast`).
* `UserThreadInv`.  `NotYetJoined` and `StateIsTrue`: what the two state fields say
  of the pthread, wherever it and the owner are.

`LockRefinement` and `SemaphoreRefinement` map each step of the four lock
implementations and of the kernel semaphore to a step of `Lock` and `Semaphore`
or a stutter.  For the semaphore this is arithmetic with cardinalities: a permit
that `up` gives to the head of the list is the abstract one as long as the
sleeper is in `granted`.

**`MCDevices_proofs`** (assumes: `Nothing` is no driver, buffer, script or image).
`SharedInv`: a driver has its `os_irq_t` while it is on the line, and while an
interrupt or the thread is with it, up to the step of the release that has waited
(`Owned`).  `FirmwareInv`: a request in sysfs is a waiting driver's, and there is
a buffer left for it (`Asked`); a buffer is a context's or was lost by one
(`Held`); and while no script is left of an earlier request, what the request's
own has done is all that was done (`Whole`).

**`MCLibrary_proofs`** (assumes: addresses, classes and levels within their
fields' widths, distinct names for "none", natural offsets; of memory, that a word
is a whole number of pages in both of its halves and that rounded lengths fit in it,
`PageAssumption`; of time, that a tick is a whole number of microseconds,
`TickAssumption`, and that a system's microseconds are below 2^64, and either begin
after the code's epoch of 2002 or do not come that far, `WideAssumption`).

* `TraceInv`: a message that nobody has overlapped finds the severity it has
  written (`Apart`).
* `ListInv`: `Ring` says that `next` and `last` are the sequence `members` in both
  directions, `Walking` that a loop is at a member and that those it has not
  been at are behind the one it will be at next.  Deleting is `RemoveFirst`; the
  lemmas about it say which neighbours a member has afterwards.
* `KernelInv`: the references of a device are the program's handles, those it has
  forgotten and the one of `os_pci_enable_device` (`Counted`), and a search has seen
  every matching device that stayed and is listed before its cursor (`Sought`,
  `Seen`).  Removing devices shifts the listing under the search.  A cursor may be
  at a removed device: it has its reference all the same, from which
  `HandlesStayAlive` follows, and what has been seen is known only while it is
  listed, so that a search that Linux ends there (`strayed`) has no claim to be
  complete.
* `UserInv`: an undisturbed enumeration has found all that it does not come to
  any more (`Searching`, `Holding`): addresses of slots are composed injectively
  and in order, which is arithmetic with the widths of bus, device and function.
* `ConfigInv`: during a call the space is what it was when it began, nothing is
  stored yet, and an open file whose device has not gone away is that device's.
  That the members of `os_pci_dev_header_t` are where the registers are is a
  calculation with constants: `LayoutAssumption` says so of the processor's
  unsigned long, and TLC calculates it for four bytes; it is false for eight.
* `MapInv`: the pages of a mapping lead to consecutive frames (`Entered`), no page
  has two mappings, and a page that leads anywhere is a mapping's (`Covered`).
  Inductive, because a mapping is made where it fits, wherever that is, and because
  what user space unmaps, which it computes from the address it was given, are the
  pages that were mapped (`PagesOfRegion`).  Addresses are split into page and offset;
  the signed int on the way is undone by the wrap-around (`AddressApart`).
* `ClockInv`: a stamp, an alarm and a sleep are those of the time at which they were
  begun (`StampedAt`, `AlarmSet`, `SleepsUntil`), and nobody sleeps past the time at
  which the sleep is due (`NotOverslept`).  `TimesAreRight` follows by arithmetic:
  between two times there are as many ticks as between the ticks they are of, but for
  less than one (`TicksBetween`); a difference of counts that have wrapped is right
  (`WrappedDifference`); a quotient is within one of what it is the quotient of.
  Sleeps have both bounds: the ticks of a kernel sleep are at least its
  milliseconds, and less than two ticks more (`TicksAreEnough`).

`TypeOK`, `InitAlone`, `TimerDisarmed` and `DisabledIsNoted` are theorems and no
longer checked by a run of their own.

Only model-checked:

* everything temporal, as liveness under fairness is outside the prover: the
  leads-to properties, and the fairness of `Semaphore` and `Lock` in
  `ImplementsSemaphore` and `ImplementsLock`;
* what the recursive sum behind `HeaderIsLaidOut` computes;
* the five runs that end with a counterexample.

## What is not modelled

* Inside the modelled files: failures of allocation before any state exists,
  error messages, NULL arguments that are refused at once, the reuse of file
  descriptor numbers, the mixing of both ways of initialising one semaphore,
  malformed lines of the PCI listing; the arithmetic of the user-space event's
  absolute timeout; what `pci_enable_device` and `pci_intx` do to a device; in the
  kernel `os_thread_get_state` and the thread functions that are not implemented
  there.
* What a kernel from 2.6.28 to 3.8 does in a search that goes on from a removed
  device: it follows a pointer that is not valid any more.
* `msecs_to_jiffies` from 2^31 milliseconds on, where it stands for no limit.
* Scheduling priorities: that one is set, and in which order it happens, is
  modelled, but not who runs because of it.
* Trace: the text of messages, the dump of data, backtraces.
* `OS_LIST_ENTRY`, a cast.
* Memory helpers and version, port I/O, type and character helpers: names for
  library functions or single instructions, without state.  A debugging variant of
  the accesses in `linux_user/include/os/osal_io.h` is compiled out.

## Plan

Every component with state of its own has a module, and every invariant that a run
checks is a theorem, as is every refinement, its fairness aside.  What could follow:

1. Liveness for every value of the constants: the leads-to properties and the fairness
   of `Semaphore` and `Lock` are checked on the instances, and no prover at hand
   takes them further.
2. Fairness for `Event`: who is promised to be woken differs between its two
   implementations (all who wait in the kernel, one of them in user space), so that
   `SetReleasesWaiters` and `SetIsTaken` are properties of each.
