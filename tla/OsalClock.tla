------------------------------- MODULE OsalClock -------------------------------
(***************************************************************************)
(* Time stamps and their differences, alarms, and sleep.  In the kernel    *)
(* (os/osal_clock.h, os/osal_sched.h of linux_kernel) a stamp is the count *)
(* of ticks, which wraps around minutes after boot; in user space          *)
(* (osal_clock.c, os/osal_sched.h of linux_user) it is the wall clock's    *)
(* seconds.  Alarms are microseconds of the wall clock in both.            *)
(*                                                                         *)
(* From Linux (not under src/): jiffies, msecs_to_jiffies, which rounds    *)
(* up, schedule_timeout, nanosleep and the wall clock, which may be set.   *)
(***************************************************************************)
EXTENDS Integers

CONSTANTS
    Word,       \* an unsigned long is below it
    Wide,       \* an unsigned long long is below it
    Kilo,       \* 1000: microseconds in a millisecond, milliseconds in a second
    Hz,         \* ticks in a second
    Epoch,      \* 0x3e000000
    FirstTick,  \* what jiffies is at boot
    Starts,     \* what the wall clock may show at boot, in seconds
    Steps,      \* by how many seconds it may be set forward or back
    Times,      \* the times of alarms and sleeps
    MaxBegin,   \* bounds: the microseconds after boot a program has begun by,
    MaxTime     \* and those that a system is up

Second == Kilo * Kilo
Tick == Second \div Hz

VARIABLES
    uptime,     \* in microseconds
    wall,       \* the wall clock, in microseconds, is that much ahead of it
    doing,      \* "none", "stamp", "alarm", "kernel sleep" or "user sleep"
    kernel,     \* the kernel's os_time_t or os_alarm_t, or the tick that ends a sleep
    user,       \* user space's, or the microsecond that ends a sleep
    time,       \* what an alarm or a sleep was asked for
    \* history
    began,      \* when it was begun
    set,        \* the wall clock has been set since
    slept       \* the sleep that has just ended by itself, how long it took, for what

clockVars == <<uptime, wall, doing, kernel, user, time, began, set, slept>>

TypeOK ==
    /\ uptime \in 0..MaxTime /\ wall \in Int
    /\ doing \in {"none", "stamp", "alarm", "kernel sleep", "user sleep"}
    /\ kernel \in 0..(Wide - 1) /\ user \in 0..(Wide - 1) /\ time \in Times \cup {0}
    /\ began \in 0..MaxBegin /\ set \in BOOLEAN
    /\ slept \in [by : {"none", "kernel sleep", "user sleep"}, took : Nat, time : Nat]

Jiffies == (FirstTick + uptime \div Tick) % Word
TvSec == (uptime + wall) \div Second
TvUsec == (uptime + wall) % Second

-----------------------------------------------------------------------------
KernelMsecs(stamp) == ((((Jiffies - stamp) % Word) * Kilo) % Word) \div Hz
KernelSecs(stamp) == ((Jiffies - stamp) % Word) \div Hz
UserSecs(stamp) == (TvSec - stamp) % Word
UserMsecs(stamp) == ((TvSec - stamp) * Kilo) % Word

(* The time of an alarm is multiplied as an unsigned long. *)
KernelNow == (TvSec * Second + TvUsec) % Wide
UserNow == ((TvSec - Epoch) * Second + TvUsec) % Wide
KernelSetAlarm(t) == (KernelNow + ((t * Kilo) % Word)) % Wide
UserSetAlarm(t) == (UserNow + ((t * Kilo) % Word)) % Wide
KernelTestAlarm(a) == ~(KernelNow < a)
UserTestAlarm(a) == UserNow >= a

-----------------------------------------------------------------------------
Awake == [by |-> "none", took |-> 0, time |-> 0]

Init ==
    /\ uptime = 0
    /\ wall \in {s * Second : s \in Starts}
    /\ doing = "none" /\ kernel = 0 /\ user = 0 /\ time = 0
    /\ began = 0 /\ set = FALSE /\ slept = Awake

(* No sleep is passed over: it ends when it is due.  When the task that is then
   runnable gets the processor is up to the scheduler. *)
Over ==
    \/ doing = "kernel sleep" /\ uptime \div Tick >= kernel
    \/ doing = "user sleep" /\ uptime >= user

Pass ==
    /\ uptime < MaxTime /\ ~Over
    /\ uptime' = uptime + 1
    /\ slept' = Awake
    /\ UNCHANGED <<wall, doing, kernel, user, time, began, set>>

SetClock(step) ==
    /\ doing \in {"stamp", "alarm"} /\ ~set
    /\ wall' = wall + step * Second
    /\ set' = TRUE
    /\ UNCHANGED <<uptime, doing, kernel, user, time, began, slept>>

Begin(what, k, u, t) ==
    /\ doing = "none" /\ uptime <= MaxBegin
    /\ doing' = what /\ kernel' = k /\ user' = u /\ time' = t
    /\ began' = uptime /\ set' = FALSE /\ slept' = Awake
    /\ UNCHANGED <<uptime, wall>>

(* A null argument is refused, and the wall clock may fail: no stamp then. *)
OsClockGetTime == Begin("stamp", Jiffies, TvSec, 0)

OsSetAlarm(t) == Begin("alarm", KernelSetAlarm(t), UserSetAlarm(t), t)

(* As it is for less than 2^31 milliseconds. *)
MsToJiffies(t) == (t * Hz + Kilo - 1) \div Kilo

(* Mutated: the tick that has begun counts as a whole one. *)
KernelSleepShort(t) ==
    t # 0 /\ Begin("kernel sleep", uptime \div Tick + MsToJiffies(t), 0, t)

(* OS_SLEEP: the kernel takes its argument for milliseconds, user space, like
   include/osal_sched.h, for microseconds. *)
KernelSleep(t) == t # 0 /\ Begin("kernel sleep", uptime \div Tick + MsToJiffies(t) + 1, 0, t)

UserSleep(t) ==
    LET secs == t \div Second
        ns == (t % Second) * Kilo
    IN  Begin("user sleep", 0, uptime + secs * Second + ns \div Kilo, t)

(* A sleep ends, or a signal ends it: the program is not told which. *)
Wake(signal) ==
    /\ doing \in {"kernel sleep", "user sleep"}
    /\ Over \/ signal
    /\ slept' = IF signal THEN Awake
                ELSE [by |-> doing, took |-> uptime - began, time |-> time]
    /\ doing' = "none" /\ kernel' = 0 /\ user' = 0 /\ time' = 0 /\ began' = 0
    /\ UNCHANGED <<uptime, wall, set>>

Next ==
    \/ Pass
    \/ \E s \in Steps : SetClock(s)
    \/ OsClockGetTime
    \/ \E t \in Times : OsSetAlarm(t) \/ KernelSleep(t) \/ UserSleep(t)
    \/ \E signal \in BOOLEAN : Wake(signal)

-----------------------------------------------------------------------------
(* include/osal_clock.h, "time difference in seconds" and "in milliseconds":
   within what a tick of the kernel or a second of user space can tell apart, and
   across the wrap of the ticks; as long as the ticks and the seconds that have
   passed, for milliseconds times a thousand, are below 2^32, and in user space as
   long as nobody sets the clock. *)
ElapsedIsRight ==
    LET elapsed == uptime - began
        Near(t, below, above) == t - below < elapsed /\ elapsed < t + above
    IN  doing = "stamp" =>
            /\ elapsed \div Tick + 1 < Word =>
                  Near(KernelSecs(kernel) * Second, Tick, Second)
            /\ (elapsed \div Tick + 1) * Kilo < Word =>
                  Near(KernelMsecs(kernel) * Kilo, Tick, Kilo + Tick)
            /\ ~set /\ elapsed \div Second + 1 < Word =>
                  Near(UserSecs(user) * Second, Second, Second)
            /\ ~set /\ (elapsed \div Second + 1) * Kilo < Word =>
                  Near(UserMsecs(user) * Kilo, Second, Second)

(* include/osal_sched.h, "the alarm will trigger when the amount of time provided has
   expired": it has expired exactly when its milliseconds are over, if times a
   thousand they are below 2^32 and nobody sets the clock. *)
AlarmsAreOnTime ==
    doing = "alarm" /\ ~set /\ time * Kilo < Word =>
        LET over == uptime - began >= time * Kilo
        IN  (KernelTestAlarm(kernel) <=> over) /\ (UserTestAlarm(user) <=> over)

(* A sleep that no signal ends is due neither early nor late, in the unit in which
   each side counts: the microseconds of linux_user's _OS_SLEEP exactly, the
   milliseconds of linux_kernel's within the tick in which it begins and the one to
   which they are rounded up. *)
SleepsAreOnTime ==
    /\ slept.by = "user sleep" => slept.took = slept.time
    /\ slept.by = "kernel sleep" => /\ slept.time * Kilo < slept.took
                                    /\ slept.took < slept.time * Kilo + 2 * Tick

(* include/osal_sched.h, of OS_SLEEP: it delays "for the number of micro-seconds
   ( 1/1000000 or a second ) requested", here with two ticks to spare.  The kernel's
   sleeps a thousand times as long. *)
SleepsAreInMicroseconds ==
    slept.by # "none" => slept.time <= slept.took /\ slept.took < slept.time + 2 * Tick
=============================================================================
