CONSTANTS
    Drivers = {d1, d2}
    NoDriver = NoDriver

SPECIFICATION Spec

INVARIANTS
    NoSleepWhilePending
    FreedMeansUnused
    MaskedIsOwed
PROPERTIES
    InterruptHandled

\* A release whose kthread_stop races with the thread never returns.
CHECK_DEADLOCK FALSE
