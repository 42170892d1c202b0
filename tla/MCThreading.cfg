CONSTANTS
    NoThread = NoThread
    Threads = {t1, t2, t3}
    Initial = 1
    MaxCount = 2
    Cpus = {p1, p2}
    Locks = {1, 2}
    parent = parent
    child = child
    client = client
    NoSetter = NoSetter
    Nobody = Nobody
    Priorities = {0, 99, 100}

SPECIFICATION Spec

INVARIANTS
    LockMemory
    IrqsRestored
    WaitMeansReturned
    JoinedOnce
    SuspendedUntilResumed
PROPERTIES
    ImplementsSemaphore
    ImplementsLock
    FirstWaitReturns
    ResumedRuns
    DestroyReturns

\* A thread may wait for ever: for a lock whose holder never releases it, for a
\* kernel thread a second time or one that kthread_run could not start, for the
\* mutex of a thread that was cancelled in its wrapper, for a suspended thread.
CHECK_DEADLOCK FALSE
