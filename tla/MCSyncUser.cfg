CONSTANTS
    NoThread = NoThread
    Threads = {t1, t2, t3}
    Initial = 1
    MaxCount = 2

SPECIFICATION SyncSpec

INVARIANTS
    NoLostWakeup
    MutualExclusion
    NoSleepWhileSignaled
PROPERTIES
    ImplementsSemaphore
    ImplementsEvent
    SetIsTaken
