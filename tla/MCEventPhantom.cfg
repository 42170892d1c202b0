CONSTANTS
    w1 = w1
    w2 = w2
    Waiters <- MCWaiters
    Setters = {s1}
    NoSetter = NoSetter
    Calls <- MCCalls

SPECIFICATION Spec

INVARIANTS
    SuccessMeansEvent
