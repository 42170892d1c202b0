CONSTANTS
    Word = 16
    Wide = 4096
    Kilo = 4
    Hz = 2
    Epoch = 40
    FirstTick = 13
    Starts <- MCStarts
    Steps <- MCSteps
    Times <- MCTimes
    MaxBegin = 24
    MaxTime = 70

SPECIFICATION Spec

INVARIANTS
    SleepsAreInMicroseconds

\* Time ends.
CHECK_DEADLOCK FALSE
