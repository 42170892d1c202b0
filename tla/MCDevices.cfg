CONSTANTS
    Slots <- MCSlots
    IrqOf <- MCIrqOf
    Drivers <- MCDrivers
    ImageOf <- MCImageOf
    Scripts = {1, 2}
    Buffers = {1, 2}
    Kinds = {k1, k2}
    NoKind = NoKind
    Nothing = Nothing

SPECIFICATION Spec

INVARIANTS
    FirmwareIsKept
    HandlersAreAlive
PROPERTIES
    EnumerationEnds
    RequestEnds
    BottomHandlerRuns

\* A driver whose exit fails cannot be used any more.
CHECK_DEADLOCK FALSE
