SPECIFICATION Spec

CONSTANTS
    Slots <- MCSlots
    Kinds = {1, 2}
    NoKind = 0
    IrqOf <- MCIrqOf
    Devs = {1, 2, 3}
    NoDev = 0
    MaxHandles = 1
    PlaceOf <- MCPlaceOf
    LineOf <- MCLineOf
    NoIrq = 0
    IdOf <- MCIdOf
    ClassOf <- MCClassOf
    Offsets <- MCOffsets
    UnsignedLong = 4
    Nodes = {1, 2, 3}
    Head0 = 0
    Poison = 99
    Page = 4
    Word = 64
    Low = 8
    Bases <- MCBases
    Sizes <- MCSizes
    BarOf <- MCBarOf
    MaxRegions = 2
    ClockWord = 16
    Wide = 4096
    Kilo = 4
    Hz = 2
    Epoch = 40
    FirstTick = 13
    Starts <- MCStarts
    Steps <- MCSteps
    Times <- MCTimes
    MaxBegin = 24
    MaxTime = 70
    Tracers = {1, 2}
    LevelOf <- MCLevelOf
    Debugs = {0, 3}

INVARIANTS
    EnumerationExact
    HandlesAreAlive
    ConfigAccessExact
    ListIsWalked
    MappingsExact
    TimesAreRight
    SeverityFromUse

\* The parts with a bound on what may happen come to its end.
CHECK_DEADLOCK FALSE
