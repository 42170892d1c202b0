CONSTANTS
    Slots <- MCSlots
    Kinds = {k1, k2}
    NoKind = NoKind
    IrqOf <- MCIrqOf

SPECIFICATION Spec

INVARIANTS
    InterruptIsValid
