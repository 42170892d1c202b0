CONSTANTS
    reader = reader
    closer = closer
    irq = irq
    NoSetter = NoSetter

SPECIFICATION Spec

INVARIANTS
    EnableIsBalanced
    LineLeftEnabled
PROPERTIES
    InterruptDelivered
    UnregisterReturns
