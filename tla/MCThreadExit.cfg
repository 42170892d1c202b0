CONSTANTS
    owner = owner
    thread = thread
    NoSetter = NoSetter
    Priorities = {0}

SPECIFICATION Spec

INVARIANTS
    ExitedMeansUnused

CHECK_DEADLOCK FALSE
