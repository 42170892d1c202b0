CONSTANTS
    Drivers = {d1}
    NoDriver = NoDriver

SPECIFICATION Spec

PROPERTIES
    ReleaseReturns

CHECK_DEADLOCK FALSE
