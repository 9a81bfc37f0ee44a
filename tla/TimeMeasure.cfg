SPECIFICATION Spec
CONSTANTS
    PASSES = 3
    NANOS_PER_MSEC = 2
    MaxNano = 2
INVARIANTS
    TypeOK
    AverageIsOfItsAction
CHECK_DEADLOCK FALSE
