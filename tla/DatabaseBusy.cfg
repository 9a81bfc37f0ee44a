SPECIFICATION Spec
CONSTANTS
    Threads = {reader, writer}
    BUSY_TIMEOUT = 2
INVARIANT
    NoMutualSleep
PROPERTY CallEnds
