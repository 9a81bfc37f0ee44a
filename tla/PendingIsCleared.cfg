SPECIFICATION Spec
INVARIANTS
    PendingIsCleared
CHECK_DEADLOCK FALSE
