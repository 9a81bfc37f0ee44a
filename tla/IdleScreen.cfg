SPECIFICATION Spec
CONSTANTS
    NBench = 1
    MaxRuns = 1
    MaxActivities = 2
INVARIANTS
    IdleMeansNothingExecutes
CHECK_DEADLOCK FALSE
