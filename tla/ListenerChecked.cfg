SPECIFICATION Spec
CONSTANTS
    NBench = 1
    MaxRuns = 1
    MaxActivities = 1
INVARIANTS
    ListenerCheckedIsThere
CHECK_DEADLOCK FALSE
