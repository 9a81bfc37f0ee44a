SPECIFICATION Spec
CONSTANTS
    PASSES = 2
    ENTITIES_COUNT = 2
    MaxRuns = 2
INVARIANTS
    TypeOK
    UsesTheFileOfItsName
    LoadsOwnRows
    MeasuredPassIsWhole
    SavedAllOrNothing
    LoadIsUncached
    OnlyGreenDaoLeaks
CHECK_DEADLOCK FALSE
