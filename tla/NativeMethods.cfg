SPECIFICATION NativeSpec
CONSTANTS
    MaxOpens = 1
    MaxStatements = 2
    MaxRows = 2
    MaxRowIds = 1
    NumParameters = 1
    Tracing = {"trace"}
    Sql = {"insert", "query"}
    StepErrors = {2067}
INVARIANTS
    HeldDataIsAlive
    FailureOfTheCall
PROPERTIES
    ResetIsWholeOrThrows
    ValueIsOfItsRow
CHECK_DEADLOCK FALSE
