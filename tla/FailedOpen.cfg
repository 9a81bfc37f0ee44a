SPECIFICATION Spec
CONSTANTS
    MaxOpens = 1
    MaxStatements = 1
    MaxRows = 1
    MaxRowIds = 1
    NumParameters = 1
    Tracing = {}
    MaxCalls = 1
    Sql = {"ddl"}
    StepErrors = {5}
INVARIANTS
    FailedOpenIsReleased
CHECK_DEADLOCK FALSE
