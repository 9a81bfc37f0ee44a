SPECIFICATION Spec
CONSTANTS
    MaxOpens = 2
    MaxStatements = 3
    MaxRows = 1
    MaxRowIds = 2
    NumParameters = 2
    Tracing = {"trace"}
    MaxCalls = 3
    Sql = {"insert", "insertNone", "update", "query", "blank", "malformed"}
    StepErrors = {2067}
INVARIANTS
    TypeOK
    StatementsAreScoped
    InsertReturnsItsRowId
    ThrewOrInserted
PROPERTIES
    CloseReleases
    OnlyOpenLosesHandles
    LegalCaller
CHECK_DEADLOCK FALSE
