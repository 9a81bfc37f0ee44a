SPECIFICATION Spec
INVARIANTS
    SomethingIsThrown
    EverythingIsGivenBack
    LoggingKeepsException
    JniCallsAreLegal
    LossIsLogged
    ReleaseLosesOnlyVerbose
CHECK_DEADLOCK FALSE
