SPECIFICATION Spec
CONSTANTS
    MaxRequests = 3
    MaxErrors = 6
    Statements = {"return", "respond", "defer", "complete", "own error", "error object", "delegate", "foreign error", "unavailable", "other", "late error"}
    Decorated = TRUE
    Unreliable = TRUE
INVARIANTS
    TypeOK
    AnsweredOnce
    NoneDropped
    FailureReported
CHECK_DEADLOCK FALSE
