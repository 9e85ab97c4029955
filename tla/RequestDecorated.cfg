SPECIFICATION Spec
CONSTANTS
    MaxRequests = 1
    MaxErrors = 3
    Statements = {"return", "respond", "defer", "own error", "error object"}
    Decorated = TRUE
    Unreliable = FALSE
INVARIANTS
    Survives
CHECK_DEADLOCK FALSE
