SPECIFICATION Spec
CONSTANTS
    Threads = {t1, t2}
    MaxTime = 4
    MaxRequests = 1
INVARIANTS AllSuspendedIsTold
CHECK_DEADLOCK FALSE
