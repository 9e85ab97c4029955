SPECIFICATION FairSpec
CONSTANTS
    Threads = {t1, t2}
    MaxTime = 4
    MaxRequests = 2
INVARIANTS TypeOK NotifiedInTurn OneStopPerRequest
PROPERTIES PauseReported
CHECK_DEADLOCK FALSE
