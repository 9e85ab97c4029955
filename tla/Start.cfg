SPECIFICATION FairSpec
CONSTANTS
    Root = root
    Children = {c1, c2}
    Orphans = {root}
    MaxEvents = 1
    MaxRequests = 2
INVARIANTS TypeOK ResponsesInOrder ChildReportedOnce
PROPERTIES EventsRelayed ChildReported AcceptThreadReturns
CHECK_DEADLOCK FALSE
