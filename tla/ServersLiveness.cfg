SPECIFICATION FairSpec
CONSTANTS
    Conns = {c1, c2}
    Sess = {s1}
    Main = main
    None = none
    Waits = {"no_wait"}
    MaxAttach = 1
INVARIANTS
    ListedAreLive
PROPERTIES
    SessionsEnd
    GoneAreRemoved
CHECK_DEADLOCK FALSE
