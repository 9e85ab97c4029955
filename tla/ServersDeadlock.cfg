SPECIFICATION FairSpec
CONSTANTS
    Conns = {c1}
    Sess = {s1}
    Main = main
    None = none
    Waits = {"no_wait"}
    MaxAttach = 1
PROPERTIES
    CleansUp
CHECK_DEADLOCK FALSE
