SPECIFICATION Spec
CONSTANTS
    Conns = {c1}
    Sess = {s1, s2}
    Main = main
    None = none
    Waits = {"timeout"}
    MaxAttach = 1
SYMMETRY Symmetry
INVARIANTS
    TypeOK
    RegisteredWhileConnected
    OneServerEach
CHECK_DEADLOCK FALSE
