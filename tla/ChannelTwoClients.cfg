SPECIFICATION Spec
CONSTANTS
    App = {a, b}
    H = h
    MaxSeq = 2
    MaxIn = 1
    MaxHooks = 2
    PeerKinds = {"response", "malformed"}
SYMMETRY Symmetry
INVARIANTS
    TypeOK
    NoLostWakeup
    HooksAccounted
PROPERTIES
    WaitDrains
    KeepsPromise
CHECK_DEADLOCK FALSE
