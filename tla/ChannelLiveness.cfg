SPECIFICATION FairSpec
CONSTANTS
    App = {a}
    H = h
    MaxSeq = 1
    MaxIn = 2
    MaxHooks = 1
    PeerKinds = {"message", "response", "invalid"}
INVARIANTS
    ReceivedInOrder
    NoRequestForgotten
PROPERTIES
    ResponseIsFinal
    WaitersReturn
    HooksRun
CHECK_DEADLOCK FALSE
