SPECIFICATION FairSpec
CONSTANTS
    Lengths = {1, 5, 6}
    MaxBody = 5
    MaxSend = 3
INVARIANTS TypeOK ReadAsWritten ErrorHasCause
PROPERTIES AllRead
CHECK_DEADLOCK FALSE
