SPECIFICATION Spec
CONSTANTS
    PageSize = 12
    HeaderSize = 2
    MinUsed = 1
    LowIDs = 100
    ZeroByte = ZeroByte
    RecordIDs = {1, 2, 3}
    Sizes = {1, 2, 3}
    Links = {0, 7}
INVARIANTS
    ReadBack
CHECK_DEADLOCK FALSE
