SPECIFICATION FairSpec
CONSTANTS
    PageSize = 5
    HeaderSize = 2
    MinUsed = 1
    LowIDs = 100
    ZeroByte = ZeroByte
    Positions = 8
    RecordIDs = {1, 2, 3}
    Sizes = {2, 4}
    MaxIndex = 1
PROPERTY CallsReturn
CHECK_DEADLOCK FALSE
