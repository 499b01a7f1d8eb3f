SPECIFICATION SafeSpec
CONSTANTS
    PageSize = 7
    HeaderSize = 2
    MinUsed = 1
    LowIDs = 2
    ZeroByte = ZeroByte
    Positions = 8
    RecordIDs = {1, 2}
    Sizes = {1, 8}
    MaxIndex = 1
INVARIANTS
    TypeOK
    ReadBack
    ListIsLinked
    NoEmptyBlock
    NoOrphans
    Layout
    UtilizationIsExact
PROPERTIES
    UsesMap
    SafeCallsReturn
CHECK_DEADLOCK FALSE
