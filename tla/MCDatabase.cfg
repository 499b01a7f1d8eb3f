SPECIFICATION DBSafeSpec
CONSTANTS
    PageSize = 7
    HeaderSize = 2
    MinUsed = 1
    LowIDs = 2
    ZeroByte = ZeroByte
    Positions = 8
    RecordIDs = {1, 2}
    Sizes = {1, 5}
    MaxIndex = 1
    MaxCalls = 3
INVARIANTS
    DBTypeOK
    ReadsBack
    SyncedSurvives
    OwnedIsInUse
    ListIsLinked
CHECK_DEADLOCK FALSE
