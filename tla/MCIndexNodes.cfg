SPECIFICATION Spec
CONSTANTS
    Keys = {1, 2, 3, 4, 5}
    Children = {11, 12, 13, 14, 15, 16}
    Links = {0, 9}
    MaxCalls = 6
    Capacity = 4
    BlockCells = 14
    Stale <- MCStale
    Entries <- MCEntries
INVARIANTS TypeOK AdaptersAgree ChildrenShared
PROPERTY KeepsContract
CHECK_DEADLOCK FALSE
