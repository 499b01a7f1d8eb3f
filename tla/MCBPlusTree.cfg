SPECIFICATION SafeSpec
CONSTANTS
    Keys = {1, 2, 3, 4, 5, 6, 7, 8, 9, 10, 11, 12, 13, 14, 15, 16, 17}
    Touched = {2, 4, 10, 12, 14, 16}
    LeafCapacity = 4
    BranchCapacity = 4
    Positions = 24
    Loads <- MCLoads
INVARIANTS
    TypeOK
    FindsWhatIsPresent
    AllVisitsInOrder
    WellFormed
    SiblingsAgree
    NoNodeLeaks
    HeldIsInUse
    NothingLeaks
CHECK_DEADLOCK FALSE
