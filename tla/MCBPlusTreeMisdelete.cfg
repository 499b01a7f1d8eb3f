SPECIFICATION Spec
CONSTANTS
    Keys = {1, 2, 3, 4, 5, 6, 7, 8, 9}
    Touched = {1, 2, 3, 4, 5, 6, 7, 8, 9}
    LeafCapacity = 4
    BranchCapacity = 4
    Positions = 16
    Loads <- MCLeafLoads
INVARIANT FindsWhatIsPresent
CHECK_DEADLOCK FALSE
