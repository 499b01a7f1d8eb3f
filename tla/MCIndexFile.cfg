SPECIFICATION FileSpec
CONSTANTS
    Keys = {1, 2, 3, 4, 5}
    Touched = {1, 2, 3, 4, 5}
    LeafCapacity = 4
    BranchCapacity = 4
    Positions = 16
    Loads <- MCNoLoad
INVARIANT FindsWhatIsPresent
CHECK_DEADLOCK FALSE
