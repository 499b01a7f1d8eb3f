SPECIFICATION HeldSpec
CONSTANTS
    control = control
    map1 = map1
    map2 = map2
    b1 = b1
    b2 = b2
    b3 = b3
    v0 = v0
    None = None
    Zero = v0
    Size = 2
    MaxChain = 2
    FileFails = FALSE
    ControlBlock = control
    FirstMap = map1
    SecondMap = map2
    MapOf <- MCMapOf
    Blocks <- MCBlocks
    Values <- MCValues
SYMMETRY Symmetry
INVARIANT MarksWhatIsResident
