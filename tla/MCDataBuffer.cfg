SPECIFICATION Spec
CONSTANTS
    b1 = b1
    b2 = b2
    b3 = b3
    b4 = b4
    v0 = v0
    v1 = v1
    None = None
    Zero = v0
    Size = 3
    Blocks <- MCBlocks
    Values <- MCValues
SYMMETRY Symmetry
INVARIANTS
    TypeOK
    FrameTable
    CleanMeansOnDisk
    SyncedIsDurable
PROPERTIES
    Implements
