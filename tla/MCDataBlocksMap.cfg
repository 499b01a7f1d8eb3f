SPECIFICATION Spec
CONSTANT Positions = 16
INVARIANT NextPositionIsFree
