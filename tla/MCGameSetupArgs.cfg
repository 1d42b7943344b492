SPECIFICATION Spec
CONSTANTS
    Args <- MCArgs
    GridSize <- MCGridSize
    Junk <- MCJunk
INVARIANT
    ArgumentsPositive
CHECK_DEADLOCK FALSE
