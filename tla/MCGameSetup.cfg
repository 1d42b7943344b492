SPECIFICATION FairSpec
CONSTANTS
    Args <- MCArgs
    GridSize <- MCGridSize
    Junk <- MCJunk
INVARIANTS
    TypeOK
    PanelsDistinct
    ColoursMatch
    BalancedStart
PROPERTY
    PlacementEnds
\* start-up is over once the panels are placed or the arguments refused
CHECK_DEADLOCK FALSE
