SPECIFICATION FairSpec
CONSTANTS
    PlayerCnt = 1
    CellCnt = 2
    PanelPos <- TwoPanels
    GameTime = 1
    Inputs <- OneOrTwo
    Misread <- Misreads
    Reads = {3}
PROPERTIES
    ServesBoard
    
    GameEnds
    EveryoneTold
\* the process ends, and it may hang after the operator's number
CHECK_DEADLOCK FALSE
