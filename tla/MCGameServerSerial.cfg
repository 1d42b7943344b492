SPECIFICATION Spec
CONSTANTS
    PlayerCnt = 2
    CellCnt = 1
    PanelPos <- OnePanel
    GameTime = 0
    Inputs <- OnlyOne
    Misread <- Honest
    Reads = {3}
INVARIANT
    BroadcastSerialised
\* the process ends, and it may hang after the operator's number
CHECK_DEADLOCK FALSE
