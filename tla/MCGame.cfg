SPECIFICATION FairSpec
CONSTANTS
    Clients <- One
    GridNum = 2
    PanelPos <- OnePanel
    GameTime = 1
    Keys <- AllKeys
    UpMax = 1
    QueueMax = 1
    MayCrash = TRUE
INVARIANTS
    TypeOK
    EntersCount
    VerdictIsFinal
PROPERTIES
    MovesAreAdjacent
    VerdictReached
\* a client may hang, and the game is over in the end
CHECK_DEADLOCK FALSE
