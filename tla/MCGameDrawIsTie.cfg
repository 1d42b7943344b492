SPECIFICATION Spec
CONSTANTS
    Clients <- One
    GridNum = 1
    PanelPos <- OnePanel
    GameTime = 1
    Keys <- EnterAndBracket
    UpMax = 1
    QueueMax = 2
    MayCrash = TRUE
INVARIANT
    DrawIsTie
\* a client may hang, and the game is over in the end
CHECK_DEADLOCK FALSE
