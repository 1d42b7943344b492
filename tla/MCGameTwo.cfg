SPECIFICATION Spec
CONSTANTS
    Clients <- Two
    GridNum = 1
    PanelPos <- OnePanel
    GameTime = 1
    Keys <- JustEnter
    UpMax = 1
    QueueMax = 1
    MayCrash = FALSE
VIEW WithoutAir
INVARIANT
    AgreeWhenQuiet
\* a client may hang, and the game is over in the end
CHECK_DEADLOCK FALSE
