SPECIFICATION FairSpec
CONSTANTS
    BufSize = 2
    Sizes <- MCSizes
    Garbage <- AnyGarbage
    StartTwice = TRUE
INVARIANTS
    TypeOK
    FileIsPrefix
    ClosedIsComplete
    EndMeansReceived
PROPERTIES
    Delivers
    ClientFinishes
\* a lost start leaves both sides waiting
CHECK_DEADLOCK FALSE
