SPECIFICATION FairSpec
CONSTANTS
    Lines <- MCLines
    Letters = {"q", "b"}
    Rows = 2
    MaxKeys = 4
    Junk <- MCJunk
    MayDie = TRUE
INVARIANTS
    TypeOK
    ShownWhenQuiet
PROPERTY
    Settles
\* the keys are used up, or the client has gone
CHECK_DEADLOCK FALSE
