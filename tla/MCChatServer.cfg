SPECIFICATION Spec
CONSTANTS
    N = 3
    Writes <- MCWrites
    LagMax = 1
    MayFail = TRUE
INVARIANTS
    TypeOK
    LostByLeaves
    HeardAll
PROPERTIES
    OneConversation
\* the clients may all have left, or the process has ended
CHECK_DEADLOCK FALSE
