SPECIFICATION FairSpec
CONSTANTS
    N = 2
    SubDirs <- MCSubDirs
    FileNames <- MCFileNames
    Disk0 <- MCDisk0
    UpSize = 2
    Commands <- MCCommands
    Mortal = {2}
    Typed <- MCTyped
    Junk = {1}
INVARIANTS
    TypeOK
    FramingKept
    DownloadIsFile
    UploadIsWhole
    ServedToTheEnd
PROPERTY
    Answered
\* the clients may all have left, or the server has ended
CHECK_DEADLOCK FALSE
