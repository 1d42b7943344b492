---------------------------- MODULE MCFileServer ----------------------------
\* The directories and files of the runs of FileServer.
EXTENDS FileServer

\* Directory a has a directory of the name of another; the directories of b are in none.
MCSubDirs == [d \in {".", "a", "b"} |->
    CASE d = "." -> <<"a", "b">> [] d = "a" -> <<"b">> [] d = "b" -> << >>]
MCFileNames == {"f"}
MCDisk0 == [p \in {<<".", "f">>, <<"a", "f">>, <<"b", "f">>} |->
    IF p[1] = "b" THEN <<Original, Original>> ELSE <<Original>>]
MCCommands == <<1, 2>>
MCTyped == {-1, 1, 2}
=============================================================================
