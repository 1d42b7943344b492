----------------------------- MODULE MCGameServer -----------------------------
\* Boards and operators for the runs of GameServer.
EXTENDS GameServer

OnePanel == [j \in {0} |-> 0]
TwoPanels == [j \in 0 .. 1 |-> 1 - j]
Honest == {}
Misreads == {0}
OneOrTwo == {0, 1, 2}
OnlyOne == {0, 1}
OnlyTwo == {0, 2}
===============================================================================
