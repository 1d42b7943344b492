-------------------------------- MODULE MCGame --------------------------------
\* Boards, players and keys for the runs of Game.
EXTENDS Game

One == {1}
Two == {1, 2}
OnePanel == [j \in {0} |-> 0]
\* No action reads the last datagram published: it is left out of the view.
WithoutAir == <<clientVars, phase, joined, told, board, clock, left, past, quiet>>
JustEnter == {"Enter"}
EnterAndBracket == {"Enter", "["}
===============================================================================
