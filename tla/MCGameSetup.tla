----------------------------- MODULE MCGameSetup -----------------------------
(* Small command lines for GameSetup: boards of one and four cells, from no *)
(* panel to one more than fits, and the non-positive values the checks of   *)
(* main let through.                                                        *)
EXTENDS GameSetup

MCArgs ==
    [player : {2}, grid : {1, 2}, panel : -1 .. 5, time : {1}]
        \cup {[player |-> -1, grid |-> -2, panel |-> 3, time |-> 0]}
MCGridSize == 4
MCJunk == {-1, 0}
==============================================================================
