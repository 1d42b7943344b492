------------------------------ MODULE GameSetup ------------------------------
(***************************************************************************)
(* Start-up of the multiplayer game server (multi_game_server.c, main, up   *)
(* to the accept loop): the checks of the command line and the random       *)
(* placement of the coloured panels on the board.                           *)
(*                                                                          *)
(* The board is a grid_num x grid_num square of cells numbered from 0.  A   *)
(* cell holds 0 (red panel), 1 (blue panel) or -1 (no panel).               *)
(***************************************************************************)
EXTENDS Integers, FiniteSets

CONSTANTS
    Args,       \* the command lines considered: records [player, grid, panel, time]
    GridSize,   \* GRID_SIZE, the length of game_info.grid
    Junk        \* what the cells of a malloc'ed array may hold

\* The code never compares the grid with GRID_SIZE; a larger one writes past the array.
ASSUME ArgsAssumption ==
    /\ Args \subseteq [player : Int, grid : Int, panel : Int, time : Int]
    /\ \A a \in Args : a.grid * a.grid <= GridSize
    /\ GridSize \in Nat
    /\ Junk \subseteq Int

VARIABLES
    argv,       \* the command line, constant
    phase,      \* where main stands
    i,          \* index of the panel being placed
    panel_pos,  \* cell of each panel, an array of panel_cnt integers
    grid        \* game_info.grid on the cells of the board

vars == <<argv, phase, i, panel_pos, grid>>

gird_num == argv.grid * argv.grid
Cells == 0 .. gird_num - 1
Panels == 0 .. argv.panel - 1

Init ==
    /\ argv \in Args
    /\ phase = "args"
    /\ i = 0
    /\ panel_pos = [p \in {} |-> 0]
    /\ grid = [c \in {} |-> 0]

\* Defect: one panel too many is accepted.
FitsOneMore == gird_num + 1 >= argv.panel

Fits == gird_num >= argv.panel

(* The sign checks compare the argument's address with 0 and never fire, so *)
(* that the size check is the only one that can end the program.            *)
Reject ==
    /\ phase = "args"
    /\ ~ Fits
    /\ phase' = "rejected"
    /\ UNCHANGED <<argv, i, panel_pos, grid>>

Accept ==
    /\ phase = "args"
    /\ Fits
    /\ phase' = "place"
    /\ panel_pos' \in [Panels -> Junk]
    /\ grid' = [c \in Cells |-> -1]
    /\ UNCHANGED <<argv, i>>

\* The earlier panels on cell r.
Taken(r) == {j \in 0 .. i - 1 : panel_pos[j] = r}

\* Defect: the scan stops one panel early.
MetOffByOne(r) == {j \in Taken(r) : j < i - 1}

(* Those the duplicate scan meets: it decrements i, which is its own bound, *)
(* at each of them.                                                         *)
Met(r) == {j \in Taken(r) : j + Cardinality({k \in Taken(r) : k < j}) < i}

\* Defect: the scan does not step i back.
NextIndexNoStepBack(r) == i + 1

NextIndex(r) == i - Cardinality(Met(r)) + 1

\* Defect: the colour is written whether or not the scan met the cell.
ColouredAnyway(r) == [grid EXCEPT ![r] = i % 2]

Coloured(r) == IF Met(r) = {} THEN [grid EXCEPT ![r] = i % 2] ELSE grid

\* One turn of the placement loop, rand() % gird_num having given r.
Draw(r) ==
    /\ phase = "place"
    /\ i < argv.panel
    /\ r \in Cells
    /\ panel_pos' = [panel_pos EXCEPT ![i] = r]
    /\ i' = NextIndex(r)
    /\ grid' = Coloured(r)
    /\ UNCHANGED <<argv, phase>>

Placed ==
    /\ phase = "place"
    /\ i >= argv.panel
    /\ phase' = "ready"
    /\ UNCHANGED <<argv, i, panel_pos, grid>>

Next ==
    \/ Reject
    \/ Accept
    \/ \E r \in 0 .. GridSize - 1 : Draw(r)
    \/ Placed

\* main runs, and rand() keeps producing every residue.
Fairness ==
    /\ WF_vars(Reject \/ Accept \/ Placed)
    /\ \A r \in 0 .. GridSize - 1 : WF_vars(Draw(r))

Spec == Init /\ [][Next]_vars
FairSpec == Spec /\ Fairness

------------------------------------------------------------------------------

\* Types and ranges of the variables, phase by phase.
TypeOK ==
    /\ argv \in Args
    /\ phase \in {"args", "rejected", "place", "ready"}
    /\ i \in Nat
    /\ phase = "args" => i = 0
    /\ phase \in {"place", "ready"} =>
         /\ panel_pos \in [Panels -> Int]
         /\ grid \in [Cells -> {-1, 0, 1}]
         /\ i = 0 \/ i <= argv.panel
         /\ argv.panel <= gird_num

(* No two of the panels placed so far share a cell, although the scan that  *)
(* looks for a duplicate changes the bound of its own loop (l.147-157).     *)
PanelsDistinct ==
    phase \in {"place", "ready"} =>
        \A j, k \in 0 .. i - 1 : j # k => panel_pos[j] # panel_pos[k]

(* A rejected draw leaves no colour behind and an accepted one colours its  *)
(* cell by the panel's parity: the board shows exactly the panels placed.   *)
ColoursMatch ==
    phase \in {"place", "ready"} =>
        /\ \A j \in 0 .. i - 1 : panel_pos[j] \in Cells /\ grid[panel_pos[j]] = j % 2
        /\ \A c \in Cells : (\A j \in 0 .. i - 1 : panel_pos[j] # c) => grid[c] = -1

(* The match starts even: as many red panels as blue ones, or one red more  *)
(* when their number is odd.                                                *)
BalancedStart ==
    phase = "ready" =>
        LET Of(colour) == Cardinality({c \in Cells : grid[c] = colour})
        IN  /\ argv.panel > 0 => Of(0) + Of(1) = argv.panel
            /\ Of(0) - Of(1) \in {0, 1}

(* The placement ends although it redraws on every collision, up to a board *)
(* with a panel on each cell.                                               *)
PlacementEnds == <>(phase \in {"ready", "rejected"})

(* What the comments of the checks say of them ("negative check", "positive *)
(* number"): the program goes on with positive arguments only.              *)
ArgumentsPositive ==
    phase \in {"place", "ready"} =>
        argv.player > 0 /\ argv.grid > 0 /\ argv.panel > 0 /\ argv.time > 0
==============================================================================
