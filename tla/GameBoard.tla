------------------------------ MODULE GameBoard ------------------------------
(***************************************************************************)
(* What the game server promises its clients, without its threads, its      *)
(* mutex or its sockets.                                                    *)
(*                                                                          *)
(* A fixed number of players joins, the operator opens the game, each       *)
(* player is told to start, and from then on panels are flipped one at a    *)
(* time.  While the clock runs the server publishes datagrams.  A datagram  *)
(* carries the second it was stamped in and, for every cell, a value the    *)
(* cell had at some moment between the stamp and the publication: it need   *)
(* not be a board that ever existed.                                        *)
(***************************************************************************)
EXTENDS Integers, FiniteSets

CONSTANTS
    PlayerCnt,  \* number of players
    CellCnt,    \* number of cells of the board
    PanelPos,   \* cell of each panel, a function from 0 .. (number of panels) - 1
    GameTime    \* length of the game in seconds

Players == 1 .. PlayerCnt
Cells == 0 .. CellCnt - 1
Panels == DOMAIN PanelPos
PanelCells == {PanelPos[j] : j \in Panels}

\* The board main has placed when it begins to accept players.
InitialBoard ==
    [c \in Cells |-> IF c \in PanelCells
                     THEN (CHOOSE j \in Panels : PanelPos[j] = c) % 2
                     ELSE -1]

\* The boards of the game: a colour on each panel and nothing elsewhere.
Boards == {b \in [Cells -> {-1, 0, 1}] : \A c \in Cells : b[c] = -1 <=> c \notin PanelCells}
NoDatagram == [left |-> -1]
Datagrams == [left : 0 .. GameTime, grid : Boards]

VARIABLES
    phase,   \* "joining", "waiting", "open", "play", "over" or "gone"
    joined,  \* players that have joined
    told,    \* the start value each player was told, -1 when none
    board,   \* the cells
    clock,   \* seconds since the broadcast began
    left,    \* the stamp of the datagram being made
    past,    \* the boards there were since that stamp, {} when none is being made
    air      \* the last datagram published

boardVars == <<phase, joined, told, board, clock, left, past, air>>

BoardInit ==
    /\ phase = "joining"
    /\ joined = 0
    /\ told = [p \in Players |-> -1]
    /\ board = InitialBoard
    /\ clock = 0 /\ left = 0 /\ past = {}
    /\ air = NoDatagram

Join ==
    /\ phase = "joining"
    /\ joined' = joined + 1
    /\ phase' = IF joined' = PlayerCnt THEN "waiting" ELSE "joining"
    /\ UNCHANGED <<told, board, clock, left, past, air>>

\* The operator types a number other than 0 and 1: there is never a broadcast.
Open ==
    /\ phase = "waiting"
    /\ phase' = "open"
    /\ UNCHANGED <<joined, told, board, clock, left, past, air>>

\* The operator types 1: the clock starts.
Play ==
    /\ phase = "waiting"
    /\ phase' = "play"
    /\ UNCHANGED <<joined, told, board, clock, left, past, air>>

\* A player told too late is told 0.
Tell(p) ==
    /\ phase \in {"open", "play", "over"}
    /\ told[p] = -1
    /\ told' = [told EXCEPT ![p] = IF phase = "over" THEN 0 ELSE 1]
    /\ UNCHANGED <<phase, joined, board, clock, left, past, air>>

Flip(c) ==
    /\ phase \in {"open", "play"}
    /\ \E p \in Players : told[p] = 1
    /\ board' = [board EXCEPT ![c] = 1 - board[c]]
    /\ past' = IF past = {} THEN {} ELSE past \cup {board'}
    /\ UNCHANGED <<phase, joined, told, clock, left, air>>

Tick ==
    /\ phase = "play"
    /\ clock <= GameTime
    /\ clock' = clock + 1
    /\ UNCHANGED <<phase, joined, told, board, left, past, air>>

\* Defect: the elapsed time is rounded up.
ElapsedUp == clock + 1

Elapsed == clock

Stamp ==
    /\ phase = "play"
    /\ past = {}
    /\ clock <= GameTime
    /\ left' = Elapsed
    /\ past' = {board}
    /\ UNCHANGED <<phase, joined, told, board, clock, air>>

\* A datagram put together from any of the boards since its stamp.
Publish(d) ==
    /\ phase = "play"
    /\ past # {}
    /\ d \in Boards
    /\ \A c \in Cells : \E g \in past : d[c] = g[c]
    /\ air' = [left |-> left, grid |-> d]
    /\ past' = {}
    /\ UNCHANGED <<phase, joined, told, board, clock, left>>

TimeUp ==
    /\ phase = "play"
    /\ past = {}
    /\ clock > GameTime
    /\ phase' = "over"
    /\ UNCHANGED <<joined, told, board, clock, left, past, air>>

\* The board is given up: until the process is gone nothing is published.
Afterwards ==
    /\ phase = "over"
    /\ \E b \in [Cells -> {-1, 0, 1}] : board' = b
    /\ UNCHANGED <<phase, joined, told, clock, left, past, air>>

\* The process ends, at its time or because of a signal or an error.
Gone ==
    /\ phase # "gone"
    /\ phase' = "gone"
    /\ past' = {}
    /\ UNCHANGED <<joined, told, board, clock, left, air>>

BoardNext ==
    \/ Join \/ Open \/ Play \/ Tick \/ Stamp \/ TimeUp \/ Afterwards \/ Gone
    \/ \E p \in Players : Tell(p)
    \/ \E c \in PanelCells : Flip(c)
    \/ \E d \in Boards : Publish(d)

BoardSpec == BoardInit /\ [][BoardNext]_boardVars
==============================================================================
