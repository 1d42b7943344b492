--------------------------------- MODULE Game ---------------------------------
(***************************************************************************)
(* The whole game: the server, by what it promises (GameBoard, which        *)
(* GameServer implements), the players' programs (GameClient), and the      *)
(* network between them.                                                    *)
(*                                                                          *)
(* The records of a client reach the server in order (TCP).  A datagram     *)
(* reaches any subset of the clients (UDP multicast): it may be lost on the *)
(* way to one, or find a socket that is full or not open yet.               *)
(***************************************************************************)
EXTENDS GameClient

CONSTANTS
    QueueMax,  \* datagrams that fit in a client's UDP socket
    MayCrash   \* whether the server may end before its time

ASSUME GameAssumption == QueueMax \in Nat /\ MayCrash \in BOOLEAN

VARIABLES
    phase, joined, told, board, clock, left, past, air,  \* the server, as in GameBoard
    quiet   \* history: no panel was flipped during the last second

serverVars == <<phase, joined, told, board, clock, left, past, air>>
vars == <<clientVars, serverVars, quiet>>

Server == INSTANCE GameBoard WITH
             PlayerCnt <- Cardinality(Clients), CellCnt <- GridNum * GridNum

Init == ClientInit /\ Server!BoardInit /\ quiet = TRUE

\* The next client connects and the server counts it; it reads its greeting.
Connect(p) ==
    /\ main[p] = "connect"
    /\ p = joined + 1
    /\ Server!Join
    /\ main' = [main EXCEPT ![p] = "greeted"]
    /\ UNCHANGED <<start, view, queue, input, printer, pos, flag, up, link,
                   verdict, enters, quiet>>

Operator == (Server!Open \/ Server!Play) /\ UNCHANGED <<clientVars, quiet>>

Tell(p) == Server!Tell(p) /\ UNCHANGED <<clientVars, quiet>>

Start(p) ==
    /\ \/ told[p] # -1 /\ ReadStart(p, told[p])
       \/ told[p] = -1 /\ phase = "gone" /\ ReadStart(p, 0)
    /\ UNCHANGED <<serverVars, quiet>>

\* The handler of client p takes its next record, whole (GameServer has the short reads).  A
\* flagged one flips a panel.
Apply(p) ==
    /\ phase \in {"open", "play"}
    /\ up[p] # << >>
    /\ up' = [up EXCEPT ![p] = Tail(@)]
    /\ LET r == Head(up[p])
       IN  IF r.flag = 5 /\ r.pos \in PanelCells
           THEN /\ Server!Flip(r.pos)
                /\ quiet' = (quiet /\ clock < GameTime)
           ELSE UNCHANGED <<serverVars, quiet>>
    /\ UNCHANGED <<main, start, view, queue, input, printer, pos, flag, link,
                   verdict, enters>>

ServerStep ==
    /\ Server!Tick \/ Server!Stamp \/ Server!TimeUp
    /\ UNCHANGED <<clientVars, quiet>>

\* A datagram is published and reaches the clients of S.
Multicast(S) ==
    /\ \E d \in Server!Boards : Server!Publish(d)
    /\ \A p \in S : main[p] = "recv" /\ Len(queue[p]) < QueueMax
    /\ queue' = [p \in Clients |-> IF p \in S THEN Append(queue[p], air') ELSE queue[p]]
    /\ UNCHANGED <<main, start, view, input, printer, pos, flag, up, link,
                   verdict, enters, quiet>>

(* The server process ends.  A connection with records it has not read is   *)
(* reset, the others are shut.                                              *)
ServerEnds ==
    /\ phase = "over" \/ MayCrash
    /\ Server!Gone
    /\ link' = [p \in Clients |-> IF up[p] = << >> THEN "shut" ELSE "rst"]
    /\ up' = [p \in Clients |-> << >>]
    /\ UNCHANGED <<main, start, view, queue, input, printer, pos, flag, verdict,
                   enters, quiet>>

ClientStep(p) ==
    /\ MainStep(p) \/ PrinterStep(p) \/ InputStep(p) \/ KeyStep(p)
    /\ UNCHANGED <<serverVars, quiet>>

Next ==
    \/ Operator \/ ServerStep \/ ServerEnds
    \/ \E p \in Clients : Connect(p) \/ Tell(p) \/ Start(p) \/ Apply(p) \/ ClientStep(p)
    \/ \E S \in SUBSET Clients : Multicast(S)

Spec == Init /\ [][Next]_vars

\* Every client's threads are scheduled, and every player goes on pressing keys.
ClientFairness(p) ==
    /\ WF_vars(MainStep(p) /\ UNCHANGED <<serverVars, quiet>>)
    /\ WF_vars(PrinterStep(p) /\ UNCHANGED <<serverVars, quiet>>)
    /\ WF_vars(InputStep(p) /\ UNCHANGED <<serverVars, quiet>>)
    /\ WF_vars(KeyStep(p) /\ UNCHANGED <<serverVars, quiet>>)
    /\ WF_vars(Apply(p))

\* Once its time is over the server process ends.
FairSpec ==
    /\ Spec
    /\ \A p \in Clients : ClientFairness(p)
    /\ WF_vars(phase = "over" /\ ServerEnds)

------------------------------------------------------------------------------

ClientsOK ==
    /\ main \in [Clients -> {"connect", "greeted", "recv", "join", "ended"}]
    /\ start \in [Clients -> {0, 1}]
    /\ view \in [Clients -> Server!Datagrams \cup {ZeroView}]
    /\ queue \in [Clients -> Seq(Server!Datagrams)]
    /\ up \in [Clients -> Seq(Records)]
    /\ \A p \in Clients : Len(queue[p]) <= QueueMax /\ Len(up[p]) <= UpMax
    /\ input \in [Clients -> {"none", "spin", "loop", "key", "second", "done"}]
    /\ printer \in [Clients -> {"none", "test", "frame", "done"}]
    /\ pos \in [Clients -> Cells] /\ flag \in [Clients -> {0, 5}]
    /\ link \in [Clients -> {"up", "shut", "rst"}]
    /\ verdict \in [Clients -> {"none", "Red", "Blue", "Draw", "killed"}]
    /\ enters \in [PanelCells -> {0, 1}]

ServerOK ==
    /\ phase \in {"joining", "waiting", "open", "play", "over", "gone"}
    /\ joined \in 0 .. Cardinality(Clients)
    /\ told \in [Clients -> {-1, 0, 1}]
    /\ board \in Server!Boards /\ past \subseteq Server!Boards
    /\ clock \in 0 .. GameTime + 1 /\ left \in 0 .. GameTime
    /\ air = Server!NoDatagram \/ air \in Server!Datagrams
    /\ quiet \in BOOLEAN

\* Types; a player's cell is always one of the board.
TypeOK == ClientsOK /\ ServerOK

Adjacent(x, y) ==
    LET Row(z) == z \div GridNum
        Col(z) == z % GridNum
        Near(a, b) == a - b \in {-1, 1}
    IN  \/ Row(x) = Row(y) /\ Near(Col(x), Col(y))
        \/ Col(x) = Col(y) /\ Near(Row(x), Row(y))

(* A key moves a player to a neighbouring cell or not at all: the border    *)
(* tests never let it wrap to another row (l.423-454).                      *)
MovesAreAdjacent ==
    [][ \A p \in Clients : pos'[p] # pos[p] => Adjacent(pos[p], pos'[p]) ]_vars

\* The flagged records for cell c on their way, by client and place.
Pending(c) ==
    {e \in Clients \X (1 .. UpMax) :
        e[2] <= Len(up[e[1]]) /\ up[e[1]][e[2]] = [pos |-> c, flag |-> 5]}

(* Every Enter of every player on a panel flips it exactly once at the      *)
(* server, and no other key does: the board is the initial one with the     *)
(* Enters applied that are not still on their way.                          *)
EntersCount ==
    phase \in {"open", "play"} =>
        \A c \in PanelCells :
            board[c] = (Server!InitialBoard[c] + enters[c] + Cardinality(Pending(c))) % 2

(* A winner is computed from a datagram of the last second and from nothing *)
(* older, although datagrams are lost and the one that ends the loop is     *)
(* thrown away (l.211-217).                                                 *)
VerdictIsFinal ==
    \A p \in Clients :
        verdict[p] \in {"Red", "Blue", "Draw"} => view[p].left = GameTime

(* When no panel is flipped during the last second, every player sees the   *)
(* same winner, whatever datagrams each of them has lost.                   *)
AgreeWhenQuiet ==
    quiet => \A p, q \in Clients :
                 {verdict[p], verdict[q]} \subseteq {"Red", "Blue", "Draw"}
                     => verdict[p] = verdict[q]

Red(grid) == Cardinality({j \in Panels : grid[PanelPos[j]] = 0})
Blue(grid) == Cardinality({j \in Panels : grid[PanelPos[j]] = 1})

(* A client that holds a datagram of the last second and gets one more      *)
(* prints a winner, as long as its player goes on pressing keys, each of    *)
(* its threads has seen the start, and the server's end does not kill it.   *)
VerdictReached ==
    \A p \in Clients :
        (view[p].left = GameTime /\ queue[p] # << >> /\ input[p] # "spin")
            ~> verdict[p] # "none"

(* The client prints "Draw!" (l.239) when its own score line "Red: %d vs    *)
(* Blue: %d" (l.281) shows equal numbers.                                   *)
DrawIsTie ==
    \A p \in Clients :
        verdict[p] = "Draw" => Red(view[p].grid) = Blue(view[p].grid)
==============================================================================
