------------------------------ MODULE GameProofs ------------------------------
(***************************************************************************)
(* Proofs about the whole game, for any number of players, any board, any   *)
(* keys and any losses of datagrams: its types, that moves stay adjacent,   *)
(* that Enters count, that a verdict is of the last second, and that        *)
(* players agree on it when that second is quiet.                           *)
(***************************************************************************)
EXTENDS Game, SequenceTheorems, FiniteSetTheorems, TLAPS

------------------------------------------------------------------------------
(* The cells of the board.                                                  *)

LEMMA MulMono ==
    ASSUME NEW a \in Int, NEW b \in Int, NEW g \in Nat, a <= b
    PROVE  a * g <= b * g
OBVIOUS

LEMMA RowColIs ==
    ASSUME NEW g \in Nat \ {0}, NEW q \in Int, NEW r \in 0 .. g - 1
    PROVE  (q * g + r) \div g = q /\ (q * g + r) % g = r
<1> DEFINE x == q * g + r
           d == x \div g
           m == x % g
<1>1. x \in Int /\ d \in Int /\ m \in 0 .. g - 1 /\ x = d * g + m OBVIOUS
<1>2. CASE d <= q - 1
    <2>1. d * g <= (q - 1) * g BY <1>1, <1>2, MulMono
    <2>2. (q - 1) * g = q * g - g OBVIOUS
    <2> QED BY <1>1, <2>1, <2>2
<1>3. CASE d >= q + 1
    <2>1. (q + 1) * g <= d * g BY <1>1, <1>3, MulMono
    <2>2. (q + 1) * g = q * g + g OBVIOUS
    <2> QED BY <1>1, <2>1, <2>2
<1>4. CASE d = q BY <1>1, <1>4
<1> QED BY <1>1, <1>2, <1>3, <1>4

LEMMA RowCol ==
    ASSUME NEW x \in Cells
    PROVE  \E q \in 0 .. GridNum - 1, r \in 0 .. GridNum - 1 :
              /\ x = q * GridNum + r
              /\ x \div GridNum = q /\ x % GridNum = r
<1> DEFINE q == x \div GridNum
           r == x % GridNum
<1>1. GridNum \in Nat \ {0} /\ GridNum * GridNum \in Nat BY ClientAssumption
<1>2. x \in Nat /\ x < GridNum * GridNum BY <1>1 DEF Cells
<1>3. q \in Nat /\ r \in 0 .. GridNum - 1 /\ x = q * GridNum + r BY <1>1, <1>2
<1>4. q < GridNum
    <2> HIDE DEF q, r
    <2>1. SUFFICES ASSUME GridNum <= q PROVE FALSE BY <1>1, <1>3
    <2>2. GridNum * GridNum <= q * GridNum BY <1>1, <1>3, <2>1, MulMono
    <2> QED BY <1>1, <1>2, <1>3, <2>2
<1> QED BY <1>1, <1>3, <1>4

LEMMA IsCell ==
    ASSUME NEW q \in 0 .. GridNum - 1, NEW r \in 0 .. GridNum - 1
    PROVE  q * GridNum + r \in Cells
<1>1. GridNum \in Nat \ {0} BY ClientAssumption
<1>2. 0 * GridNum <= q * GridNum /\ q * GridNum <= (GridNum - 1) * GridNum
    BY <1>1, MulMono
<1>3. (GridNum - 1) * GridNum = GridNum * GridNum - GridNum BY <1>1
<1> QED BY <1>1, <1>2, <1>3 DEF Cells

\* Moves stay on the board, and a key that moves a player moves it to a neighbour.
LEMMA MoveIsAdjacent ==
    ASSUME NEW x \in Cells, NEW k \in AllKeys
    PROVE  Moved(x, k) \in Cells /\ (Moved(x, k) # x => Adjacent(x, Moved(x, k)))
<1>1. GridNum \in Nat \ {0} BY ClientAssumption
<1>2. PICK q \in 0 .. GridNum - 1, r \in 0 .. GridNum - 1 :
              /\ x = q * GridNum + r
              /\ x \div GridNum = q /\ x % GridNum = r
    BY RowCol
<1> DEFINE At(a, b) == a * GridNum + b
<1>3. ASSUME NEW a \in 0 .. GridNum - 1, NEW b \in 0 .. GridNum - 1
      PROVE  At(a, b) \in Cells /\ At(a, b) \div GridNum = a /\ At(a, b) % GridNum = b
    <2>1. At(a, b) \in Cells BY IsCell
    <2>2. At(a, b) \div GridNum = a /\ At(a, b) % GridNum = b BY <1>1, RowColIs
    <2> QED BY <2>1, <2>2
<1>4. ASSUME NEW a \in 0 .. GridNum - 1, NEW b \in 0 .. GridNum - 1,
             \/ a = q /\ b - r \in {-1, 1}
             \/ b = r /\ a - q \in {-1, 1}
      PROVE  At(a, b) \in Cells /\ Adjacent(x, At(a, b))
    <2>1. At(a, b) \in Cells /\ At(a, b) \div GridNum = a /\ At(a, b) % GridNum = b BY <1>3
    <2>2. x \div GridNum = q /\ x % GridNum = r BY <1>2
    <2>3. a \in Int /\ b \in Int /\ q \in Int /\ r \in Int OBVIOUS
    <2> HIDE DEF At
    <2>4. \/ q = a /\ r - b \in {-1, 1}
          \/ r = b /\ q - a \in {-1, 1}
        BY <1>4, <2>3
    <2> QED BY <2>1, <2>2, <2>4 DEF Adjacent
<1>5. x \in Int /\ q * GridNum \in Int BY <1>1, <1>2
<1>6. Right(x) = x \/ (r + 1 < GridNum /\ Right(x) = At(q, r + 1))
    <2>1. CASE r + 1 < GridNum BY <1>1, <1>2, <1>5, <2>1 DEF Right
    <2>2. CASE r + 1 = GridNum
        <3>1. x + 1 = (q + 1) * GridNum + 0 BY <1>1, <1>2, <2>2
        <3>2. ((q + 1) * GridNum + 0) % GridNum = 0 BY <1>1, RowColIs
        <3>3. (x + 1) % GridNum = 0 BY <3>1, <3>2
        <3> QED BY <3>3 DEF Right
    <2> QED BY <1>1, <2>1, <2>2
<1>7. Left(x) = x \/ (r >= 1 /\ Left(x) = At(q, r - 1))
    BY <1>1, <1>2, <1>5 DEF Left
<1>8. Up(x) = x \/ (q >= 1 /\ Up(x) = At(q - 1, r))
    <2>1. (q - 1) * GridNum = q * GridNum - GridNum BY <1>1
    <2>2. q = 0 => q * GridNum = 0 BY <1>1
    <2> QED BY <1>1, <1>2, <1>5, <2>1, <2>2 DEF Up
<1>9. Down(x) = x \/ (q + 1 < GridNum /\ Down(x) = At(q + 1, r))
    <2>1. (q + 1) * GridNum = q * GridNum + GridNum BY <1>1
    <2>2. q = GridNum - 1 => q * GridNum = GridNum * GridNum - GridNum BY <1>1
    <2>3. GridNum * GridNum \in Int BY <1>1
    <2> QED BY <1>1, <1>2, <1>5, <2>1, <2>2, <2>3 DEF Down
<1> HIDE DEF At
<1>10. Right(x) # x => Right(x) \in Cells /\ Adjacent(x, Right(x))
    <2>1. r + 1 < GridNum => At(q, r + 1) \in Cells /\ Adjacent(x, At(q, r + 1))
        BY <1>1, <1>4
    <2> QED BY <1>6, <2>1
<1>11. Left(x) # x => Left(x) \in Cells /\ Adjacent(x, Left(x))
    <2>1. r >= 1 => At(q, r - 1) \in Cells /\ Adjacent(x, At(q, r - 1)) BY <1>1, <1>4
    <2> QED BY <1>7, <2>1
<1>12. Up(x) # x => Up(x) \in Cells /\ Adjacent(x, Up(x))
    <2>1. q >= 1 => At(q - 1, r) \in Cells /\ Adjacent(x, At(q - 1, r)) BY <1>1, <1>4
    <2> QED BY <1>8, <2>1
<1>13. Down(x) # x => Down(x) \in Cells /\ Adjacent(x, Down(x))
    <2>1. q + 1 < GridNum => At(q + 1, r) \in Cells /\ Adjacent(x, At(q + 1, r))
        BY <1>1, <1>4
    <2> QED BY <1>9, <2>1
<1> QED BY <1>10, <1>11, <1>12, <1>13 DEF Moved
------------------------------------------------------------------------------
(* Types.                                                                   *)

\* GameBoard's names for what the clients have too.
LEMMA SameNames ==
    /\ Server!Players = Clients /\ Server!Cells = Cells /\ Server!PanelCells = PanelCells
    /\ Cardinality(Clients) \in Nat
BY ClientAssumption, FS_CardinalityType
   DEF Server!Players, Server!Cells, Server!PanelCells, Server!Panels, Cells, PanelCells, Panels

LEMMA PanelsAreCells == PanelCells \subseteq Cells
BY ClientAssumption DEF PanelCells

LEMMA InitialColour ==
    /\ Server!InitialBoard \in Server!Boards
    /\ \A c \in PanelCells : Server!InitialBoard[c] \in {0, 1}
<1>1. ASSUME NEW c \in PanelCells
      PROVE  (CHOOSE j \in Panels : PanelPos[j] = c) % 2 \in {0, 1}
    <2>1. \E j \in Panels : PanelPos[j] = c BY DEF PanelCells
    <2>2. (CHOOSE j \in Panels : PanelPos[j] = c) \in Nat BY <2>1, ClientAssumption
    <2> QED BY <2>2
<1>2. \A c \in Cells : Server!InitialBoard[c] =
          IF c \in PanelCells THEN (CHOOSE j \in Panels : PanelPos[j] = c) % 2 ELSE -1
    BY SameNames DEF Server!InitialBoard, Server!Panels, Panels
<1>3. Server!InitialBoard = [c \in Cells |-> Server!InitialBoard[c]]
    BY SameNames DEF Server!InitialBoard
<1>4. \A c \in Cells : /\ Server!InitialBoard[c] \in {-1, 0, 1}
                       /\ Server!InitialBoard[c] = -1 <=> c \notin PanelCells
    BY <1>1, <1>2
<1>5. Server!InitialBoard \in [Cells -> {-1, 0, 1}] BY <1>3, <1>4
<1> QED BY <1>1, <1>2, <1>4, <1>5, SameNames, PanelsAreCells DEF Server!Boards

LEMMA TypeInit == Init => TypeOK
<1> SUFFICES ASSUME Init PROVE TypeOK OBVIOUS
<1>1. 0 \in Cells
    <2>1. 0 * GridNum + 0 \in Cells BY IsCell, ClientAssumption
    <2> QED BY <2>1, ClientAssumption
<1>2. ClientsOK
    BY <1>1, ClientAssumption, GameAssumption, EmptySeq DEF Init, ClientInit, ClientsOK
<1>3. ServerOK
    BY SameNames, InitialColour, ClientAssumption DEF Init, Server!BoardInit, ServerOK
<1> QED BY <1>2, <1>3 DEF TypeOK

\* What a client's own steps keep.
LEMMA TypeMain ==
    ASSUME ClientsOK, NEW p \in Clients, MainStep(p)
    PROVE  ClientsOK'
<1> USE DEF ClientsOK
<1>1. queue[p] # << >> =>
          /\ Head(queue[p]) \in Server!Datagrams
          /\ Tail(queue[p]) \in Seq(Server!Datagrams) /\ Len(Tail(queue[p])) <= QueueMax
    BY HeadTailProperties, LenProperties, GameAssumption
<1>2. CASE LastDatagram(p) BY <1>1, <1>2 DEF LastDatagram
<1>3. CASE Receive(p) BY <1>1, <1>3 DEF Receive
<1>4. CASE NotStarted(p) BY <1>4 DEF NotStarted
<1>5. CASE Finish(p) BY <1>5 DEF Finish, Winner
<1> QED BY <1>2, <1>3, <1>4, <1>5 DEF MainStep

LEMMA TypeThreads ==
    ASSUME ClientsOK, NEW p \in Clients, PrinterStep(p) \/ InputStep(p) \/ Bracket(p)
    PROVE  ClientsOK'
<1> USE DEF ClientsOK
<1>1. CASE Frame(p) BY <1>1 DEF Frame
<1>2. CASE FrameDrawn(p) BY <1>2 DEF FrameDrawn
<1>3. CASE PrinterEnds(p) BY <1>3 DEF PrinterEnds
<1>4. CASE SeesStart(p) BY <1>4 DEF SeesStart
<1>5. CASE LoopTest(p) BY <1>5 DEF LoopTest
<1>6. CASE Bracket(p) BY <1>6 DEF Bracket
<1> QED BY <1>1, <1>2, <1>3, <1>4, <1>5, <1>6 DEF PrinterStep, InputStep

LEMMA TypeWrite ==
    ASSUME ClientsOK, NEW p \in Clients, NEW x \in Cells, NEW k, Enter(p, x, k),
           UNCHANGED <<start, view, queue, printer>>
    PROVE  ClientsOK'
<1> USE DEF ClientsOK
<1> DEFINE f == IF k = "Enter" THEN 5 ELSE flag[p]
<1>1. enters' \in [PanelCells -> {0, 1}]
    <2>1. CASE x \in PanelCells /\ enters' = [enters EXCEPT ![x] = 1 - @]
        <3>1. enters[x] \in {0, 1} BY <2>1
        <3>2. 1 - enters[x] \in {0, 1} BY <3>1
        <3> QED BY <2>1, <3>2
    <2>2. CASE enters' = enters BY <2>2
    <2> QED BY <2>1, <2>2 DEF Enter
<1>2. WriteRecord(p, x, f) /\ f \in {0, 5} BY DEF Enter
<1> HIDE DEF f
<1>3. pos' \in [Clients -> Cells] /\ flag' \in [Clients -> {0, 5}]
    BY <1>2 DEF WriteRecord, FlagReset
<1>4. CASE Len(up[p]) < UpMax /\ up' = [up EXCEPT ![p] = Append(@, [pos |-> x, flag |-> f])]
           /\ input' = [input EXCEPT ![p] = "loop"] /\ UNCHANGED <<link, main, verdict>>
    <2> DEFINE r == [pos |-> x, flag |-> f]
    <2>1. r \in Records BY <1>2 DEF Records
    <2>2. Append(up[p], r) \in Seq(Records) /\ Len(Append(up[p], r)) = Len(up[p]) + 1
        BY <2>1, AppendProperties
    <2>3. Len(up[p]) \in Nat BY LenProperties
    <2> HIDE DEF r
    <2>4. up' = [up EXCEPT ![p] = Append(up[p], r)] BY <1>4 DEF r
    <2>5. up' \in [Clients -> Seq(Records)] /\ \A q \in Clients : Len(up'[q]) <= UpMax
        BY <1>4, <2>2, <2>3, <2>4, ClientAssumption
    <2> QED BY <1>1, <1>3, <1>4, <2>5
<1>5. CASE link' = [link EXCEPT ![p] = "rst"] /\ input' = [input EXCEPT ![p] = "loop"]
           /\ UNCHANGED <<up, main, verdict>>
    BY <1>1, <1>3, <1>5
<1>6. CASE main' = [main EXCEPT ![p] = "ended"] /\ verdict' = [verdict EXCEPT ![p] = "killed"]
           /\ UNCHANGED <<up, link, input>>
    BY <1>1, <1>3, <1>6
<1> QED BY <1>2, <1>4, <1>5, <1>6 DEF WriteRecord

LEMMA TypeKey ==
    ASSUME ClientsOK, NEW p \in Clients, KeyStep(p)
    PROVE  ClientsOK'
<1>1. CASE Bracket(p) BY <1>1, TypeThreads
<1>2. ASSUME NEW k \in Keys, Press(p, k) PROVE ClientsOK'
    BY <1>2, TypeWrite DEF Press, ClientsOK
<1>3. ASSUME NEW k \in Keys, Arrow(p, k) PROVE ClientsOK'
    <2>1. Moved(pos[p], k) \in Cells
        BY MoveIsAdjacent, ClientAssumption DEF ClientsOK
    <2> QED BY <1>3, <2>1, TypeWrite DEF Arrow
<1> QED BY <1>1, <1>2, <1>3 DEF KeyStep

LEMMA TypeClient ==
    ASSUME TypeOK, NEW p \in Clients, ClientStep(p)
    PROVE  TypeOK'
<1>1. ClientsOK' BY TypeMain, TypeThreads, TypeKey DEF ClientStep, TypeOK
<1>2. ServerOK' BY DEF ClientStep, TypeOK, ServerOK, serverVars
<1> QED BY <1>1, <1>2 DEF TypeOK

\* Joining, telling and starting.
LEMMA TypeJoin ==
    ASSUME TypeOK, NEW p \in Clients, Connect(p) \/ Tell(p) \/ Start(p)
    PROVE  TypeOK'
<1> USE DEF TypeOK, ClientsOK, ServerOK
<1>1. CASE Connect(p)
    <2>1. joined' = joined + 1 /\ joined' \in Clients /\ phase' \in {"waiting", "joining"}
          /\ UNCHANGED <<told, board, clock, left, past, air, quiet>>
        BY <1>1, SameNames DEF Connect, Server!Join
    <2>2. joined' \in 0 .. Cardinality(Clients) BY <2>1, SameNames, ClientAssumption
    <2>3. ServerOK' BY <2>1, <2>2
    <2>4. ClientsOK' BY <1>1 DEF Connect
    <2> QED BY <2>3, <2>4
<1>2. CASE Tell(p) BY <1>2, SameNames DEF Tell, Server!Tell, clientVars
<1>3. CASE Start(p)
    <2>1. PICK v \in {0, 1} : ReadStart(p, v) BY <1>3 DEF Start
    <2>2. UNCHANGED <<serverVars, quiet>> BY <1>3 DEF Start
    <2> QED BY <2>1, <2>2 DEF ReadStart, serverVars
<1> QED BY <1>1, <1>2, <1>3

\* The server's own steps.
LEMMA TypeServer ==
    ASSUME TypeOK, Operator \/ ServerStep \/ ServerEnds
    PROVE  TypeOK'
<1> USE DEF TypeOK, ClientsOK, ServerOK, clientVars
<1>1. CASE Operator BY <1>1 DEF Operator, Server!Open, Server!Play
<1>2. CASE ServerStep
    <2>1. UNCHANGED <<clientVars, quiet>> BY <1>2 DEF ServerStep
    <2>2. CASE Server!Tick BY <2>1, <2>2, ClientAssumption DEF Server!Tick
    <2>3. CASE Server!Stamp BY <2>1, <2>3, ClientAssumption DEF Server!Stamp, Server!Elapsed
    <2>4. CASE Server!TimeUp BY <2>1, <2>4 DEF Server!TimeUp
    <2> QED BY <1>2, <2>2, <2>3, <2>4 DEF ServerStep
<1>3. CASE ServerEnds
    <2>1. up' \in [Clients -> Seq(Records)] /\ \A q \in Clients : Len(up'[q]) <= UpMax
        BY <1>3, EmptySeq, ClientAssumption DEF ServerEnds
    <2> QED BY <1>3, <2>1 DEF ServerEnds, Server!Gone
<1> QED BY <1>1, <1>2, <1>3

LEMMA FlippedBoard ==
    ASSUME TypeOK, NEW c \in PanelCells
    PROVE  board[c] \in {0, 1} /\ [board EXCEPT ![c] = 1 - board[c]] \in Server!Boards
BY SameNames, PanelsAreCells DEF TypeOK, ServerOK, Server!Boards

LEMMA TypeApply == ASSUME TypeOK, NEW p \in Clients, Apply(p) PROVE TypeOK'
<1> USE DEF TypeOK, ClientsOK
<1>1. Tail(up[p]) \in Seq(Records) /\ Len(Tail(up[p])) <= UpMax
    BY HeadTailProperties, LenProperties, ClientAssumption DEF Apply
<1>2. ClientsOK'
    <2>1. up' = [up EXCEPT ![p] = Tail(up[p])]
          /\ UNCHANGED <<main, start, view, queue, input, printer, pos, flag, link, verdict, enters>>
        BY DEF Apply
    <2> QED BY <1>1, <2>1
<1>3. ServerOK'
    <2>1. CASE UNCHANGED <<serverVars, quiet>> BY <2>1 DEF serverVars, ServerOK
    <2>2. ASSUME NEW c \in PanelCells, Server!Flip(c), quiet' = (quiet /\ clock < GameTime)
          PROVE  ServerOK'
        BY <2>2, FlippedBoard DEF Server!Flip, ServerOK
    <2> QED BY <2>1, <2>2 DEF Apply
<1> QED BY <1>2, <1>3

LEMMA Published ==
    ASSUME TypeOK, NEW S \in SUBSET Clients, Multicast(S)
    PROVE  /\ air' \in Server!Datagrams /\ air'.left = left
           /\ \A q \in Clients : \A k \in 1 .. Len(queue'[q]) :
                 queue'[q][k] = air' \/ \E j \in 1 .. Len(queue[q]) : queue'[q][k] = queue[q][j]
           /\ queue' \in [Clients -> Seq(Server!Datagrams)]
           /\ \A q \in Clients : Len(queue'[q]) <= QueueMax
           /\ UNCHANGED <<phase, joined, told, board, clock, left, quiet>> /\ past' = {}
           /\ UNCHANGED <<main, start, view, input, printer, pos, flag, up, link, verdict, enters>>
<1> USE DEF TypeOK, ClientsOK, ServerOK
<1>1. PICK d \in Server!Boards : Server!Publish(d) BY DEF Multicast
<1>2. air' = [left |-> left, grid |-> d] /\ past' = {}
      /\ UNCHANGED <<phase, joined, told, board, clock, left>>
    BY <1>1 DEF Server!Publish
<1>3. air' \in Server!Datagrams /\ air'.left = left BY <1>2 DEF Server!Datagrams
<1>4. ASSUME NEW q \in Clients
      PROVE  /\ queue'[q] \in Seq(Server!Datagrams) /\ Len(queue'[q]) <= QueueMax
             /\ \A k \in 1 .. Len(queue'[q]) :
                   queue'[q][k] = air' \/ \E j \in 1 .. Len(queue[q]) : queue'[q][k] = queue[q][j]
    <2>1. CASE q \in S
        <3>1. queue'[q] = Append(queue[q], air') /\ Len(queue[q]) < QueueMax
            BY <2>1 DEF Multicast
        <3>2. /\ Append(queue[q], air') \in Seq(Server!Datagrams)
              /\ Len(Append(queue[q], air')) = Len(queue[q]) + 1
              /\ \A k \in 1 .. Len(queue[q]) : Append(queue[q], air')[k] = queue[q][k]
              /\ Append(queue[q], air')[Len(queue[q]) + 1] = air'
            BY <1>3, AppendProperties
        <3>3. Len(queue[q]) \in Nat BY LenProperties
        <3> QED BY <3>1, <3>2, <3>3, GameAssumption
    <2>2. CASE q \notin S
        <3>1. queue'[q] = queue[q] BY <2>2 DEF Multicast
        <3> QED BY <3>1
    <2> QED BY <2>1, <2>2
<1>5. queue' = [q \in Clients |-> queue'[q]] BY DEF Multicast
<1> QED BY <1>2, <1>3, <1>4, <1>5 DEF Multicast

LEMMA TypeMulticast == ASSUME TypeOK, NEW S \in SUBSET Clients, Multicast(S) PROVE TypeOK'
BY Published DEF TypeOK, ClientsOK, ServerOK

LEMMA TypeNext == TypeOK /\ [Next]_vars => TypeOK'
<1> SUFFICES ASSUME TypeOK, [Next]_vars PROVE TypeOK' OBVIOUS
<1>1. CASE Next BY <1>1, TypeServer, TypeJoin, TypeApply, TypeClient, TypeMulticast DEF Next
<1>2. CASE UNCHANGED vars
    BY <1>2 DEF vars, clientVars, serverVars, TypeOK, ClientsOK, ServerOK
<1> QED BY <1>1, <1>2

(* The variables keep their types: no move leaves the board, no queue grows *)
(* beyond its bound, and every datagram is a board of the game.             *)
THEOREM TypeCorrect == Spec => []TypeOK
BY TypeInit, TypeNext, PTL DEF Spec

------------------------------------------------------------------------------
(* Moves.                                                                   *)

(* On a board of any size a key moves a player to a neighbouring cell or    *)
(* not at all.                                                              *)
THEOREM MovesStayAdjacent == Spec => MovesAreAdjacent
<1>1. ASSUME TypeOK, [Next]_vars, NEW p \in Clients, pos'[p] # pos[p]
      PROVE  Adjacent(pos[p], pos'[p])
    <2>1. CASE \E q \in Clients, k \in Keys : Arrow(q, k)
        <3>1. PICK q \in Clients, k \in Keys : Arrow(q, k) BY <2>1
        <3>2. pos' = [pos EXCEPT ![q] = Moved(pos[q], k)] BY <3>1 DEF Arrow, Enter, WriteRecord
        <3>3. q = p /\ pos'[p] = Moved(pos[p], k)
            BY <1>1, <3>2 DEF TypeOK, ClientsOK
        <3> QED BY <1>1, <3>3, MoveIsAdjacent, ClientAssumption DEF TypeOK, ClientsOK
    <2>2. CASE \E q \in Clients, k \in Keys : Press(q, k)
        <3>1. PICK q \in Clients, k \in Keys : Press(q, k) BY <2>2
        <3>2. pos' = [pos EXCEPT ![q] = pos[q]] BY <3>1 DEF Press, Enter, WriteRecord
        <3> QED BY <1>1, <3>2 DEF TypeOK, ClientsOK
    <2>3. CASE UNCHANGED pos BY <1>1, <2>3
    <2>4. ASSUME NEW q \in Clients, ClientStep(q)
          PROVE  \/ UNCHANGED pos
                 \/ \E k \in Keys : Press(q, k) \/ Arrow(q, k)
        BY <2>4 DEF ClientStep, MainStep, PrinterStep, InputStep, KeyStep, LastDatagram, Receive,
                    NotStarted, Finish, Frame, FrameDrawn, PrinterEnds, SeesStart, LoopTest, Bracket
    <2>5. ASSUME NEW q \in Clients, Connect(q) \/ Tell(q) \/ Start(q) \/ Apply(q)
          PROVE  UNCHANGED pos
        BY <2>5 DEF Connect, Tell, Start, ReadStart, Apply, clientVars
    <2>6. CASE Operator \/ ServerStep \/ ServerEnds \/ UNCHANGED vars
        BY <2>3, <2>6 DEF Operator, ServerStep, ServerEnds, clientVars, vars
    <2>7. CASE \E S \in SUBSET Clients : Multicast(S) BY <2>3, <2>7 DEF Multicast
    <2> QED BY <1>1, <2>1, <2>2, <2>3, <2>4, <2>5, <2>6, <2>7 DEF Next
<1>2. TypeOK /\ [Next]_vars =>
        [ \A p \in Clients : pos'[p] # pos[p] => Adjacent(pos[p], pos'[p]) ]_vars
    BY <1>1
<1> QED BY <1>2, TypeCorrect, PTL DEF Spec, MovesAreAdjacent
------------------------------------------------------------------------------
(* The verdict.                                                             *)

Won == {"Red", "Blue", "Draw"}

(* A client that prints a winner has left its receive loop because of what  *)
(* it holds: one that never heard the start still waits in its input        *)
(* thread, and is never joined.                                             *)
VerdictInv ==
    \A p \in Clients :
        /\ main[p] \in {"connect", "greeted"} => input[p] = "none"
        /\ main[p] = "recv" /\ start[p] = 0 => input[p] = "spin"
        /\ main[p] = "join" => start[p] = 0 /\ (input[p] = "spin" \/ view[p].left = GameTime)
        /\ verdict[p] \in Won =>
              main[p] = "ended" /\ view[p].left = GameTime /\ verdict[p] = Winner(view[p].grid)

LEMMA ViewIs ==
    ASSUME TypeOK, NEW p \in Clients
    PROVE  view[p].left \in 0 .. GameTime
<1>1. CASE view[p] = ZeroView BY <1>1, ClientAssumption DEF ZeroView
<1>2. CASE view[p] \in Server!Datagrams BY <1>2 DEF Server!Datagrams
<1> QED BY <1>1, <1>2 DEF TypeOK, ClientsOK

LEMMA VerdictInit == Init => VerdictInv
BY DEF Init, ClientInit, VerdictInv, Won

LEMMA VerdictClient ==
    ASSUME TypeOK, VerdictInv, NEW p \in Clients, ClientStep(p)
    PROVE  VerdictInv'
<1> USE DEF TypeOK, ClientsOK, VerdictInv, Won
<1>1. CASE LastDatagram(p)
    <2>1. view[p].left = GameTime
        BY <1>1, ViewIs, ClientAssumption DEF LastDatagram, TimeSeen
    <2> QED BY <1>1, <2>1 DEF LastDatagram
<1>2. CASE Receive(p) BY <1>2 DEF Receive
<1>3. CASE NotStarted(p) BY <1>3 DEF NotStarted
<1>4. CASE Finish(p)
    <2>1. view[p].left = GameTime BY <1>4 DEF Finish
    <2> QED BY <1>4, <2>1 DEF Finish
<1>5. CASE PrinterStep(p) BY <1>5 DEF PrinterStep, Frame, FrameDrawn, PrinterEnds
<1>6. CASE SeesStart(p) BY <1>6 DEF SeesStart
<1>7. CASE LoopTest(p) BY <1>7 DEF LoopTest
<1>8. CASE Bracket(p) BY <1>8 DEF Bracket
<1>9. ASSUME NEW x, NEW k, Enter(p, x, k), Running(p), input[p] \in {"key", "second"},
             UNCHANGED <<start, view, queue, printer>>
      PROVE  VerdictInv'
    <2>1. PICK f : WriteRecord(p, x, f) BY <1>9 DEF Enter
    <2>2. CASE input' = [input EXCEPT ![p] = "loop"] /\ UNCHANGED <<main, verdict>>
        BY <1>9, <2>2
    <2>3. CASE main' = [main EXCEPT ![p] = "ended"] /\ verdict' = [verdict EXCEPT ![p] = "killed"]
               /\ UNCHANGED input
        BY <1>9, <2>3
    <2> QED BY <2>1, <2>2, <2>3 DEF WriteRecord
<1>10. CASE \E k \in Keys : Press(p, k) \/ Arrow(p, k) BY <1>9, <1>10 DEF Press, Arrow
<1> QED BY <1>1, <1>2, <1>3, <1>4, <1>5, <1>6, <1>7, <1>8, <1>10
        DEF ClientStep, MainStep, InputStep, KeyStep

LEMMA VerdictNext == TypeOK /\ VerdictInv /\ [Next]_vars => VerdictInv'
<1> SUFFICES ASSUME TypeOK, VerdictInv, [Next]_vars PROVE VerdictInv' OBVIOUS
<1>1. ASSUME NEW p \in Clients, Connect(p) PROVE VerdictInv'
    BY <1>1 DEF Connect, VerdictInv, TypeOK, ClientsOK, Won
<1>2. ASSUME NEW p \in Clients, Start(p) PROVE VerdictInv'
    <2>1. PICK v : ReadStart(p, v) BY <1>2 DEF Start
    <2> QED BY <2>1 DEF ReadStart, VerdictInv, TypeOK, ClientsOK, Won
<1>3. CASE UNCHANGED <<main, start, view, input, verdict>> BY <1>3 DEF VerdictInv
<1>4. ASSUME NEW p \in Clients, Tell(p) \/ Apply(p)
      PROVE  UNCHANGED <<main, start, view, input, verdict>>
    BY <1>4 DEF Tell, Apply, clientVars
<1>5. CASE \/ Operator \/ ServerStep \/ ServerEnds \/ UNCHANGED vars
           \/ \E S \in SUBSET Clients : Multicast(S)
    BY <1>3, <1>5 DEF Operator, ServerStep, ServerEnds, Multicast, clientVars, vars
<1> QED BY <1>1, <1>2, <1>3, <1>4, <1>5, VerdictClient DEF Next

(* For any number of players and any losses, a winner is computed from a    *)
(* datagram of the last second.                                             *)
THEOREM VerdictOfLastSecond == Spec => []VerdictIsFinal
<1>1. VerdictInv => VerdictIsFinal BY DEF VerdictInv, VerdictIsFinal, Won
<1> QED BY <1>1, TypeCorrect, VerdictInit, VerdictNext, PTL DEF Spec
------------------------------------------------------------------------------
(* Agreement.                                                               *)

\* A datagram is of the last second only if it shows board b.
LastShows(d, b) == d.left = GameTime => d.grid = b

(* While the last second is quiet there is one board of it, and every       *)
(* datagram of it, published or being made, shows that board.  Before it    *)
(* no datagram carries its stamp.                                           *)
QuietInv ==
    /\ left <= clock
    /\ \A p \in Clients :
        /\ view[p].left <= clock
        /\ \A k \in 1 .. Len(queue[p]) : queue[p][k].left <= clock
    /\ quiet =>
        /\ past # {} /\ left = GameTime => past = {board}
        /\ \A p \in Clients :
            /\ LastShows(view[p], board)
            /\ \A k \in 1 .. Len(queue[p]) : LastShows(queue[p][k], board)

LEMMA QueueIs ==
    ASSUME TypeOK, NEW p \in Clients, NEW k \in 1 .. Len(queue[p])
    PROVE  queue[p][k].left \in 0 .. GameTime
<1>1. queue[p][k] \in Server!Datagrams BY ElementOfSeq DEF TypeOK, ClientsOK
<1> QED BY <1>1 DEF Server!Datagrams

\* A game of no time at all has a last second from the start, before any datagram.
LEMMA QuietInit == ASSUME GameTime # 0, Init PROVE QuietInv
<1>1. left = 0 /\ clock = 0 /\ past = {} BY DEF Init, Server!BoardInit
<1>2. \A p \in Clients : view[p].left = 0 /\ Len(queue[p]) = 0
    BY DEF Init, ClientInit, ZeroView
<1> QED BY <1>1, <1>2 DEF QuietInv, LastShows

LEMMA QuietClient ==
    ASSUME TypeOK, QuietInv, NEW p \in Clients, ClientStep(p)
    PROVE  QuietInv'
<1>1. UNCHANGED <<clock, left, past, board, quiet>> BY DEF ClientStep, serverVars
<1> USE DEF QuietInv
<1>2. ASSUME queue[p] # << >>, queue' = [queue EXCEPT ![p] = Tail(queue[p])],
             view' = view \/ view' = [view EXCEPT ![p] = Head(queue[p])]
      PROVE  QuietInv'
    <2>1. queue[p] \in Seq(Server!Datagrams) BY DEF TypeOK, ClientsOK
    <2>2. /\ Head(queue[p]) = queue[p][1] /\ 1 \in 1 .. Len(queue[p])
          /\ \A k \in 1 .. Len(Tail(queue[p])) :
                Tail(queue[p])[k] = queue[p][k + 1] /\ k + 1 \in 1 .. Len(queue[p])
        BY <1>2, <2>1, HeadTailProperties, LenProperties
    <2>3. \A q \in Clients : \A k \in 1 .. Len(queue'[q]) :
              \E j \in 1 .. Len(queue[q]) : queue'[q][k] = queue[q][j]
        <3> SUFFICES ASSUME NEW q \in Clients, NEW k \in 1 .. Len(queue'[q])
                     PROVE  \E j \in 1 .. Len(queue[q]) : queue'[q][k] = queue[q][j]
            OBVIOUS
        <3>1. CASE q = p
            <4>1. queue'[p] = Tail(queue[p]) BY <1>2 DEF TypeOK, ClientsOK
            <4> QED BY <2>2, <3>1, <4>1
        <3>2. CASE q # p
            <4>1. queue'[q] = queue[q] BY <1>2, <3>2 DEF TypeOK, ClientsOK
            <4> QED BY <4>1
        <3> QED BY <3>1, <3>2
    <2>4. \A q \in Clients : view'[q] = view[q] \/ \E j \in 1 .. Len(queue[q]) : view'[q] = queue[q][j]
        BY <1>2, <2>2 DEF TypeOK, ClientsOK
    <2>5. \A q \in Clients : view'[q].left <= clock' /\ (quiet' => LastShows(view'[q], board'))
        BY <1>1, <2>4 DEF LastShows
    <2>6. \A q \in Clients : \A k \in 1 .. Len(queue'[q]) :
              queue'[q][k].left <= clock' /\ (quiet' => LastShows(queue'[q][k], board'))
        BY <1>1, <2>3 DEF LastShows
    <2> QED BY <1>1, <2>5, <2>6
<1>3. CASE UNCHANGED <<view, queue>> BY <1>1, <1>3
<1>4. CASE LastDatagram(p) BY <1>2, <1>4 DEF LastDatagram
<1>5. CASE Receive(p) BY <1>2, <1>5 DEF Receive
<1>6. ASSUME ~ LastDatagram(p), ~ Receive(p) PROVE UNCHANGED <<view, queue>>
    BY <1>6 DEF ClientStep, MainStep, PrinterStep, InputStep, KeyStep, NotStarted, Finish, Frame,
                FrameDrawn, PrinterEnds, SeesStart, LoopTest, Bracket, Press, Arrow
<1> QED BY <1>3, <1>4, <1>5, <1>6

LEMMA QuietApply ==
    ASSUME TypeOK, QuietInv, NEW p \in Clients, Apply(p)
    PROVE  QuietInv'
<1>1. UNCHANGED <<view, queue>> BY DEF Apply
<1>2. CASE UNCHANGED <<serverVars, quiet>>
    <2>1. UNCHANGED <<clock, left, past, board, quiet>> BY <1>2 DEF serverVars
    <2> QED BY <1>1, <2>1 DEF QuietInv
<1>3. CASE UNCHANGED <<clock, left>> /\ quiet' = (quiet /\ clock < GameTime)
    <2>1. quiet' => clock < GameTime BY <1>3
    <2>2. clock < GameTime =>
            /\ left # GameTime
            /\ \A q \in Clients : /\ view[q].left # GameTime
                                  /\ \A k \in 1 .. Len(queue[q]) : queue[q][k].left # GameTime
        BY ViewIs, QueueIs, ClientAssumption DEF QuietInv, TypeOK, ServerOK
    <2>3. quiet' => /\ left' # GameTime
                    /\ \A q \in Clients : /\ LastShows(view'[q], board')
                                          /\ \A k \in 1 .. Len(queue'[q]) :
                                                LastShows(queue'[q][k], board')
        BY <1>1, <1>3, <2>1, <2>2 DEF LastShows
    <2>4. /\ left' <= clock'
          /\ \A q \in Clients : /\ view'[q].left <= clock'
                                /\ \A k \in 1 .. Len(queue'[q]) : queue'[q][k].left <= clock'
        BY <1>1, <1>3 DEF QuietInv
    <2> QED BY <2>3, <2>4 DEF QuietInv
<1> QED BY <1>2, <1>3 DEF Apply, Server!Flip

LEMMA QuietMulticast ==
    ASSUME TypeOK, QuietInv, NEW S \in SUBSET Clients, Multicast(S)
    PROVE  QuietInv'
<1>1. PICK d \in Server!Boards : Server!Publish(d) BY DEF Multicast
<1>2. /\ air' = [left |-> left, grid |-> d] /\ past # {}
      /\ \A c \in Cells : \E g \in past : d[c] = g[c]
    BY <1>1, SameNames DEF Server!Publish
<1>3. ASSUME quiet PROVE LastShows(air', board)
    <2>1. SUFFICES ASSUME left = GameTime PROVE d = board BY <1>2 DEF LastShows
    <2>2. past = {board} BY <1>2, <1>3, <2>1 DEF QuietInv
    <2>3. \A c \in Cells : d[c] = board[c] BY <1>2, <2>2
    <2>4. board \in [Cells -> {-1, 0, 1}] /\ d \in [Cells -> {-1, 0, 1}]
        BY SameNames DEF TypeOK, ServerOK, Server!Boards
    <2> QED BY <2>3, <2>4
<1>4. /\ \A q \in Clients : \A k \in 1 .. Len(queue'[q]) :
            queue'[q][k] = air' \/ \E j \in 1 .. Len(queue[q]) : queue'[q][k] = queue[q][j]
      /\ UNCHANGED <<clock, left, board, quiet, view>> /\ past' = {} /\ air'.left = left
    BY Published
<1>5. \A q \in Clients : \A k \in 1 .. Len(queue'[q]) :
          queue'[q][k].left <= clock /\ (quiet => LastShows(queue'[q][k], board))
    BY <1>3, <1>4 DEF QuietInv, LastShows
<1> QED BY <1>4, <1>5 DEF QuietInv

LEMMA QuietNext == TypeOK /\ QuietInv /\ [Next]_vars => QuietInv'
<1> SUFFICES ASSUME TypeOK, QuietInv, [Next]_vars PROVE QuietInv' OBVIOUS
<1>1. CASE UNCHANGED <<clock, left, past, board, quiet, view, queue>> BY <1>1 DEF QuietInv
<1>2. ASSUME NEW p \in Clients, Connect(p) \/ Tell(p) \/ Start(p)
      PROVE  UNCHANGED <<clock, left, past, board, quiet, view, queue>>
    BY <1>2 DEF Connect, Tell, Start, ReadStart, Server!Join, Server!Tell, clientVars, serverVars
<1>3. CASE Operator \/ UNCHANGED vars
    BY <1>1, <1>3 DEF Operator, Server!Open, Server!Play, clientVars, serverVars, vars
<1>4. CASE ServerEnds
    BY <1>4 DEF ServerEnds, Server!Gone, QuietInv
<1>5. CASE ServerStep
    <2>1. UNCHANGED <<view, queue, quiet>> BY <1>5 DEF ServerStep, clientVars
    <2>2. clock \in Int /\ left \in Int BY ClientAssumption DEF TypeOK, ServerOK
    <2>3. CASE Server!Tick
        <3>1. clock' = clock + 1 /\ UNCHANGED <<left, past, board>> BY <2>3 DEF Server!Tick
        <3>2. \A q \in Clients : /\ view[q].left \in Int
                                 /\ \A k \in 1 .. Len(queue[q]) : queue[q][k].left \in Int
            BY ViewIs, QueueIs
        <3>3. \A n \in Int : n <= clock => n <= clock + 1 BY <2>2
        <3> QED BY <2>1, <2>2, <3>1, <3>2, <3>3 DEF QuietInv
    <2>4. CASE Server!Stamp
        <3>1. left' = clock /\ past' = {board} /\ UNCHANGED <<clock, board>>
            BY <2>4 DEF Server!Stamp, Server!Elapsed
        <3> QED BY <2>1, <2>2, <3>1 DEF QuietInv
    <2>5. CASE Server!TimeUp
        BY <1>1, <2>1, <2>5 DEF Server!TimeUp
    <2> QED BY <1>5, <2>3, <2>4, <2>5 DEF ServerStep
<1> QED BY <1>1, <1>2, <1>3, <1>4, <1>5, QuietClient, QuietApply, QuietMulticast DEF Next

(* In a game of at least one second, if nobody flips a panel during the     *)
(* last one, all players who see a winner see the same one, however many    *)
(* they are and whatever datagrams each of them lost.                       *)
THEOREM Agreement == GameTime # 0 => (Spec => []AgreeWhenQuiet)
<1> SUFFICES ASSUME GameTime # 0 PROVE Spec => []AgreeWhenQuiet OBVIOUS
<1>1. Init => QuietInv BY QuietInit
<1>2. TypeOK /\ VerdictInv /\ QuietInv => AgreeWhenQuiet
    BY DEF VerdictInv, QuietInv, AgreeWhenQuiet, Won, LastShows
<1> QED BY <1>1, <1>2, TypeCorrect, VerdictInit, VerdictNext, QuietNext, PTL DEF Spec
------------------------------------------------------------------------------
(* Enters.                                                                  *)

Flag(c) == [pos |-> c, flag |-> 5]

LEMMA PlacesFinite == IsFiniteSet(Clients \X (1 .. UpMax))
<1>1. IsFiniteSet(Clients) /\ UpMax \in Int BY ClientAssumption
<1>2. IsFiniteSet(1 .. UpMax) BY <1>1, FS_Interval
<1> QED BY <1>1, <1>2, FS_Product

LEMMA PendingFinite ==
    ASSUME NEW c PROVE IsFiniteSet(Pending(c)) /\ Cardinality(Pending(c)) \in Nat
<1>1. Pending(c) \subseteq Clients \X (1 .. UpMax) BY DEF Pending
<1> QED BY <1>1, PlacesFinite, FS_Subset, FS_CardinalityType

\* A record written for another cell or without the flag is not counted.
LEMMA PendingAppend ==
    ASSUME ClientsOK, NEW p \in Clients, NEW r \in Records, NEW c \in PanelCells,
           Len(up[p]) < UpMax, up' = [up EXCEPT ![p] = Append(up[p], r)]
    PROVE  Cardinality(Pending(c)') = Cardinality(Pending(c)) + (IF r = Flag(c) THEN 1 ELSE 0)
<1> DEFINE n == Len(up[p]) + 1
<1>1. /\ up'[p] = Append(up[p], r) /\ Len(up'[p]) = n /\ up'[p][n] = r
      /\ \A k \in 1 .. Len(up[p]) : up'[p][k] = up[p][k]
      /\ n \in 1 .. UpMax /\ Len(up[p]) \in Nat
    BY AppendProperties, LenProperties, ClientAssumption DEF ClientsOK
<1>2. \A q \in Clients : q # p => up'[q] = up[q] BY DEF ClientsOK
<1> HIDE DEF n
<1>3. ASSUME NEW k \in 1 .. UpMax
      PROVE  <<p, k>> \in Pending(c)' <=> <<p, k>> \in Pending(c) \/ (k = n /\ r = Flag(c))
    <2>1. k <= n <=> k <= Len(up[p]) \/ k = n BY <1>1 DEF n
    <2>2. n > Len(up[p]) BY <1>1 DEF n
    <2> QED BY <1>1, <2>1, <2>2 DEF Pending, Flag
<1>4. \A q \in Clients, k \in 1 .. UpMax :
          q # p => (<<q, k>> \in Pending(c)' <=> <<q, k>> \in Pending(c))
    BY <1>2 DEF Pending
<1>5. /\ \A e \in Pending(c)' : e = <<e[1], e[2]>> /\ e[1] \in Clients /\ e[2] \in 1 .. UpMax
      /\ \A e \in Pending(c) : e = <<e[1], e[2]>> /\ e[1] \in Clients /\ e[2] \in 1 .. UpMax
    BY DEF Pending
<1>6. <<p, n>> \notin Pending(c)
    <2>1. ~ (n <= Len(up[p])) BY <1>1 DEF n
    <2> QED BY <2>1 DEF Pending
<1>7. Pending(c)' = IF r = Flag(c) THEN Pending(c) \cup {<<p, n>>} ELSE Pending(c)
    <2> DEFINE P == Pending(c)
               Q == Pending(c)'
    <2>1. \A e \in Q : e \in P \/ (e = <<p, n>> /\ r = Flag(c)) BY <1>3, <1>4, <1>5
    <2>2. \A e \in P : e \in Q BY <1>3, <1>4, <1>5
    <2>3. r = Flag(c) => <<p, n>> \in Q BY <1>1, <1>3
    <2> HIDE DEF P, Q
    <2>4. Q = IF r = Flag(c) THEN P \cup {<<p, n>>} ELSE P BY <2>1, <2>2, <2>3
    <2> QED BY <2>4 DEF P, Q
<1>8. Cardinality(Pending(c) \cup {<<p, n>>}) = Cardinality(Pending(c)) + 1
    BY <1>6, PendingFinite, FS_AddElement
<1>9. Cardinality(Pending(c)) \in Nat BY PendingFinite
<1>10. CASE r = Flag(c) BY <1>7, <1>8, <1>10
<1>11. CASE r # Flag(c) BY <1>7, <1>9, <1>11
<1> QED BY <1>10, <1>11

\* Taking the first record shifts the others.
LEMMA PendingTail ==
    ASSUME ClientsOK, NEW p \in Clients, NEW c \in PanelCells,
           up[p] # << >>, up' = [up EXCEPT ![p] = Tail(up[p])]
    PROVE  Cardinality(Pending(c)') =
               Cardinality(Pending(c)) - (IF Head(up[p]) = Flag(c) THEN 1 ELSE 0)
<1> DEFINE P == Pending(c) \ {<<p, 1>>}
           Q == Pending(c)'
           Shifted(e) == IF e[1] = p THEN <<p, e[2] + 1>> ELSE e
           f == [e \in Q |-> Shifted(e)]
<1>1. /\ up'[p] = Tail(up[p]) /\ Len(up'[p]) = Len(up[p]) - 1 /\ Len(up[p]) \in Nat \ {0}
      /\ \A k \in 1 .. Len(up'[p]) : up'[p][k] = up[p][k + 1]
      /\ Head(up[p]) = up[p][1] /\ Len(up[p]) <= UpMax /\ UpMax \in Nat
    BY HeadTailProperties, LenProperties, ClientAssumption DEF ClientsOK
<1>2. \A q \in Clients : q # p => up'[q] = up[q] BY DEF ClientsOK
<1>3. \A e \in Clients \X (1 .. UpMax) : e = <<e[1], e[2]>> /\ e[1] \in Clients /\ e[2] \in 1 .. UpMax
    OBVIOUS
<1>4. /\ \A e \in Q : e \in Clients \X (1 .. UpMax)
      /\ \A e \in P : e \in Clients \X (1 .. UpMax)
    BY DEF Pending
<1>5. ASSUME NEW q \in Clients, NEW k \in 1 .. UpMax, q # p
      PROVE  <<q, k>> \in Q <=> <<q, k>> \in P
    BY <1>2, <1>5 DEF Pending
<1>6. ASSUME NEW k \in 1 .. UpMax
      PROVE  <<p, k>> \in Q => <<p, k + 1>> \in P
    <2>1. SUFFICES ASSUME k <= Len(up'[p]), up'[p][k] = Flag(c) PROVE <<p, k + 1>> \in P
        BY DEF Pending, Flag
    <2>2. k + 1 <= Len(up[p]) /\ up[p][k + 1] = Flag(c) /\ k + 1 \in 1 .. UpMax /\ k + 1 # 1
        BY <1>1, <2>1
    <2> QED BY <2>2 DEF Pending, Flag
<1>7. ASSUME NEW k \in 1 .. UpMax
      PROVE  <<p, k>> \in P => k - 1 \in 1 .. UpMax /\ <<p, k - 1>> \in Q
    <2>1. SUFFICES ASSUME k <= Len(up[p]), up[p][k] = Flag(c), k # 1
                   PROVE  k - 1 \in 1 .. UpMax /\ <<p, k - 1>> \in Q
        BY DEF Pending, Flag
    <2>2. k - 1 \in 1 .. UpMax /\ k - 1 <= Len(up'[p]) /\ up'[p][k - 1] = up[p][k]
        BY <1>1, <2>1
    <2> QED BY <2>1, <2>2 DEF Pending, Flag
<1> HIDE DEF P, Q
<1>8. ASSUME NEW e \in Q PROVE Shifted(e) \in P
    <2>1. CASE e[1] = p BY <1>3, <1>4, <1>6, <2>1
    <2>2. CASE e[1] # p BY <1>3, <1>4, <1>5, <2>2
    <2> QED BY <2>1, <2>2
<1>9. ASSUME NEW d \in Q, NEW e \in Q, Shifted(d) = Shifted(e) PROVE d = e
    <2>1. /\ d = <<d[1], d[2]>> /\ d[1] \in Clients /\ d[2] \in 1 .. UpMax
          /\ e = <<e[1], e[2]>> /\ e[1] \in Clients /\ e[2] \in 1 .. UpMax
        BY <1>3, <1>4
    <2>2. CASE d[1] = p /\ e[1] = p
        <3>1. d[2] + 1 = e[2] + 1 BY <1>9, <2>2
        <3>2. d[2] = e[2] BY <2>1, <3>1
        <3> QED BY <2>1, <2>2, <3>2
    <2>3. CASE d[1] = p /\ e[1] # p BY <1>9, <2>1, <2>3
    <2>4. CASE d[1] # p /\ e[1] = p BY <1>9, <2>1, <2>4
    <2>5. CASE d[1] # p /\ e[1] # p BY <1>9, <2>5
    <2> QED BY <2>2, <2>3, <2>4, <2>5
<1>10. ASSUME NEW d \in P PROVE \E e \in Q : Shifted(e) = d
    <2>1. d = <<d[1], d[2]>> /\ d[1] \in Clients /\ d[2] \in 1 .. UpMax BY <1>3, <1>4
    <2>2. CASE d[1] = p
        <3>1. <<p, d[2] - 1>> \in Q BY <1>7, <2>1, <2>2
        <3>2. Shifted(<<p, d[2] - 1>>) = d
            <4>1. (d[2] - 1) + 1 = d[2] BY <2>1
            <4> QED BY <2>1, <2>2, <4>1
        <3> QED BY <3>1, <3>2
    <2>3. CASE d[1] # p
        <3>1. d \in Q BY <1>5, <2>1, <2>3
        <3> QED BY <2>3, <3>1
    <2> QED BY <2>2, <2>3
<1>11. f \in Bijection(Q, P)
    <2> HIDE DEF Shifted
    <2>1. f \in [Q -> P] BY <1>8
    <2>2. f \in Injection(Q, P) BY <1>9, <2>1 DEF Injection, IsInjective
    <2>3. f \in Surjection(Q, P) BY <1>10, <2>1 DEF Surjection
    <2> QED BY <2>2, <2>3 DEF Bijection
<1>12. IsFiniteSet(Q)
    <2>1. Q \subseteq Clients \X (1 .. UpMax) BY <1>4
    <2> QED BY <2>1, PlacesFinite, FS_Subset
<1>13. Cardinality(P) = Cardinality(Q)
    <2>1. ExistsBijection(Q, P) BY <1>11 DEF ExistsBijection
    <2> QED BY <1>12, <2>1, FS_Bijection
<1>14. Cardinality(P) = IF <<p, 1>> \in Pending(c) THEN Cardinality(Pending(c)) - 1
                                                ELSE Cardinality(Pending(c))
    BY PendingFinite, FS_RemoveElement DEF P
<1>15. <<p, 1>> \in Pending(c) <=> Head(up[p]) = Flag(c)
    BY <1>1 DEF Pending, Flag
<1> QED BY <1>13, <1>14, <1>15, PendingFinite DEF Q
(* Each panel shows its first colour, changed once per Enter that is not    *)
(* still on its way.  It needs the connections, which lose nothing before   *)
(* the server ends, and that a record leaves no flag behind for the next.   *)
Counted(c) ==
    board[c] = (Server!InitialBoard[c] + enters[c] + Cardinality(Pending(c))) % 2

CountInv ==
    /\ phase # "gone" => \A p \in Clients : link[p] = "up"
    /\ \A p \in Clients : flag[p] = 0
    /\ phase \notin {"over", "gone"} => \A c \in PanelCells : Counted(c)

LEMMA CountInit == Init => CountInv
<1> SUFFICES ASSUME Init PROVE CountInv OBVIOUS
<1>1. phase = "joining" /\ board = Server!InitialBoard BY DEF Init, Server!BoardInit
<1>2. \A p \in Clients : link[p] = "up" /\ flag[p] = 0 /\ up[p] = << >>
    BY DEF Init, ClientInit
<1>3. ASSUME NEW c \in PanelCells PROVE Counted(c)
    <2>1. Len(<< >>) = 0 BY EmptySeq
    <2>2. Pending(c) = {} BY <1>2, <2>1 DEF Pending
    <2>3. Cardinality(Pending(c)) = 0 BY <2>2, FS_EmptySet
    <2>4. enters[c] = 0 BY DEF Init, ClientInit
    <2>5. Server!InitialBoard[c] \in {0, 1} BY InitialColour
    <2> QED BY <1>1, <2>3, <2>4, <2>5 DEF Counted
<1> QED BY <1>1, <1>2, <1>3 DEF CountInv

\* The steps that neither press, nor apply, nor end anything.
LEMMA CountKept ==
    ASSUME CountInv, UNCHANGED <<up, enters, board, link, flag>>,
           phase = "gone" => phase' = "gone",
           phase' \notin {"over", "gone"} => phase \notin {"over", "gone"}
    PROVE  CountInv'
<1>1. \A c : Pending(c)' = Pending(c) BY DEF Pending
<1>2. ASSUME NEW c \in PanelCells, Counted(c) PROVE Counted(c)'
    BY <1>1, <1>2 DEF Counted
<1>3. (phase # "gone" => \A p \in Clients : link[p] = "up")'
    BY DEF CountInv
<1>4. (\A p \in Clients : flag[p] = 0)'
    BY DEF CountInv
<1>5. (phase \notin {"over", "gone"} => \A c \in PanelCells : Counted(c))'
    <2>1. CASE phase' \in {"over", "gone"} BY <2>1
    <2>2. CASE phase' \notin {"over", "gone"}
        <3>1. \A c \in PanelCells : Counted(c) BY <2>2 DEF CountInv
        <3>2. \A c \in PanelCells : Counted(c)' BY <1>2, <3>1
        <3> QED BY <3>2
    <2> QED BY <2>1, <2>2
<1> QED BY <1>3, <1>4, <1>5 DEF CountInv

LEMMA CountWrite ==
    ASSUME TypeOK, CountInv, NEW p \in Clients, NEW x \in Cells, NEW k, Enter(p, x, k),
           UNCHANGED serverVars
    PROVE  CountInv'
<1> DEFINE f == IF k = "Enter" THEN 5 ELSE flag[p]
           r == [pos |-> x, flag |-> f]
<1>1. WriteRecord(p, x, f) BY DEF Enter
<1>2. f = IF k = "Enter" THEN 5 ELSE 0 BY DEF CountInv
<1>3. r \in Records BY <1>2 DEF Records
<1>4. UNCHANGED <<phase, board>> BY DEF serverVars
<1>5. \A q \in Clients : flag'[q] = 0
    BY <1>1 DEF WriteRecord, FlagReset, CountInv, TypeOK, ClientsOK
<1>6. CASE phase = "gone"
    BY <1>4, <1>5, <1>6 DEF CountInv
<1>7. CASE phase # "gone"
    <2>1. link[p] = "up" BY <1>7 DEF CountInv
    <2>2. Len(up[p]) < UpMax /\ up' = [up EXCEPT ![p] = Append(up[p], r)] /\ link' = link
        BY <1>1, <2>1 DEF WriteRecord
    <2>3. ASSUME phase \notin {"over", "gone"}, NEW c \in PanelCells PROVE Counted(c)'
        <3>1. Cardinality(Pending(c)') = Cardinality(Pending(c)) + (IF r = Flag(c) THEN 1 ELSE 0)
            BY <1>3, <2>2, PendingAppend DEF TypeOK
        <3>2. r = Flag(c) <=> k = "Enter" /\ x = c BY <1>2 DEF Flag
        <3>3. enters'[c] = IF k = "Enter" /\ x = c THEN 1 - enters[c] ELSE enters[c]
            BY DEF Enter, TypeOK, ClientsOK
        <3>4. /\ enters[c] \in {0, 1} /\ Server!InitialBoard[c] \in {0, 1}
              /\ Cardinality(Pending(c)) \in Nat
            BY InitialColour, PendingFinite DEF TypeOK, ClientsOK
        <3>5. board'[c] = (Server!InitialBoard[c] + enters[c] + Cardinality(Pending(c))) % 2
            BY <1>4, <2>3 DEF CountInv, Counted
        <3> HIDE DEF r, f
        <3>6. CASE k = "Enter" /\ x = c
            <4>1. Cardinality(Pending(c)') = Cardinality(Pending(c)) + 1 BY <3>1, <3>2, <3>6
            <4>2. enters'[c] = 1 - enters[c] BY <3>3, <3>6
            <4>3. board'[c] = (Server!InitialBoard[c] + (1 - enters[c])
                                 + (Cardinality(Pending(c)) + 1)) % 2
                BY <3>4, <3>5
            <4> QED BY <4>1, <4>2, <4>3 DEF Counted
        <3>7. CASE ~ (k = "Enter" /\ x = c)
            <4>1. Cardinality(Pending(c)') = Cardinality(Pending(c)) BY <3>1, <3>2, <3>4, <3>7
            <4>2. enters'[c] = enters[c] BY <3>3, <3>7
            <4> QED BY <3>5, <4>1, <4>2 DEF Counted
        <3> QED BY <3>6, <3>7
    <2> QED BY <1>4, <1>5, <2>2, <2>3 DEF CountInv
<1> QED BY <1>6, <1>7

LEMMA CountApply ==
    ASSUME TypeOK, CountInv, NEW p \in Clients, Apply(p)
    PROVE  CountInv'
<1> DEFINE r == Head(up[p])
<1>1. /\ up[p] # << >> /\ up' = [up EXCEPT ![p] = Tail(up[p])] /\ phase \in {"open", "play"}
      /\ UNCHANGED <<enters, link, flag>>
    BY DEF Apply
<1>2. /\ phase' = phase
      /\ board' = IF r.flag = 5 /\ r.pos \in PanelCells
                  THEN [board EXCEPT ![r.pos] = 1 - board[r.pos]] ELSE board
    BY DEF Apply, Server!Flip, serverVars
<1>3. r \in Records BY <1>1, HeadTailProperties DEF TypeOK, ClientsOK
<1>4. \A c : r = Flag(c) <=> r.flag = 5 /\ r.pos = c BY <1>3 DEF Records, Flag
<1> HIDE DEF r
<1>5. ASSUME NEW c \in PanelCells PROVE Counted(c)'
    <2>1. Cardinality(Pending(c)') = Cardinality(Pending(c)) - (IF r = Flag(c) THEN 1 ELSE 0)
        BY <1>1, PendingTail DEF TypeOK, r
    <2>2. board \in [Cells -> {-1, 0, 1}] /\ c \in Cells
        BY SameNames, PanelsAreCells DEF TypeOK, ServerOK, Server!Boards
    <2>3. board'[c] = IF r = Flag(c) THEN 1 - board[c] ELSE board[c]
        BY <1>2, <1>4, <2>2
    <2>4. /\ enters[c] \in {0, 1} /\ Server!InitialBoard[c] \in {0, 1}
          /\ Cardinality(Pending(c)) \in Nat
        BY InitialColour, PendingFinite DEF TypeOK, ClientsOK
    <2>5. board[c] = (Server!InitialBoard[c] + enters[c] + Cardinality(Pending(c))) % 2
        BY <1>1 DEF CountInv, Counted
    <2>6. CASE r = Flag(c)
        <3>1. Cardinality(Pending(c)') = Cardinality(Pending(c)) - 1 /\ board'[c] = 1 - board[c]
            BY <2>1, <2>3, <2>6
        <3>2. 1 - board[c] = (Server!InitialBoard[c] + enters[c]
                                + (Cardinality(Pending(c)) - 1)) % 2
            BY <2>4, <2>5
        <3> QED BY <1>1, <3>1, <3>2 DEF Counted
    <2>7. CASE r # Flag(c)
        <3>1. Cardinality(Pending(c)') = Cardinality(Pending(c)) BY <2>1, <2>4, <2>7
        <3> QED BY <1>1, <2>3, <2>5, <2>7, <3>1 DEF Counted
    <2> QED BY <2>6, <2>7
<1> QED BY <1>1, <1>2, <1>5 DEF CountInv

LEMMA CountNext == TypeOK /\ CountInv /\ [Next]_vars => CountInv'
<1> SUFFICES ASSUME TypeOK, CountInv, [Next]_vars PROVE CountInv' OBVIOUS
<1>1. ASSUME NEW p \in Clients, ClientStep(p) PROVE CountInv'
    <2>1. UNCHANGED serverVars BY <1>1 DEF ClientStep
    <2>2. CASE UNCHANGED <<up, enters, link, flag>>
        BY <2>1, <2>2, CountKept DEF serverVars
    <2>3. ASSUME NEW k \in Keys, Press(p, k) PROVE CountInv'
        BY <2>1, <2>3, CountWrite DEF Press, TypeOK, ClientsOK
    <2>4. ASSUME NEW k \in Keys, Arrow(p, k) PROVE CountInv'
        <3>1. Moved(pos[p], k) \in Cells
            BY MoveIsAdjacent, ClientAssumption DEF TypeOK, ClientsOK
        <3> QED BY <2>1, <2>4, <3>1, CountWrite DEF Arrow
    <2> QED BY <1>1, <2>2, <2>3, <2>4
            DEF ClientStep, MainStep, PrinterStep, InputStep, KeyStep, LastDatagram, Receive,
                NotStarted, Finish, Frame, FrameDrawn, PrinterEnds, SeesStart, LoopTest, Bracket
<1>2. ASSUME NEW p \in Clients, Connect(p) \/ Tell(p) \/ Start(p) PROVE CountInv'
    BY <1>2, CountKept
       DEF Connect, Tell, Start, ReadStart, Server!Join, Server!Tell, clientVars, serverVars
<1>3. CASE Operator
    BY <1>3, CountKept DEF Operator, Server!Open, Server!Play, clientVars
<1>4. CASE ServerStep
    BY <1>4, CountKept DEF ServerStep, Server!Tick, Server!Stamp, Server!TimeUp, clientVars
<1>5. CASE ServerEnds BY <1>5 DEF ServerEnds, Server!Gone, CountInv
<1>6. CASE \E S \in SUBSET Clients : Multicast(S)
    BY <1>6, CountKept DEF Multicast, Server!Publish
<1>7. CASE UNCHANGED vars BY <1>7, CountKept DEF vars, clientVars, serverVars
<1> QED BY <1>1, <1>2, <1>3, <1>4, <1>5, <1>6, <1>7, CountApply DEF Next

(* For any number of players and any board, every Enter on a panel flips it *)
(* exactly once at the server, and no other key does.                       *)
THEOREM EveryEnterCounts == Spec => []EntersCount
<1>1. CountInv => EntersCount BY DEF CountInv, Counted, EntersCount
<1> QED BY <1>1, TypeCorrect, CountInit, CountNext, PTL DEF Spec
===============================================================================
