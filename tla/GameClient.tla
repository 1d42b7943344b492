------------------------------ MODULE GameClient ------------------------------
(***************************************************************************)
(* The players' programs (multi_game_client.c): for each client its main    *)
(* thread, which reads the greeting, receives the datagrams and prints the  *)
(* winner, its input thread screen_data and its printing thread             *)
(* screen_print.  The module is open: the server and the network, which     *)
(* fill queue and empty up, are in module Game.                             *)
(*                                                                          *)
(* The input thread is the only one that keeps the mutex while it waits, so *)
(* that the mutex is taken exactly while it waits for the second key of an  *)
(* arrow; every other critical section is one step.                         *)
(***************************************************************************)
EXTENDS Integers, Sequences, FiniteSets

CONSTANTS
    Clients,   \* the players, 1 .. player_cnt
    GridNum,   \* clnt_init.grid_num
    PanelPos,  \* cell of each panel
    GameTime,  \* clnt_init.game_time
    Keys,      \* the keys the players use, among AllKeys
    UpMax      \* records that fit between a client and its handler

AllKeys == {"[", "A", "B", "C", "D", "Enter", "other"}
Cells == 0 .. GridNum * GridNum - 1
Panels == DOMAIN PanelPos
PanelCells == {PanelPos[j] : j \in Panels}

ASSUME ClientAssumption ==
    /\ IsFiniteSet(Clients) /\ Clients = 1 .. Cardinality(Clients)
    /\ GridNum \in Nat \ {0}
    /\ GameTime \in Nat
    /\ Panels \subseteq Nat /\ PanelPos \in [Panels -> Cells]
    /\ Keys \subseteq AllKeys
    /\ UpMax \in Nat

VARIABLES
    main,     \* "connect", "greeted", "recv", "join" or "ended"
    start,    \* the flag start
    view,     \* game_info, as far as the board and the time go
    queue,    \* datagrams in the UDP socket
    input,    \* "none", "spin", "loop", "key", "second" or "done"
    printer,  \* "none", "test", "frame" or "done"
    pos,      \* clnt_data.pos
    flag,     \* clnt_data.flag
    up,       \* records written and not yet read by the server
    link,     \* the TCP connection: "up", "shut" (server gone) or "rst"
    verdict,  \* what the client printed at its end, "none" before
    enters    \* history: Enters pressed on each panel, modulo 2

clientVars == <<main, start, view, queue, input, printer, pos, flag, up, link,
                verdict, enters>>

Records == [pos : Cells, flag : {0, 5}]
ZeroView == [left |-> 0, grid |-> [c \in Cells |-> 0]]

ClientInit ==
    /\ main = [p \in Clients |-> "connect"]
    /\ start = [p \in Clients |-> 0]
    /\ view = [p \in Clients |-> ZeroView]
    /\ queue = [p \in Clients |-> << >>]
    /\ input = [p \in Clients |-> "none"]
    /\ printer = [p \in Clients |-> "none"]
    /\ pos = [p \in Clients |-> 0]
    /\ flag = [p \in Clients |-> 0]
    /\ up = [p \in Clients |-> << >>]
    /\ link = [p \in Clients |-> "up"]
    /\ verdict = [p \in Clients |-> "none"]
    /\ enters = [c \in PanelCells |-> 0]

Running(p) == main[p] # "ended"
MutexFree(p) == input[p] # "second"

------------------------------------------------------------------------------
(* The main thread.                                                         *)

(* The read of the start value returns: v is the value, or 0 when the       *)
(* server ended first.  The threads are created.                            *)
ReadStart(p, v) ==
    /\ main[p] = "greeted"
    /\ start' = [start EXCEPT ![p] = v]
    /\ main' = [main EXCEPT ![p] = "recv"]
    /\ input' = [input EXCEPT ![p] = "spin"]
    /\ printer' = [printer EXCEPT ![p] = "test"]
    /\ UNCHANGED <<view, queue, pos, flag, up, link, verdict, enters>>

\* Defect: the end is noticed one second early.
TimeSeenEarly(v) == v.left >= GameTime - 1

\* Defect: the end is noticed after the last second only, which is never broadcast.
TimeSeenLate(v) == v.left > GameTime

TimeSeen(v) == v.left >= GameTime

\* The datagram is not looked at when the one before was the last second's.
LastDatagram(p) ==
    /\ main[p] = "recv" /\ start[p] = 1
    /\ queue[p] # << >>
    /\ TimeSeen(view[p])
    /\ start' = [start EXCEPT ![p] = 0]
    /\ main' = [main EXCEPT ![p] = "join"]
    /\ queue' = [queue EXCEPT ![p] = Tail(@)]
    /\ UNCHANGED <<view, input, printer, pos, flag, up, link, verdict, enters>>

Receive(p) ==
    /\ main[p] = "recv" /\ start[p] = 1
    /\ queue[p] # << >>
    /\ ~ TimeSeen(view[p])
    /\ MutexFree(p)
    /\ view' = [view EXCEPT ![p] = Head(queue[p])]
    /\ queue' = [queue EXCEPT ![p] = Tail(@)]
    /\ UNCHANGED <<main, start, input, printer, pos, flag, up, link, verdict, enters>>

\* Told 0, or nothing: the receive loop is skipped.
NotStarted(p) ==
    /\ main[p] = "recv" /\ start[p] = 0
    /\ main' = [main EXCEPT ![p] = "join"]
    /\ UNCHANGED <<start, view, queue, input, printer, pos, flag, up, link,
                   verdict, enters>>

Half == Cardinality(Panels) \div 2

Winner(grid) ==
    LET red == Cardinality({j \in Panels : grid[PanelPos[j]] = 0})
    IN  IF red - Half = 0 THEN "Draw" ELSE IF red - Half > 0 THEN "Red" ELSE "Blue"

\* Both threads are joined and the winner is printed.
Finish(p) ==
    /\ main[p] = "join"
    /\ input[p] = "done" /\ printer[p] = "done"
    /\ verdict' = [verdict EXCEPT ![p] = Winner(view[p].grid)]
    /\ main' = [main EXCEPT ![p] = "ended"]
    /\ UNCHANGED <<start, view, queue, input, printer, pos, flag, up, link, enters>>

------------------------------------------------------------------------------
(* The printing thread: a frame is drawn under the mutex.                   *)

Frame(p) ==
    /\ Running(p)
    /\ printer[p] = "test" /\ start[p] = 1
    /\ printer' = [printer EXCEPT ![p] = "frame"]
    /\ UNCHANGED <<main, start, view, queue, input, pos, flag, up, link, verdict, enters>>

FrameDrawn(p) ==
    /\ Running(p)
    /\ printer[p] = "frame" /\ MutexFree(p)
    /\ printer' = [printer EXCEPT ![p] = "test"]
    /\ UNCHANGED <<main, start, view, queue, input, pos, flag, up, link, verdict, enters>>

PrinterEnds(p) ==
    /\ Running(p)
    /\ printer[p] = "test" /\ start[p] = 0
    /\ printer' = [printer EXCEPT ![p] = "done"]
    /\ UNCHANGED <<main, start, view, queue, input, pos, flag, up, link, verdict, enters>>

------------------------------------------------------------------------------
(* The input thread.                                                        *)

\* It waits for start = 1; what was typed before is flushed.
SeesStart(p) ==
    /\ Running(p)
    /\ input[p] = "spin" /\ start[p] = 1
    /\ input' = [input EXCEPT ![p] = "loop"]
    /\ UNCHANGED <<main, start, view, queue, printer, pos, flag, up, link, verdict, enters>>

LoopTest(p) ==
    /\ Running(p)
    /\ input[p] = "loop"
    /\ input' = [input EXCEPT ![p] = IF start[p] = 1 THEN "key" ELSE "done"]
    /\ UNCHANGED <<main, start, view, queue, printer, pos, flag, up, link, verdict, enters>>

\* Defect: the right border of the board is tested, not that of the row.
RightWraps(x) == IF x + 1 < GridNum * GridNum THEN x + 1 ELSE x

\* Defect: the last row is one row too low.
DownOffByOne(x) == IF x + GridNum <= GridNum * GridNum THEN x + GridNum ELSE x

\* The border tests of the four arrows.
Right(x) == IF (x + 1) % GridNum # 0 THEN x + 1 ELSE x
Left(x) == IF x % GridNum # 0 THEN x - 1 ELSE x
Up(x) == IF x - GridNum >= 0 THEN x - GridNum ELSE x
Down(x) == IF x + GridNum < GridNum * GridNum THEN x + GridNum ELSE x

Moved(x, k) ==
    CASE k = "A" -> Up(x)
      [] k = "B" -> Down(x)
      [] k = "C" -> Right(x)
      [] k = "D" -> Left(x)
      [] OTHER -> x

\* Defect: the flag of an Enter stays set after its record.
FlagKept(f) == f

FlagReset(f) == 0

(* The record is written to the server at position x with flag f.  After    *)
(* the server has ended a first write provokes a reset and a write after    *)
(* the reset ends the client with SIGPIPE.                                  *)
WriteRecord(p, x, f) ==
    /\ pos' = [pos EXCEPT ![p] = x]
    /\ flag' = [flag EXCEPT ![p] = FlagReset(f)]
    /\ \/ /\ link[p] = "up" /\ Len(up[p]) < UpMax
          /\ up' = [up EXCEPT ![p] = Append(@, [pos |-> x, flag |-> f])]
          /\ input' = [input EXCEPT ![p] = "loop"]
          /\ UNCHANGED <<link, main, verdict>>
       \/ /\ link[p] # "up"
          /\ link' = [link EXCEPT ![p] = "rst"]
          /\ input' = [input EXCEPT ![p] = "loop"]
          /\ UNCHANGED <<up, main, verdict>>
       \/ /\ link[p] = "rst"
          /\ main' = [main EXCEPT ![p] = "ended"]
          /\ verdict' = [verdict EXCEPT ![p] = "killed"]
          /\ UNCHANGED <<up, link, input>>

\* The Enter of the player, whether it is the first key or follows a "[".
Enter(p, x, k) ==
    /\ enters' = IF k = "Enter" /\ x \in PanelCells
                 THEN [enters EXCEPT ![x] = 1 - @] ELSE enters
    /\ WriteRecord(p, x, IF k = "Enter" THEN 5 ELSE flag[p])

\* A key other than "[" is handled and reported at once, whatever it is.
Press(p, k) ==
    /\ Running(p)
    /\ input[p] = "key"
    /\ k \in Keys \ {"["}
    /\ Enter(p, pos[p], k)
    /\ UNCHANGED <<start, view, queue, printer>>

\* After "[" the thread waits for the next key with the mutex held.
Bracket(p) ==
    /\ Running(p)
    /\ input[p] = "key"
    /\ "[" \in Keys
    /\ input' = [input EXCEPT ![p] = "second"]
    /\ UNCHANGED <<main, start, view, queue, printer, pos, flag, up, link, verdict, enters>>

Arrow(p, k) ==
    /\ Running(p)
    /\ input[p] = "second"
    /\ k \in Keys
    /\ Enter(p, Moved(pos[p], k), k)
    /\ UNCHANGED <<start, view, queue, printer>>

------------------------------------------------------------------------------

MainStep(p) == LastDatagram(p) \/ Receive(p) \/ NotStarted(p) \/ Finish(p)
PrinterStep(p) == Frame(p) \/ FrameDrawn(p) \/ PrinterEnds(p)
InputStep(p) == SeesStart(p) \/ LoopTest(p)
KeyStep(p) == Bracket(p) \/ \E k \in Keys : Press(p, k) \/ Arrow(p, k)
==============================================================================
