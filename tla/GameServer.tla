------------------------------ MODULE GameServer ------------------------------
(***************************************************************************)
(* The game server process (multi_game_server.c) from its accept loop to    *)
(* its exit: the main thread, one handler thread per player, the mutex      *)
(* mutx, the flags test and start they share without it, and the state of   *)
(* each player's TCP connection as the server's calls see it.               *)
(*                                                                          *)
(* A flip is a read of the cell and a later write, and the broadcast copies *)
(* the board cell by cell: handlers and main run between these steps.  The  *)
(* program is compiled without optimisation (README.md l.44), so that the   *)
(* flags are read from memory each time they are tested.                    *)
(***************************************************************************)
EXTENDS Integers, FiniteSets

CONSTANTS
    PlayerCnt,  \* clnt_init.player_cnt
    CellCnt,    \* grid_num * grid_num
    PanelPos,   \* panel_pos, a function from 0 .. panel_cnt - 1 to cells
    GameTime,   \* clnt_init.game_time
    Inputs,     \* what the operator may type at "Input num 1: "
    Misread,    \* player ids sent by a client that misread its greeting
    Reads       \* how many ints one read of a record may give

Players == 1 .. PlayerCnt
Cells == 0 .. CellCnt - 1
Panels == DOMAIN PanelPos
PanelCells == {PanelPos[j] : j \in Panels}

ASSUME ServerAssumption ==
    /\ PlayerCnt \in Nat \ {0}
    /\ CellCnt \in Nat \ {0}
    /\ GameTime \in Nat
    /\ Panels \subseteq Nat /\ PanelPos \in [Panels -> Cells]
    \* proved of the placement as PlacementCorrect in GameSetupProofs
    /\ \A j, k \in Panels : PanelPos[j] = PanelPos[k] => j = k
    /\ Inputs \subseteq Int
    /\ Misread \subseteq Int
    /\ Reads \subseteq 1 .. 3

(* A client writes client_data records of three ints: its id, its cell and  *)
(* 5 for Enter.  A read may give fewer of them, and those after it are then *)
(* taken for other fields; a read that ends inside an int is left out.      *)
(* Whatever the stack holds is -1.                                          *)
Word(p, k) == CASE k = 0 -> {p} \cup Misread [] k = 1 -> Cells [] k = 2 -> {0, 5}
Words == Players \cup Misread \cup Cells \cup {0, 5}
Records == [player_id : Words, pos : Words \cup {-1}, flag : Words]
Slots == [player_id : Words \cup {-1}, pos : Words \cup {-1}]

InitialGrid ==
    [c \in Cells |-> IF c \in PanelCells
                     THEN (CHOOSE j \in Panels : PanelPos[j] = c) % 2
                     ELSE -1]

NoDatagram == [left |-> -1]
Free == 0

VARIABLES
    main,         \* where the main thread stands
    clnt_cnt,     \* players accepted
    test,         \* the operator's number, 0 before
    start,        \* 1 until the time is up
    clock,        \* whole seconds since startTime
    left_time,    \* game_info.left_time, 0 before the first datagram
    at,           \* first cell sendto has not yet copied
    dgram,        \* the copy
    air,          \* the last datagram sent
    mutx,         \* the player whose handler holds the mutex, or Free
    grid,         \* game_info.grid
    clnt_data,    \* game_info.clnt_data
    pc,           \* where each player's handler stands
    player_data,  \* the record a handler read last
    shift,        \* the int of a client's record that its handler reads next
    reg,          \* the cell's value a handler is about to negate
    conn,         \* each player's connection
    told,         \* the start value that reached each player, -1 when none
    flips,        \* history: flips of each cell, modulo 2
    past          \* history: the boards there were since left_time was set

mainVars == <<main, clnt_cnt, test, start, left_time, at, dgram, air>>
handlerVars == <<mutx, grid, clnt_data, pc, player_data, shift, reg, flips>>
vars == <<mainVars, handlerVars, clock, conn, told, past>>

(* main: accept, scan, check, copy, sleep; close after the broadcast loop   *)
(* with panel_pos freed; gone when the process has ended.                   *)
MainPCs == {"accept", "scan", "check", "copy", "sleep", "close", "gone"}
(* A handler: the three writes of its greeting, spin on test, tell start,   *)
(* loop test, blocking read, lock, the flip's read and write, unlock; done. *)
PCs == {"none", "count", "panels", "init", "spin", "tell", "loop", "read",
        "lock", "flip", "write", "unlock", "done"}
(* A connection: open; fin when the client has closed it; rst when it was   *)
(* reset, or when the server wrote after fin and the reset is on its way;   *)
(* bad when accept failed and the socket is -1.                             *)
Conns == {"none", "open", "fin", "rst", "bad"}

Section == {"flip", "write", "unlock"}
Alive == main # "gone"

Init ==
    /\ main = "accept"
    /\ clnt_cnt = 0 /\ test = 0 /\ start = 1
    /\ clock = 0 /\ left_time = 0
    /\ at = 0 /\ dgram = [c \in Cells |-> -1] /\ air = NoDatagram
    /\ mutx = Free
    /\ grid = InitialGrid
    /\ clnt_data = [i \in Words |-> [player_id |-> -1, pos |-> -1]]
    /\ pc = [p \in Players |-> "none"]
    /\ player_data = [p \in Players |-> [player_id |-> p, pos |-> -1, flag |-> 0]]
    /\ shift = [p \in Players |-> 0]
    /\ reg = [p \in Players |-> 0]
    /\ conn = [p \in Players |-> "none"]
    /\ told = [p \in Players |-> -1]
    /\ flips = [c \in Cells |-> 0]
    /\ past = {}

------------------------------------------------------------------------------
(* The main thread.                                                         *)

(* One turn of the accept loop.  accept's result is not looked at: a failed *)
(* call counts as a player.  No handler takes the mutex before the loop is  *)
(* over, so that main never waits for it here.                              *)
Accept(state) ==
    LET p == clnt_cnt + 1
    IN  /\ main = "accept"
        /\ state \in {"open", "bad"}
        /\ clnt_cnt' = p
        /\ conn' = [conn EXCEPT ![p] = state]
        /\ pc' = [pc EXCEPT ![p] = "count"]
        /\ main' = IF p = PlayerCnt THEN "scan" ELSE "accept"
        /\ UNCHANGED <<test, start, clock, left_time, at, dgram, air, mutx, grid,
                       clnt_data, player_data, shift, reg, told, flips, past>>

\* Anything but 0 ends the questions, anything but 1 leaves main in the loop.
Scan(v) ==
    /\ main = "scan"
    /\ test = 0
    /\ test' = v
    /\ main' = IF v = 1 THEN "check" ELSE "scan"
    /\ UNCHANGED <<clnt_cnt, start, clock, left_time, at, dgram, air,
                   handlerVars, conn, told, past>>

\* The microseconds divide to 0: the elapsed time is in whole seconds.
Tick ==
    /\ main \in {"check", "copy", "sleep"}
    /\ clock <= GameTime
    /\ clock' = clock + 1
    /\ UNCHANGED <<mainVars, handlerVars, conn, told, past>>

Stamp ==
    /\ main = "check"
    /\ clock <= GameTime
    /\ left_time' = clock
    /\ main' = "copy" /\ at' = 0
    /\ past' = {grid}
    /\ UNCHANGED <<clnt_cnt, test, start, clock, dgram, air, handlerVars, conn, told>>

\* Defect: the broadcast waits for the mutex, which a blocked handler may hold.
MayCopyLocked == mutx = Free

\* sendto reads the board without the mutex.
MayCopy == TRUE

CopyCell ==
    /\ main = "copy"
    /\ at < CellCnt
    /\ MayCopy
    /\ dgram' = [dgram EXCEPT ![at] = grid[at]]
    /\ at' = at + 1
    /\ UNCHANGED <<main, clnt_cnt, test, start, clock, left_time, air,
                   handlerVars, conn, told, past>>

\* Defect: the datagram is stamped when it is sent, not before it is copied.
SentTimeLate == clock

SentTime == left_time

Send ==
    /\ main = "copy"
    /\ at = CellCnt
    /\ air' = [left |-> SentTime, grid |-> dgram]
    /\ dgram' = [c \in Cells |-> -1] /\ at' = 0
    /\ main' = "sleep"
    /\ past' = {}
    /\ UNCHANGED <<clnt_cnt, test, start, clock, left_time, handlerVars, conn, told>>

Wake ==
    /\ main = "sleep"
    /\ main' = "check"
    /\ UNCHANGED <<clnt_cnt, test, start, clock, left_time, at, dgram, air,
                   handlerVars, conn, told, past>>

\* The time is up: start is cleared and panel_pos freed.
TimeUp ==
    /\ main = "check"
    /\ clock > GameTime
    /\ start' = 0
    /\ main' = "close"
    /\ UNCHANGED <<clnt_cnt, test, clock, left_time, at, dgram, air,
                   handlerVars, conn, told, past>>

\* main returns: the process ends, whatever the handlers are doing.
Exit ==
    /\ main = "close"
    /\ main' = "gone"
    /\ UNCHANGED <<clnt_cnt, test, start, clock, left_time, at, dgram, air,
                   handlerVars, conn, told, past>>

------------------------------------------------------------------------------
(* A player's handler thread.                                               *)

Goto(p, l) == pc' = [pc EXCEPT ![p] = l]

\* What a write does to the connection; a write after a reset may be fatal.
AfterWrite(p) == IF conn[p] = "fin" THEN "rst" ELSE conn[p]

\* The process ends in the middle of a handler's step.
Killed ==
    /\ main' = "gone"
    /\ past' = {}
    /\ UNCHANGED <<clnt_cnt, test, start, clock, left_time, at, dgram, air,
                   handlerVars, conn, told>>

\* SIGPIPE, which nothing in the program handles.
BrokenPipe(p) ==
    /\ Alive
    /\ pc[p] \in {"count", "panels", "init", "tell"}
    /\ conn[p] = "rst"
    /\ Killed

\* The three unchecked writes of the greeting.
Greet(p) ==
    /\ Alive
    /\ \/ pc[p] = "count" /\ Goto(p, "panels")
       \/ pc[p] = "panels" /\ Goto(p, "init")
       \/ pc[p] = "init" /\ Goto(p, "spin")
    /\ conn' = [conn EXCEPT ![p] = AfterWrite(p)]
    /\ UNCHANGED <<mainVars, clock, mutx, grid, clnt_data, player_data, shift, reg,
                   told, flips, past>>

\* Defect: the handlers do not wait for the operator.
OpenedAlways == TRUE

\* Defect: the handlers wait for the number main waits for.
OpenedOne == test = 1

Opened == test # 0

Spin(p) ==
    /\ Alive
    /\ pc[p] = "spin"
    /\ Opened
    /\ Goto(p, "tell")
    /\ UNCHANGED <<mainVars, clock, conn, mutx, grid, clnt_data, player_data, shift,
                   reg, told, flips, past>>

TellStart(p) ==
    /\ Alive
    /\ pc[p] = "tell"
    /\ Goto(p, "loop")
    /\ conn' = [conn EXCEPT ![p] = AfterWrite(p)]
    /\ told' = [told EXCEPT ![p] = IF conn[p] = "open" THEN start ELSE @]
    /\ UNCHANGED <<mainVars, clock, mutx, grid, clnt_data, player_data, shift, reg,
                   flips, past>>

Loop(p) ==
    /\ Alive
    /\ pc[p] = "loop"
    /\ Goto(p, IF start = 1 THEN "read" ELSE "done")
    /\ UNCHANGED <<mainVars, clock, conn, mutx, grid, clnt_data, player_data, shift,
                   reg, told, flips, past>>

\* Defect: the id check is off by one.
BadIndexOne(r) == r.player_id <= 1

BadIndex(r) == r.player_id < 1

(* The read gives n ints, and r is what player_data holds then: only 0 and  *)
(* -1 are looked for.  A client sends nothing before it was told to start.  *)
Arrives(p, r, n) ==
    /\ Alive
    /\ pc[p] = "read"
    /\ told[p] = 1
    /\ r.player_id \in Word(p, shift[p])
    /\ r.pos \in (IF n > 1 THEN Word(p, (shift[p] + 1) % 3) ELSE {player_data[p].pos})
    /\ r.flag \in (IF n > 2 THEN Word(p, (shift[p] + 2) % 3) ELSE {player_data[p].flag})

ReadRecord(p, r, n) ==
    /\ Arrives(p, r, n)
    /\ ~ BadIndex(r)
    /\ player_data' = [player_data EXCEPT ![p] = r]
    /\ shift' = [shift EXCEPT ![p] = (@ + n) % 3]
    /\ Goto(p, "lock")
    /\ UNCHANGED <<mainVars, clock, conn, mutx, grid, clnt_data, reg, told,
                   flips, past>>

\* error_handling ends the whole server.
IndexError(p, r, n) == Arrives(p, r, n) /\ BadIndex(r) /\ Killed

\* read gives 0 or -1: the handler closes the socket and ends.
ReadEnd(p) ==
    /\ Alive
    /\ pc[p] = "read"
    /\ conn[p] # "open"
    /\ Goto(p, "done")
    /\ UNCHANGED <<mainVars, clock, conn, mutx, grid, clnt_data, player_data, shift,
                   reg, told, flips, past>>

\* Defect: the update is made without the mutex.
MayLockAlways == TRUE

MayLock == mutx = Free

\* The record's slot is written as soon as the mutex is held.
Lock(p) ==
    /\ Alive
    /\ pc[p] = "lock"
    /\ MayLock
    /\ mutx' = p
    /\ clnt_data' = [clnt_data EXCEPT ![player_data[p].player_id] =
                        [player_id |-> player_data[p].player_id,
                         pos |-> player_data[p].pos]]
    /\ Goto(p, IF player_data[p].flag = 5 THEN "flip" ELSE "unlock")
    /\ UNCHANGED <<mainVars, clock, conn, grid, player_data, shift, reg, told, flips, past>>

(* Whether the loop over the panels meets the record's cell, which it does  *)
(* at most once.  Once main has freed panel_pos its contents are whatever   *)
(* the heap has put there; of grid, only the board's cells are modelled.    *)
OnPanel(p) ==
    IF main = "close" /\ player_data[p].pos \in Cells THEN BOOLEAN
    ELSE {player_data[p].pos \in PanelCells}

ReadCell(p) ==
    /\ Alive
    /\ pc[p] = "flip"
    /\ TRUE \in OnPanel(p)
    /\ reg' = [reg EXCEPT ![p] = grid[player_data[p].pos]]
    /\ Goto(p, "write")
    /\ UNCHANGED <<mainVars, clock, conn, mutx, grid, clnt_data, player_data, shift,
                   told, flips, past>>

NoPanel(p) ==
    /\ Alive
    /\ pc[p] = "flip"
    /\ FALSE \in OnPanel(p)
    /\ Goto(p, "unlock")
    /\ UNCHANGED <<mainVars, clock, conn, mutx, grid, clnt_data, player_data, shift,
                   reg, told, flips, past>>

\* C's ! on an int.
Negated(v) == IF v = 0 THEN 1 ELSE 0

WriteCell(p) ==
    /\ Alive
    /\ pc[p] = "write"
    /\ grid' = [grid EXCEPT ![player_data[p].pos] = Negated(reg[p])]
    /\ flips' = [flips EXCEPT ![player_data[p].pos] = 1 - @]
    /\ reg' = [reg EXCEPT ![p] = 0]
    /\ past' = IF past = {} THEN {} ELSE past \cup {grid'}
    /\ Goto(p, "unlock")
    /\ UNCHANGED <<mainVars, clock, conn, mutx, clnt_data, player_data, shift, told>>

Released == Free

Unlock(p) ==
    /\ Alive
    /\ pc[p] = "unlock"
    /\ mutx' = Released
    /\ Goto(p, "loop")
    /\ UNCHANGED <<mainVars, clock, conn, grid, clnt_data, player_data, shift, reg,
                   told, flips, past>>

------------------------------------------------------------------------------
(* The players' machines and the network.                                   *)

\* A client ends; with input it has not read its end resets the connection.
Leave(p) ==
    /\ Alive
    /\ conn[p] = "open"
    /\ \E c \in {"fin", "rst"} : conn' = [conn EXCEPT ![p] = c]
    /\ UNCHANGED <<mainVars, handlerVars, clock, told, past>>

------------------------------------------------------------------------------

MainStep == Stamp \/ CopyCell \/ Send \/ Wake \/ TimeUp \/ Exit

\* The steps a handler takes by itself, once it is scheduled.
HandlerStep(p) ==
    \/ BrokenPipe(p) \/ Greet(p) \/ Spin(p) \/ TellStart(p) \/ Loop(p)
    \/ ReadEnd(p)
    \/ Lock(p) \/ ReadCell(p) \/ NoPanel(p) \/ WriteCell(p) \/ Unlock(p)

Next ==
    \/ \E state \in {"open", "bad"} : Accept(state)
    \/ \E v \in Inputs : Scan(v)
    \/ Tick
    \/ MainStep
    \/ \E p \in Players :
          \/ HandlerStep(p)
          \/ /\ pc[p] = "read"
             /\ \E r \in Records, n \in Reads : ReadRecord(p, r, n) \/ IndexError(p, r, n)
          \/ Leave(p)

Spec == Init /\ [][Next]_vars

(* The main thread is scheduled and time passes.  Nothing is assumed of the *)
(* handlers and the clients.                                                *)
FairSpec == Spec /\ WF_vars(MainStep) /\ WF_vars(Tick)

\* The scheduler runs every handler that can run.
HandlersRun == \A p \in Players : WF_vars(HandlerStep(p))
------------------------------------------------------------------------------

\* Types of the variables; the copy is in order and the clock stops in time.
TypeOK ==
    /\ main \in MainPCs
    /\ clnt_cnt \in 0 .. PlayerCnt
    /\ test \in Inputs \cup {0} /\ start \in {0, 1}
    /\ clock \in 0 .. GameTime + 1 /\ left_time \in 0 .. GameTime
    /\ at \in 0 .. CellCnt /\ dgram \in [Cells -> {-1, 0, 1}]
    /\ air = NoDatagram \/ air \in [left : 0 .. GameTime, grid : [Cells -> {-1, 0, 1}]]
    /\ mutx \in Players \cup {Free}
    /\ grid \in [Cells -> {-1, 0, 1}]
    /\ clnt_data \in [Words -> Slots]
    /\ pc \in [Players -> PCs]
    /\ player_data \in [Players -> Records] /\ shift \in [Players -> 0 .. 2]
    /\ reg \in [Players -> {-1, 0, 1}]
    /\ conn \in [Players -> Conns]
    /\ told \in [Players -> {-1, 0, 1}]
    /\ flips \in [Cells -> {0, 1}]
    /\ past \subseteq [Cells -> {-1, 0, 1}]

(* Exactly the handler that holds the mutex is between lock and unlock      *)
(* (l.297-309), so that two never update the shared state at once.          *)
MutexHeld == \A p \in Players : pc[p] \in Section <=> mutx = p

(* Every Enter on a panel changes its colour once, however the handlers     *)
(* interleave between reading the cell and writing it (l.306), and the      *)
(* cells without a panel never change.                                      *)
NoLostFlip ==
    main \notin {"close", "gone"} =>
        \A c \in Cells :
            grid[c] = IF c \in PanelCells THEN (InitialGrid[c] + flips[c]) % 2 ELSE -1

(* A client learns that the game has started only when every player has     *)
(* been accepted and the operator has typed a number; it learns start = 0   *)
(* only when the time is up already.                                        *)
NoEarlyStart ==
    \A p \in Players :
        told[p] # -1 => /\ clnt_cnt = PlayerCnt
                        /\ test # 0
                        /\ told[p] = 0 => main \in {"close", "gone"}

(* Once every handler is through its writes to the client, nothing a client *)
(* does ends the server early: not its end, nor a reset, nor any record,    *)
(* but one that is read out of step after a short read (l.288), or one of a *)
(* client that misread its greeting, if its id is then below 1.             *)
PlaySurvivesDepartures ==
    [][ /\ \A p \in Players : pc[p] \in {"loop", "read", "done", "lock"} \cup Section
        /\ main # "close" /\ main' = "gone"
        => \E p \in Players :
              /\ pc[p] = "read" /\ told[p] = 1
              /\ (shift[p] # 0 \/ \E i \in Misread : i < 1) ]_vars

(* Whatever the clients and their handlers do, even when one of them holds  *)
(* the mutex for ever, the broadcast ends and so does the program.          *)
GameEnds == main = "check" ~> main = "gone"


(* A player that waits for the operator's number is told to start, even if  *)
(* the number leaves main in its loop for ever.                             *)
EveryoneTold ==
    HandlersRun =>
        \A p \in Players :
            (pc[p] = "spin" /\ test # 0)
                ~> (told[p] # -1 \/ conn[p] # "open" \/ main = "gone")

(* "access to the shared game state was serialised with pthread_mutex"      *)
(* (README.md l.19): no handler is updating the state while the broadcast   *)
(* reads it.                                                                *)
BroadcastSerialised ==
    \A p \in Players : pc[p] \in Section => ~ (main = "copy" /\ at < CellCnt)

\* The threads together do what GameBoard promises.
phase ==
    CASE main = "accept" -> "joining"
      [] main = "scan" -> IF test = 0 THEN "waiting" ELSE "open"
      [] main \in {"check", "copy", "sleep"} -> "play"
      [] main = "close" -> "over"
      [] main = "gone" -> "gone"

Board == INSTANCE GameBoard WITH
            joined <- clnt_cnt, board <- grid, left <- left_time
ServesBoard == Board!BoardSpec
==============================================================================
