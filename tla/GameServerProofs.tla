-------------------------- MODULE GameServerProofs --------------------------
(***************************************************************************)
(* Proofs about the server's threads, for any number of players, any board, *)
(* any placement of the panels and any input of the operator.               *)
(***************************************************************************)
EXTENDS GameServer, TLAPS

Greeting == {"none", "count", "panels", "init", "spin"}

(* Each accepted player has a number of its own, in 1 .. PlayerCnt, and no  *)
(* handler is past its greeting before all are accepted.                    *)
Counted ==
    /\ main = "accept" => clnt_cnt < PlayerCnt
    /\ main \notin {"accept", "gone"} => clnt_cnt = PlayerCnt
    /\ test # 0 => clnt_cnt = PlayerCnt
    /\ \A p \in Players : pc[p] \notin Greeting => test # 0

------------------------------------------------------------------------------
(* Types.                                                                   *)

LEMMA InitialGridType == InitialGrid \in [Cells -> {-1, 0, 1}]
<1> SUFFICES ASSUME NEW c \in PanelCells
             PROVE  (CHOOSE j \in Panels : PanelPos[j] = c) % 2 \in {0, 1}
    BY DEF InitialGrid
<1>1. \E j \in Panels : PanelPos[j] = c BY DEF PanelCells
<1>2. (CHOOSE j \in Panels : PanelPos[j] = c) \in Nat BY <1>1, ServerAssumption
<1> QED BY <1>2

LEMMA TypeInit == Init => TypeOK /\ Counted
BY ServerAssumption, InitialGridType
   DEF Init, TypeOK, Counted, Players, Cells, MainPCs, PCs, Conns, Slots, Records, Words, Free,
       Greeting

LEMMA PanelsOnBoard == PanelCells \subseteq Cells
BY ServerAssumption DEF PanelCells

\* The main thread's steps and the clock.
LEMMA TypeMain ==
    ASSUME TypeOK, Counted,
           \/ \E state \in {"open", "bad"} : Accept(state)
           \/ \E v \in Inputs : Scan(v)
           \/ Tick \/ MainStep
    PROVE  TypeOK' /\ Counted'
<1> USE ServerAssumption DEF TypeOK, Counted, MainPCs, mainVars, handlerVars, Greeting
<1>1. CASE \E state \in {"open", "bad"} : Accept(state)
    <2>1. PICK state \in {"open", "bad"} : Accept(state) BY <1>1
    <2>2. clnt_cnt + 1 \in Players BY <2>1 DEF Accept, Players
    <2>3. conn' \in [Players -> Conns] BY <2>1, <2>2 DEF Accept, Conns
    <2>4. pc' \in [Players -> PCs] BY <2>1, <2>2 DEF Accept, PCs
    <2>5. TypeOK' BY <2>1, <2>2, <2>3, <2>4 DEF Accept, Players
    <2>6. Counted' BY <2>1, <2>2 DEF Accept, Players
    <2> QED BY <2>5, <2>6
<1>2. CASE \E v \in Inputs : Scan(v)
    <2>1. PICK v \in Inputs : Scan(v) BY <1>2
    <2>2. TypeOK' BY <2>1 DEF Scan
    <2>3. Counted' BY <2>1 DEF Scan
    <2> QED BY <2>2, <2>3
<1>3. CASE Tick BY <1>3 DEF Tick
<1>4. CASE Stamp BY <1>4 DEF Stamp
<1>5. CASE CopyCell BY <1>5 DEF CopyCell, Cells
<1>6. CASE Send BY <1>6 DEF Send, SentTime
<1>7. CASE Wake BY <1>7 DEF Wake
<1>8. CASE TimeUp BY <1>8 DEF TimeUp
<1>9. CASE Exit BY <1>9 DEF Exit
<1> QED BY <1>1, <1>2, <1>3, <1>4, <1>5, <1>6, <1>7, <1>8, <1>9 DEF MainStep

\* The steps of a handler and the departure of its client.
LEMMA TypeHandler ==
    ASSUME TypeOK, Counted, NEW p \in Players,
           \/ HandlerStep(p)
           \/ \E r \in Records, n \in Reads : ReadRecord(p, r, n) \/ IndexError(p, r, n)
           \/ Leave(p)
    PROVE  TypeOK' /\ Counted'
<1> USE ServerAssumption DEF TypeOK, Counted, MainPCs, mainVars, handlerVars, Goto, PCs,
                             Greeting
<1>1. CASE BrokenPipe(p) BY <1>1 DEF BrokenPipe, Killed
<1>2. CASE Greet(p) BY <1>2 DEF Greet, AfterWrite, Conns
<1>3. CASE Spin(p) BY <1>3 DEF Spin, Opened
<1>4. CASE TellStart(p) BY <1>4 DEF TellStart, AfterWrite, Conns
<1>5. CASE Loop(p) BY <1>5 DEF Loop
<1>6. CASE ReadEnd(p) BY <1>6 DEF ReadEnd
<1>7. CASE Lock(p)
    <2>1. /\ player_data[p].player_id \in Words
          /\ player_data[p].pos \in Words \cup {-1} BY DEF Records
    <2>2. clnt_data' \in [Words -> Slots] BY <1>7, <2>1 DEF Lock, Slots
    <2>3. TypeOK' BY <1>7, <2>2 DEF Lock
    <2> QED BY <1>7, <2>3 DEF Lock
<1>8. CASE ReadCell(p)
    <2> DEFINE c == player_data[p].pos
    <2>1. c \in Cells
        <3>1. CASE main = "close" /\ c \in Cells BY <3>1
        <3>2. CASE ~ (main = "close" /\ c \in Cells)
            <4>1. TRUE \in {(c \in PanelCells)} BY <1>8, <3>2 DEF ReadCell, OnPanel
            <4> QED BY <4>1, PanelsOnBoard
        <3> QED BY <3>1, <3>2
    <2> QED BY <1>8, <2>1 DEF ReadCell
<1>9. CASE NoPanel(p) BY <1>9 DEF NoPanel
<1>10. CASE WriteCell(p)
    <2>2. grid' \in [Cells -> {-1, 0, 1}] BY <1>10 DEF WriteCell, Negated
    <2>3. flips' \in [Cells -> {0, 1}]
        <3> DEFINE c == player_data[p].pos
        <3>1. flips' = [flips EXCEPT ![c] = 1 - flips[c]] BY <1>10 DEF WriteCell
        <3>2. CASE c \in Cells
            <4>1. flips[c] \in {0, 1} BY <3>2
            <4>2. 1 - flips[c] \in {0, 1} BY <4>1
            <4> HIDE DEF c
            <4> QED BY <3>1, <3>2, <4>2
        <3>3. CASE c \notin Cells
            <4>1. flips' = flips
                <5> HIDE DEF c
                <5> QED BY <3>1, <3>3
            <4> QED BY <4>1
        <3> QED BY <3>2, <3>3
    <2>4. past' \subseteq [Cells -> {-1, 0, 1}] BY <1>10, <2>2 DEF WriteCell
    <2> QED BY <1>10, <2>2, <2>3, <2>4 DEF WriteCell
<1>11. CASE Unlock(p) BY <1>11 DEF Unlock, Released
<1>12. CASE \E r \in Records, n \in Reads : ReadRecord(p, r, n)
    <2>1. PICK r \in Records, n \in Reads : ReadRecord(p, r, n) BY <1>12
    <2>2. shift' \in [Players -> 0 .. 2] BY <2>1 DEF ReadRecord
    <2> QED BY <2>1, <2>2 DEF ReadRecord, Arrives
<1>13. CASE \E r \in Records, n \in Reads : IndexError(p, r, n) BY <1>13 DEF IndexError, Killed
<1>14. CASE Leave(p) BY <1>14 DEF Leave, Conns
<1> QED BY <1>1, <1>2, <1>3, <1>4, <1>5, <1>6, <1>7, <1>8, <1>9, <1>10, <1>11,
           <1>12, <1>13, <1>14 DEF HandlerStep

LEMMA TypeNext == TypeOK /\ Counted /\ [Next]_vars => TypeOK' /\ Counted'
<1> SUFFICES ASSUME TypeOK, Counted, [Next]_vars PROVE TypeOK' /\ Counted' OBVIOUS
<1>1. CASE Next BY <1>1, TypeMain, TypeHandler DEF Next
<1>2. CASE UNCHANGED vars
    BY <1>2 DEF vars, mainVars, handlerVars, TypeOK, Counted
<1> QED BY <1>1, <1>2

(* The variables keep their types: in particular every player gets a number *)
(* of the range 1 .. PlayerCnt.                                             *)
THEOREM TypeCorrect == Spec => [](TypeOK /\ Counted)
BY TypeInit, TypeNext, PTL DEF Spec

------------------------------------------------------------------------------
(* Mutual exclusion and the flips.                                          *)

\* A handler about to write a cell holds the value the cell still has.
HoldsCell ==
    main \notin {"close", "gone"} =>
        \A p \in Players : pc[p] = "write" => /\ player_data[p].pos \in PanelCells
                                             /\ reg[p] = grid[player_data[p].pos]

BoardInv == MutexHeld /\ HoldsCell /\ NoLostFlip

LEMMA InitialColour ==
    ASSUME NEW c \in Cells
    PROVE  /\ c \in PanelCells => InitialGrid[c] \in {0, 1}
           /\ c \notin PanelCells => InitialGrid[c] = -1
<1>1. ASSUME c \in PanelCells
      PROVE  (CHOOSE j \in Panels : PanelPos[j] = c) % 2 \in {0, 1}
    <2>1. \E j \in Panels : PanelPos[j] = c BY <1>1 DEF PanelCells
    <2>2. (CHOOSE j \in Panels : PanelPos[j] = c) \in Nat BY <2>1, ServerAssumption
    <2> QED BY <2>2
<1> QED BY <1>1 DEF InitialGrid

LEMMA BoardInit0 == Init => BoardInv
<1> SUFFICES ASSUME Init PROVE BoardInv OBVIOUS
<1>1. MutexHeld BY ServerAssumption DEF Init, MutexHeld, Section, Players, Free
<1>2. HoldsCell BY DEF Init, HoldsCell
<1>3. NoLostFlip
    <2>1. grid = InitialGrid /\ \A c \in Cells : flips[c] = 0 BY DEF Init
    <2> QED BY <2>1, InitialColour DEF NoLostFlip
<1> QED BY <1>1, <1>2, <1>3 DEF BoardInv

\* Main never touches the mutex, the board or a handler after the accept loop.
LEMMA BoardMain ==
    ASSUME TypeOK, Counted, BoardInv,
           \/ \E state \in {"open", "bad"} : Accept(state)
           \/ \E v \in Inputs : Scan(v)
           \/ Tick \/ MainStep
    PROVE  BoardInv'
<1> USE DEF BoardInv, MutexHeld, HoldsCell, NoLostFlip, mainVars, handlerVars
<1>1. CASE \E state \in {"open", "bad"} : Accept(state)
    <2>1. PICK state \in {"open", "bad"} : Accept(state) BY <1>1
    <2>2. \A q \in Players : pc[q] \in Greeting
        BY <2>1, ServerAssumption DEF Accept, Counted, TypeOK
    <2>3. \A q \in Players : pc[q] \notin Section /\ pc[q] # "write"
        BY <2>2 DEF Greeting, Section
    <2>4. \A q \in Players : pc'[q] = pc[q] \/ pc'[q] = "count"
        BY <2>1 DEF Accept, TypeOK
    <2>5. \A q \in Players : pc'[q] \notin Section /\ pc'[q] # "write"
        BY <2>3, <2>4 DEF Section
    <2>6. main # "close" /\ main # "gone" /\ mutx' = mutx /\ grid' = grid /\ flips' = flips
        BY <2>1 DEF Accept
    <2> QED BY <2>3, <2>5, <2>6
<1>2. CASE \E v \in Inputs : Scan(v) BY <1>2 DEF Scan
<1>3. CASE Tick BY <1>3 DEF Tick
<1>4. CASE Stamp BY <1>4 DEF Stamp
<1>5. CASE CopyCell BY <1>5 DEF CopyCell
<1>6. CASE Send BY <1>6 DEF Send
<1>7. CASE Wake BY <1>7 DEF Wake
<1>8. CASE TimeUp BY <1>8 DEF TimeUp
<1>9. CASE Exit BY <1>9 DEF Exit
<1> QED BY <1>1, <1>2, <1>3, <1>4, <1>5, <1>6, <1>7, <1>8, <1>9 DEF MainStep

(* A handler's step.  Lock gives the section to one handler; only the       *)
(* holder writes a cell, so that no write changes a cell another handler    *)
(* has read, and the holder's own value is not stale.                       *)
LEMMA BoardHandler ==
    ASSUME TypeOK, BoardInv, NEW p \in Players,
           \/ HandlerStep(p)
           \/ \E r \in Records, n \in Reads : ReadRecord(p, r, n) \/ IndexError(p, r, n)
           \/ Leave(p)
    PROVE  BoardInv'
<1> USE DEF BoardInv, mainVars, handlerVars
<1>0. p # Free BY ServerAssumption DEF Players, Free
<1> DEFINE Outside(l) == l \in {"panels", "init", "spin", "tell", "loop", "read", "lock", "done"}
\* the steps outside the section that leave the board alone
<1>1. ASSUME pc[p] \notin Section, NEW l, Outside(l), pc' = [pc EXCEPT ![p] = l],
             mutx' = mutx, grid' = grid, flips' = flips, reg' = reg, main' = main,
             \A q \in Players : q # p => player_data'[q] = player_data[q]
      PROVE  BoardInv'
    <2>1. \A q \in Players : pc'[q] = IF q = p THEN l ELSE pc[q] BY <1>1 DEF TypeOK
    <2>2. l \notin Section /\ l # "write" BY <1>1 DEF Section
    <2>3. MutexHeld' BY <1>1, <2>1, <2>2 DEF MutexHeld
    <2>4. HoldsCell' BY <1>1, <2>1, <2>2 DEF HoldsCell
    <2>5. NoLostFlip' BY <1>1 DEF NoLostFlip
    <2> QED BY <2>3, <2>4, <2>5
\* the steps that end the process or touch the connection only
<1>2. ASSUME UNCHANGED handlerVars, main' \in {main, "gone"} PROVE BoardInv'
    BY <1>2 DEF MutexHeld, HoldsCell, NoLostFlip
<1>3. CASE BrokenPipe(p) BY <1>2, <1>3 DEF BrokenPipe, Killed
<1>4. CASE Greet(p)
    <2>1. PICK l \in {"panels", "init", "spin"} : pc' = [pc EXCEPT ![p] = l]
        BY <1>4 DEF Greet, Goto
    <2>2. pc[p] \notin Section BY <1>4 DEF Greet, Section
    <2> QED BY <1>1, <1>4, <2>1, <2>2 DEF Greet
<1>5. CASE Spin(p) BY <1>1, <1>5 DEF Spin, Goto, Section
<1>6. CASE TellStart(p) BY <1>1, <1>6 DEF TellStart, Goto, Section
<1>7. CASE Loop(p)
    <2>1. PICK l \in {"read", "done"} : pc' = [pc EXCEPT ![p] = l]
        BY <1>7 DEF Loop, Goto
    <2>2. pc[p] \notin Section BY <1>7 DEF Loop, Section
    <2> QED BY <1>1, <1>7, <2>1, <2>2 DEF Loop
<1>8. CASE ReadEnd(p) BY <1>1, <1>8 DEF ReadEnd, Goto, Section
<1>9. CASE \E r \in Records, n \in Reads : ReadRecord(p, r, n)
    <2>1. PICK r \in Records, n \in Reads : ReadRecord(p, r, n) BY <1>9
    <2>2. \A q \in Players : q # p => player_data'[q] = player_data[q]
        BY <2>1 DEF ReadRecord, TypeOK
    <2>3. pc[p] \notin Section BY <2>1 DEF ReadRecord, Arrives, Section
    <2> QED BY <1>1, <2>1, <2>2, <2>3 DEF ReadRecord, Goto
<1>10. CASE \E r \in Records, n \in Reads : IndexError(p, r, n) BY <1>2, <1>10 DEF IndexError, Killed
<1>11. CASE Leave(p) BY <1>2, <1>11 DEF Leave
<1>12. CASE Lock(p)
    <2>1. mutx = Free /\ mutx' = p BY <1>12 DEF Lock, MayLock
    <2>2. PICK l \in {"flip", "unlock"} : pc' = [pc EXCEPT ![p] = l]
        BY <1>12 DEF Lock, Goto
    <2>3. \A q \in Players : pc'[q] = IF q = p THEN l ELSE pc[q] BY <2>2 DEF TypeOK
    <2>4. \A q \in Players : q # Free BY ServerAssumption DEF Players, Free
    <2>5. MutexHeld' BY <2>1, <2>3, <2>4 DEF MutexHeld, Section
    <2>6. HoldsCell' BY <1>12, <2>3 DEF Lock, HoldsCell
    <2>7. NoLostFlip' BY <1>12 DEF Lock, NoLostFlip
    <2> QED BY <2>5, <2>6, <2>7
\* inside the section the holder is the only handler that is
<1>13. ASSUME pc[p] \in Section
       PROVE  mutx = p /\ \A q \in Players : q # p => pc[q] \notin Section
    BY <1>13 DEF MutexHeld
<1>14. CASE ReadCell(p)
    <2>1. pc[p] = "flip" /\ main' = main BY <1>14 DEF ReadCell
    <2>2. \A q \in Players : pc'[q] = IF q = p THEN "write" ELSE pc[q]
        BY <1>14 DEF ReadCell, Goto, TypeOK
    <2>3. MutexHeld' BY <1>14, <2>1, <2>2 DEF ReadCell, MutexHeld, Section
    <2>4. reg'[p] = grid[player_data[p].pos]
        BY <1>14 DEF ReadCell, TypeOK
    <2>5. main # "close" => player_data[p].pos \in PanelCells
        BY <1>14 DEF ReadCell, OnPanel
    <2>6. \A q \in Players : q # p => pc[q] # "write"
        BY <1>13, <2>1 DEF Section
    <2>7. HoldsCell' BY <1>14, <2>1, <2>2, <2>4, <2>5, <2>6 DEF ReadCell, HoldsCell
    <2>8. NoLostFlip' BY <1>14 DEF ReadCell, NoLostFlip
    <2> QED BY <2>3, <2>7, <2>8
<1>15. CASE NoPanel(p)
    <2>1. pc[p] = "flip" BY <1>15 DEF NoPanel
    <2>2. \A q \in Players : pc'[q] = IF q = p THEN "unlock" ELSE pc[q]
        BY <1>15 DEF NoPanel, Goto, TypeOK
    <2>3. MutexHeld' BY <1>15, <2>1, <2>2 DEF NoPanel, MutexHeld, Section
    <2>4. HoldsCell' BY <1>15, <2>2 DEF NoPanel, HoldsCell
    <2>5. NoLostFlip' BY <1>15 DEF NoPanel, NoLostFlip
    <2> QED BY <2>3, <2>4, <2>5
<1>16. CASE WriteCell(p)
    <2> DEFINE c == player_data[p].pos
    <2>1. pc[p] = "write" BY <1>16 DEF WriteCell
    <2>2. /\ \A q \in Players : pc'[q] = IF q = p THEN "unlock" ELSE pc[q]
          /\ mutx' = mutx /\ main' = main /\ player_data' = player_data
        BY <1>16 DEF WriteCell, Goto, TypeOK, mainVars
    <2>3. MutexHeld' BY <2>1, <2>2 DEF MutexHeld, Section
    <2>4. \A q \in Players : pc'[q] # "write"
        BY <1>13, <2>1, <2>2 DEF Section
    <2>5. HoldsCell' BY <2>4 DEF HoldsCell
    <2>6. ASSUME main' \notin {"close", "gone"}, NEW d \in Cells
          PROVE  grid'[d] = IF d \in PanelCells THEN (InitialGrid[d] + flips'[d]) % 2 ELSE -1
        <3>1. c \in PanelCells /\ c \in Cells /\ reg[p] = grid[c]
            BY <2>1, <2>2, <2>6, PanelsOnBoard DEF HoldsCell
        <3>2. \A e \in Cells : grid[e] = IF e \in PanelCells
                                         THEN (InitialGrid[e] + flips[e]) % 2 ELSE -1
            BY <2>2, <2>6 DEF NoLostFlip
        <3>3. InitialGrid[c] \in {0, 1} /\ flips[c] \in {0, 1}
            BY <2>1, <3>1, InitialColour DEF TypeOK
        <3>4. Negated(grid[c]) = (InitialGrid[c] + (1 - flips[c])) % 2
            BY <2>1, <3>1, <3>2, <3>3 DEF Negated
        <3>5. grid' = [grid EXCEPT ![c] = Negated(grid[c])]
              /\ flips' = [flips EXCEPT ![c] = 1 - flips[c]]
            BY <1>16, <3>1 DEF WriteCell
        <3>6. CASE d = c BY <2>1, <3>1, <3>4, <3>5, <3>6 DEF TypeOK
        <3>7. CASE d # c BY <3>2, <3>5, <3>7 DEF TypeOK
        <3> QED BY <3>6, <3>7
    <2>7. NoLostFlip' BY <2>6 DEF NoLostFlip
    <2> QED BY <2>3, <2>5, <2>7
<1>17. CASE Unlock(p)
    <2>1. pc[p] = "unlock" /\ mutx' = Free BY <1>17 DEF Unlock, Released
    <2>2. \A q \in Players : pc'[q] = IF q = p THEN "loop" ELSE pc[q]
        BY <1>17 DEF Unlock, Goto, TypeOK
    <2>3. \A q \in Players : q # Free BY ServerAssumption DEF Players, Free
    <2>4. \A q \in Players : pc'[q] \notin Section
        BY <1>13, <2>1, <2>2 DEF Section
    <2>5. MutexHeld' BY <2>1, <2>3, <2>4 DEF MutexHeld
    <2>6. HoldsCell' BY <2>4 DEF HoldsCell, Section
    <2>7. NoLostFlip' BY <1>17 DEF Unlock, NoLostFlip
    <2> QED BY <2>5, <2>6, <2>7
<1> QED BY <1>3, <1>4, <1>5, <1>6, <1>7, <1>8, <1>9, <1>10, <1>11, <1>12, <1>14,
           <1>15, <1>16, <1>17 DEF HandlerStep

LEMMA BoardNextInv == TypeOK /\ Counted /\ BoardInv /\ [Next]_vars => BoardInv'
<1> SUFFICES ASSUME TypeOK, Counted, BoardInv, [Next]_vars PROVE BoardInv' OBVIOUS
<1>1. CASE Next BY <1>1, BoardMain, BoardHandler DEF Next
<1>2. CASE UNCHANGED vars
    BY <1>2 DEF vars, mainVars, handlerVars, BoardInv, MutexHeld, HoldsCell, NoLostFlip
<1> QED BY <1>1, <1>2

(* For any number of players and any board, exactly the holder of the mutex *)
(* updates the shared state.                                                *)
THEOREM MutualExclusion == Spec => []MutexHeld
<1>1. BoardInv => MutexHeld BY DEF BoardInv
<1> QED BY <1>1, TypeCorrect, BoardInit0, BoardNextInv, PTL DEF Spec

(* Every Enter on a panel counts: the board is the initial one with each    *)
(* panel's colour changed once per Enter, however the handlers interleave.  *)
THEOREM FlipsCount == Spec => []NoLostFlip
<1>1. BoardInv => NoLostFlip BY DEF BoardInv
<1> QED BY <1>1, TypeCorrect, BoardInit0, BoardNextInv, PTL DEF Spec

------------------------------------------------------------------------------
(* The start of the game.                                                   *)

(* start is cleared by main alone, when the time is up, and a player is     *)
(* told its value only after its handler has seen the operator's number.    *)
StartInv ==
    /\ start = 0 => main \in {"close", "gone"}
    /\ \A p \in Players : told[p] # -1 => pc[p] \notin Greeting /\ pc[p] # "tell"
    /\ \A p \in Players : told[p] = 0 => start = 0

LEMMA StartInit == Init => StartInv
BY DEF Init, StartInv

LEMMA StartNext == TypeOK /\ Counted /\ StartInv /\ [Next]_vars => StartInv'
<1> SUFFICES ASSUME TypeOK, Counted, StartInv, [Next]_vars PROVE StartInv' OBVIOUS
<1> USE DEF StartInv, mainVars, handlerVars
<1>1. CASE \E state \in {"open", "bad"} : Accept(state)
    <2>1. test = 0 /\ \A q \in Players : pc[q] \in Greeting
        BY <1>1, ServerAssumption DEF Accept, Counted, TypeOK
    <2>2. start' = start /\ start # 0 /\ \A q \in Players : told'[q] = -1
        BY <1>1, <2>1 DEF Accept, TypeOK
    <2> QED BY <2>2
<1>2. CASE \E v \in Inputs : Scan(v) BY <1>2 DEF Scan
<1>3. CASE Tick BY <1>3 DEF Tick
<1>4. CASE MainStep
    BY <1>4 DEF MainStep, Stamp, CopyCell, Send, Wake, TimeUp, Exit, TypeOK
<1>5. ASSUME NEW p \in Players,
             \/ HandlerStep(p)
             \/ \E r \in Records, n \in Reads : ReadRecord(p, r, n) \/ IndexError(p, r, n)
             \/ Leave(p)
      PROVE  StartInv'
    <2> DEFINE After == {"loop", "read", "lock", "flip", "write", "unlock", "done"}
    \* the steps that tell nothing
    <2>1. ASSUME told' = told, start' = start, main' \in {main, "gone"},
                 \A q \in Players : pc'[q] = pc[q] \/ pc'[q] \in After
                                   \/ pc[q] \in Greeting
          PROVE  StartInv'
        BY <2>1 DEF Greeting
    <2>2. CASE BrokenPipe(p) BY <2>1, <2>2 DEF BrokenPipe, Killed
    <2>3. CASE Greet(p) BY <2>1, <2>3 DEF Greet, Goto, Greeting, TypeOK
    <2>4. CASE Spin(p) BY <2>1, <2>4 DEF Spin, Goto, Greeting, TypeOK
    <2>5. CASE TellStart(p)
        <3>1. /\ \A q \in Players : q # p => pc'[q] = pc[q] /\ told'[q] = told[q]
              /\ pc'[p] = "loop" /\ told'[p] \in {told[p], start}
              /\ start' = start /\ main' = main
            BY <2>5 DEF TellStart, Goto, TypeOK
        <3> QED BY <3>1 DEF Greeting, TypeOK
    <2>6. CASE Loop(p) BY <2>1, <2>6 DEF Loop, Goto, TypeOK
    <2>7. CASE ReadEnd(p) BY <2>1, <2>7 DEF ReadEnd, Goto, TypeOK
    <2>8. CASE \E r \in Records, n \in Reads : ReadRecord(p, r, n)
        BY <2>1, <2>8 DEF ReadRecord, Goto, TypeOK
    <2>9. CASE \E r \in Records, n \in Reads : IndexError(p, r, n)
        BY <2>1, <2>9 DEF IndexError, Killed
    <2>10. CASE Lock(p) BY <2>1, <2>10 DEF Lock, Goto, TypeOK
    <2>11. CASE ReadCell(p) BY <2>1, <2>11 DEF ReadCell, Goto, TypeOK
    <2>12. CASE NoPanel(p) BY <2>1, <2>12 DEF NoPanel, Goto, TypeOK
    <2>13. CASE WriteCell(p) BY <2>1, <2>13 DEF WriteCell, Goto, TypeOK
    <2>14. CASE Unlock(p) BY <2>1, <2>14 DEF Unlock, Goto, TypeOK
    <2>15. CASE Leave(p) BY <2>1, <2>15 DEF Leave
    <2> QED BY <1>5, <2>2, <2>3, <2>4, <2>5, <2>6, <2>7, <2>8, <2>9, <2>10, <2>11,
               <2>12, <2>13, <2>14, <2>15 DEF HandlerStep
<1>6. CASE UNCHANGED vars BY <1>6 DEF vars
<1> QED BY <1>1, <1>2, <1>3, <1>4, <1>5, <1>6 DEF Next

(* No client is told that the game has started before every player was      *)
(* accepted and the operator has typed a number, and one that is told 0 is  *)
(* told so after the time is up.                                            *)
THEOREM StartIsOrdered == Spec => []NoEarlyStart
<1>1. TypeOK /\ Counted /\ StartInv => NoEarlyStart
    BY DEF TypeOK, Counted, StartInv, NoEarlyStart
<1> QED BY <1>1, TypeCorrect, StartInit, StartNext, PTL DEF Spec

------------------------------------------------------------------------------
(* The threads do what GameBoard promises.                                  *)

(* While main copies the board, past holds the boards since the stamp, the  *)
(* present one among them, and each cell copied is from one of them.        *)
CopyInv ==
    /\ main # "copy" => past = {}
    /\ main = "copy" =>
          /\ grid \in past
          /\ past \subseteq Board!Boards
          /\ \A c \in Cells : c < at => \E g \in past : dgram[c] = g[c]
    /\ main = "close" => start = 0
    /\ \A p \in Players : pc[p] \in Section \cup {"lock"} => told[p] = 1

ServeInv == TypeOK /\ Counted /\ BoardInv /\ StartInv /\ CopyInv

\* GameBoard's names for what both modules define.
LEMMA SameNames ==
    /\ Board!Players = Players /\ Board!Cells = Cells /\ Board!PanelCells = PanelCells
    /\ Board!InitialBoard = InitialGrid /\ Board!NoDatagram = NoDatagram
BY DEF Board!Players, Board!Cells, Board!PanelCells, Board!Panels, Board!InitialBoard,
       Board!NoDatagram, Players, Cells, PanelCells, Panels, InitialGrid, NoDatagram

\* As long as panel_pos is in place, the grid is a board.
LEMMA GridIsBoard ==
    TypeOK /\ NoLostFlip /\ main \notin {"close", "gone"} => grid \in Board!Boards
<1> SUFFICES ASSUME TypeOK, NoLostFlip, main \notin {"close", "gone"}
             PROVE  grid \in Board!Boards
    OBVIOUS
<1>1. ASSUME NEW c \in Cells PROVE grid[c] = -1 <=> c \notin PanelCells
    <2>1. CASE c \in PanelCells
        <3>1. grid[c] = (InitialGrid[c] + flips[c]) % 2 BY <2>1 DEF NoLostFlip
        <3>2. InitialGrid[c] \in {0, 1} /\ flips[c] \in {0, 1}
            BY <2>1, InitialColour DEF TypeOK
        <3> QED BY <2>1, <3>1, <3>2
    <2>2. CASE c \notin PanelCells BY <2>2 DEF NoLostFlip
    <2> QED BY <2>1, <2>2
<1> QED BY <1>1, SameNames DEF Board!Boards, TypeOK

LEMMA CopyInit == Init => CopyInv
BY DEF Init, CopyInv, Section

LEMMA CopyMain ==
    ASSUME ServeInv,
           \/ \E state \in {"open", "bad"} : Accept(state)
           \/ \E v \in Inputs : Scan(v)
           \/ Tick \/ MainStep
    PROVE  CopyInv'
<1> USE DEF ServeInv, CopyInv, mainVars, handlerVars
<1>1. CASE \E state \in {"open", "bad"} : Accept(state)
    <2>1. \A q \in Players : pc'[q] = pc[q] \/ pc'[q] = "count" BY <1>1 DEF Accept, TypeOK
    <2> QED BY <1>1, <2>1 DEF Accept, Section
<1>2. CASE \E v \in Inputs : Scan(v) BY <1>2 DEF Scan
<1>3. CASE Tick BY <1>3 DEF Tick
<1>4. CASE Stamp
    <2>1. past' = {grid} /\ at' = 0 /\ main' = "copy" /\ main = "check"
          /\ UNCHANGED <<grid, start, pc, told>>
        BY <1>4 DEF Stamp
    <2>2. grid \in Board!Boards BY <2>1, GridIsBoard DEF BoardInv
    <2>3. \A c \in Cells : ~ (c < at') BY <2>1 DEF Cells
    <2> QED BY <2>1, <2>2, <2>3
<1>5. CASE CopyCell
    <2>1. /\ main = "copy" /\ main' = main /\ at < CellCnt /\ at' = at + 1
          /\ dgram' = [dgram EXCEPT ![at] = grid[at]]
          /\ UNCHANGED <<past, grid, start, pc, told>>
        BY <1>5 DEF CopyCell
    <2>2. ASSUME NEW c \in Cells, c < at' PROVE \E g \in past : dgram'[c] = g[c]
        <3>1. c < at \/ c = at BY <2>1, <2>2 DEF TypeOK, Cells
        <3>2. CASE c = at BY <2>1, <3>2 DEF TypeOK
        <3>3. CASE c < at
            <4>1. dgram'[c] = dgram[c] BY <2>1, <3>3 DEF TypeOK, Cells
            <4> QED BY <2>1, <3>3, <4>1
        <3> QED BY <3>1, <3>2, <3>3
    <2> QED BY <2>1, <2>2
<1>6. CASE Send BY <1>6 DEF Send
<1>7. CASE Wake BY <1>7 DEF Wake
<1>8. CASE TimeUp BY <1>8 DEF TimeUp
<1>9. CASE Exit BY <1>9 DEF Exit
<1> QED BY <1>1, <1>2, <1>3, <1>4, <1>5, <1>6, <1>7, <1>8, <1>9 DEF MainStep

LEMMA CopyHandler ==
    ASSUME ServeInv, NEW p \in Players,
           \/ HandlerStep(p)
           \/ \E r \in Records, n \in Reads : ReadRecord(p, r, n) \/ IndexError(p, r, n)
           \/ Leave(p)
    PROVE  CopyInv'
<1> USE DEF ServeInv, CopyInv, mainVars, handlerVars, Goto
\* the steps that leave the board and what main does alone
<1>1. ASSUME UNCHANGED <<main, past, grid, at, dgram, start>>,
             \A q \in Players : pc'[q] \in Section \cup {"lock"} =>
                 /\ told'[q] = told[q]
                 /\ pc[q] \in Section \cup {"lock"} \/ told[q] = 1
      PROVE  CopyInv'
    BY <1>1
<1>2. ASSUME main' = "gone", past' = {}, UNCHANGED <<pc, told>> PROVE CopyInv'
    BY <1>2
<1>3. CASE BrokenPipe(p) BY <1>2, <1>3 DEF BrokenPipe, Killed
<1>4. CASE Greet(p) BY <1>1, <1>4 DEF Greet, TypeOK, Section
<1>5. CASE Spin(p) BY <1>1, <1>5 DEF Spin, TypeOK, Section
<1>6. CASE TellStart(p)
    <2>1. pc' = [pc EXCEPT ![p] = "loop"] /\ \A q \in Players : q # p => told'[q] = told[q]
        BY <1>6 DEF TellStart, TypeOK
    <2> QED BY <1>1, <1>6, <2>1 DEF TellStart, TypeOK, Section
<1>7. CASE Loop(p) BY <1>1, <1>7 DEF Loop, TypeOK, Section
<1>8. CASE ReadEnd(p) BY <1>1, <1>8 DEF ReadEnd, TypeOK, Section
<1>9. CASE \E r \in Records, n \in Reads : ReadRecord(p, r, n)
    BY <1>1, <1>9 DEF ReadRecord, Arrives, TypeOK, Section
<1>10. CASE \E r \in Records, n \in Reads : IndexError(p, r, n) BY <1>2, <1>10 DEF IndexError, Killed
<1>11. CASE Leave(p) BY <1>1, <1>11 DEF Leave, Section
<1>12. CASE Lock(p) BY <1>1, <1>12 DEF Lock, TypeOK, Section
<1>13. CASE ReadCell(p) BY <1>1, <1>13 DEF ReadCell, TypeOK, Section
<1>14. CASE NoPanel(p) BY <1>1, <1>14 DEF NoPanel, TypeOK, Section
<1>15. CASE WriteCell(p)
    <2>1. /\ pc' = [pc EXCEPT ![p] = "unlock"] /\ pc[p] = "write"
          /\ past' = IF past = {} THEN {} ELSE past \cup {grid'}
          /\ UNCHANGED <<main, start, at, dgram, told>>
        BY <1>15 DEF WriteCell
    <2>2. \A q \in Players : pc'[q] \in Section \cup {"lock"} =>
              pc[q] \in Section \cup {"lock"}
        BY <2>1 DEF Section, TypeOK
    <2>3. ASSUME main = "copy" PROVE grid' \in Board!Boards
        <3>1. TypeOK' /\ BoardInv' BY <1>15, TypeNext, BoardHandler DEF HandlerStep, Next
        <3>2. (TypeOK /\ NoLostFlip /\ main \notin {"close", "gone"} => grid \in Board!Boards)'
            BY GridIsBoard, PTL
        <3> QED BY <2>1, <2>3, <3>1, <3>2 DEF BoardInv
    <2> QED BY <2>1, <2>2, <2>3
<1>16. CASE Unlock(p) BY <1>1, <1>16 DEF Unlock, TypeOK, Section
<1> QED BY <1>3, <1>4, <1>5, <1>6, <1>7, <1>8, <1>9, <1>10, <1>11, <1>12, <1>13, <1>14,
           <1>15, <1>16 DEF HandlerStep

LEMMA CopyNext == ServeInv /\ [Next]_vars => CopyInv'
<1> SUFFICES ASSUME ServeInv, [Next]_vars PROVE CopyInv' OBVIOUS
<1>1. CASE Next BY <1>1, CopyMain, CopyHandler DEF Next
<1>2. CASE UNCHANGED vars BY <1>2 DEF vars, mainVars, handlerVars, ServeInv, CopyInv
<1> QED BY <1>1, <1>2

LEMMA BoardStart == Init => Board!BoardInit
BY SameNames DEF Init, Board!BoardInit, phase

\* Main's steps: each is GameBoard's step of the same name, or is not seen.
LEMMA ServeMain ==
    ASSUME ServeInv,
           \/ \E state \in {"open", "bad"} : Accept(state)
           \/ \E v \in Inputs : Scan(v)
           \/ Tick \/ MainStep
    PROVE  Board!BoardNext \/ UNCHANGED Board!boardVars
<1> USE DEF ServeInv, mainVars, handlerVars, phase, Board!boardVars
<1>1. CASE \E state \in {"open", "bad"} : Accept(state)
    <2>1. /\ main = "accept" /\ clnt_cnt' = clnt_cnt + 1 /\ test = 0 /\ test' = test
          /\ main' = IF clnt_cnt' = PlayerCnt THEN "scan" ELSE "accept"
          /\ UNCHANGED <<told, grid, clock, left_time, past, air>>
        <3>1. PICK state \in {"open", "bad"} : Accept(state) BY <1>1
        <3>2. main = "accept" => test = 0 BY DEF Counted, TypeOK
        <3> QED BY <3>1, <3>2 DEF Accept
    <2>2. phase = "joining" /\ phase' = IF clnt_cnt' = PlayerCnt THEN "waiting" ELSE "joining"
        BY <2>1
    <2>3. Board!Join BY <2>1, <2>2 DEF Board!Join
    <2> QED BY <2>3 DEF Board!BoardNext
<1>2. CASE \E v \in Inputs : Scan(v)
    <2>1. PICK v \in Inputs : Scan(v) BY <1>2
    <2>2. main = "scan" /\ test = 0 /\ test' = v
          /\ main' = (IF v = 1 THEN "check" ELSE "scan")
          /\ UNCHANGED <<clnt_cnt, told, grid, clock, left_time, past, air>>
        BY <2>1 DEF Scan
    <2>3. CASE v = 0 BY <2>2, <2>3
    <2>4. CASE v = 1
        <3>1. Board!Play BY <2>2, <2>4 DEF Board!Play
        <3> QED BY <3>1 DEF Board!BoardNext
    <2>5. CASE v \notin {0, 1}
        <3>1. Board!Open BY <2>2, <2>5 DEF Board!Open
        <3> QED BY <3>1 DEF Board!BoardNext
    <2> QED BY <2>3, <2>4, <2>5
<1>3. CASE Tick
    <2>1. Board!Tick BY <1>3 DEF Tick, Board!Tick
    <2> QED BY <2>1 DEF Board!BoardNext
<1>4. CASE Stamp
    <2>1. Board!Stamp BY <1>4 DEF Stamp, Board!Stamp, Board!Elapsed, CopyInv
    <2> QED BY <2>1 DEF Board!BoardNext
<1>5. CASE CopyCell BY <1>5 DEF CopyCell
<1>6. CASE Send
    <2>1. /\ main = "copy" /\ main' = "sleep" /\ at = CellCnt /\ past' = {}
          /\ air' = [left |-> left_time, grid |-> dgram]
          /\ UNCHANGED <<clnt_cnt, told, grid, clock, left_time>>
        BY <1>6 DEF Send, SentTime
    <2>2. \A c \in Cells : \E g \in past : dgram[c] = g[c]
        <3>1. \A c \in Cells : c < at BY <2>1, ServerAssumption DEF Cells
        <3> QED BY <2>1, <3>1 DEF CopyInv
    <2>3. \A c \in Cells : dgram[c] = -1 <=> c \notin PanelCells
        BY <2>1, <2>2, SameNames DEF CopyInv, Board!Boards
    <2>4. dgram \in Board!Boards BY <2>3, SameNames DEF TypeOK, Board!Boards
    <2>5. past # {} BY <2>1 DEF CopyInv
    <2>6. Board!Publish(dgram) BY <2>1, <2>2, <2>4, <2>5, SameNames DEF Board!Publish
    <2> QED BY <2>4, <2>6 DEF Board!BoardNext
<1>7. CASE Wake BY <1>7 DEF Wake
<1>8. CASE TimeUp
    <2>1. Board!TimeUp BY <1>8 DEF TimeUp, Board!TimeUp, CopyInv
    <2> QED BY <2>1 DEF Board!BoardNext
<1>9. CASE Exit
    <2>1. Board!Gone BY <1>9 DEF Exit, Board!Gone, CopyInv
    <2> QED BY <2>1 DEF Board!BoardNext
<1> QED BY <1>1, <1>2, <1>3, <1>4, <1>5, <1>6, <1>7, <1>8, <1>9 DEF MainStep

(* A handler's step: telling the start and writing a cell are seen, and so  *)
(* is the end of the process; a flip after panel_pos was freed is one of    *)
(* GameBoard's Afterwards.                                                  *)
LEMMA ServeHandler ==
    ASSUME ServeInv, NEW p \in Players,
           \/ HandlerStep(p)
           \/ \E r \in Records, n \in Reads : ReadRecord(p, r, n) \/ IndexError(p, r, n)
           \/ Leave(p)
    PROVE  Board!BoardNext \/ UNCHANGED Board!boardVars
<1> USE DEF ServeInv, mainVars, handlerVars
<1> DEFINE seen == <<main, test, clnt_cnt, told, grid, clock, left_time, past, air>>
<1>1. UNCHANGED seen => UNCHANGED Board!boardVars BY DEF phase, Board!boardVars
<1>2. ASSUME Killed, Alive PROVE Board!BoardNext
    <2>1. Board!Gone BY <1>2 DEF Killed, Alive, Board!Gone, phase, TypeOK, MainPCs
    <2> QED BY <2>1 DEF Board!BoardNext
<1>3. CASE BrokenPipe(p) BY <1>2, <1>3 DEF BrokenPipe
<1>4. CASE \E r \in Records, n \in Reads : IndexError(p, r, n) BY <1>2, <1>4 DEF IndexError, Arrives
<1>5. CASE TellStart(p)
    <2>1. /\ pc[p] = "tell" /\ Alive /\ test # 0 /\ main # "accept" /\ told[p] = -1
          /\ told' = [told EXCEPT ![p] = IF conn[p] = "open" THEN start ELSE @]
          /\ UNCHANGED <<main, test, clnt_cnt, grid, clock, left_time, past, air>>
        <3>1. pc[p] = "tell" /\ Alive
              /\ told' = [told EXCEPT ![p] = IF conn[p] = "open" THEN start ELSE @]
              /\ UNCHANGED <<main, test, clnt_cnt, grid, clock, left_time, past, air>>
            BY <1>5 DEF TellStart
        <3>2. test # 0 BY <3>1 DEF Counted, Greeting
        <3>3. main # "accept" BY <3>2 DEF Counted, TypeOK
        <3>4. told[p] = -1 BY <3>1 DEF StartInv
        <3> QED BY <3>1, <3>2, <3>3, <3>4
    <2>2. phase \in {"open", "play", "over"} /\ phase' = phase
        BY <2>1 DEF phase, Alive, TypeOK, MainPCs
    <2>3. start = IF phase = "over" THEN 0 ELSE 1
        BY <2>1 DEF phase, Alive, TypeOK, MainPCs, StartInv, CopyInv
    <2>4. CASE conn[p] = "open"
        <3>1. Board!Tell(p) BY <2>1, <2>2, <2>3, <2>4 DEF Board!Tell
        <3> QED BY <3>1, SameNames DEF Board!BoardNext
    <2>5. CASE conn[p] # "open"
        <3>1. told' = told BY <2>1, <2>5 DEF TypeOK
        <3> QED BY <1>1, <2>1, <3>1
    <2> QED BY <2>4, <2>5
<1>6. CASE WriteCell(p)
    <2> DEFINE c == player_data[p].pos
    <2>1. /\ pc[p] = "write" /\ Alive /\ test # 0 /\ main # "accept" /\ told[p] = 1
          /\ grid' = [grid EXCEPT ![c] = Negated(reg[p])]
          /\ past' = IF past = {} THEN {} ELSE past \cup {grid'}
          /\ UNCHANGED <<main, test, clnt_cnt, told, clock, left_time, air>>
        <3>1. /\ pc[p] = "write" /\ Alive
              /\ grid' = [grid EXCEPT ![c] = Negated(reg[p])]
              /\ past' = IF past = {} THEN {} ELSE past \cup {grid'}
              /\ UNCHANGED <<main, test, clnt_cnt, told, clock, left_time, air>>
            BY <1>6 DEF WriteCell
        <3>2. test # 0 BY <3>1 DEF Counted, Greeting
        <3>3. main # "accept" BY <3>2 DEF Counted, TypeOK
        <3>4. told[p] = 1 BY <3>1 DEF CopyInv, Section
        <3> QED BY <3>1, <3>2, <3>3, <3>4
    <2>2. phase' = phase BY <2>1 DEF phase
    <2>3. CASE main = "close"
        <3>1. grid' \in [Cells -> {-1, 0, 1}] BY <2>1 DEF TypeOK, Negated
        <3>2. phase = "over" /\ past' = past BY <2>1, <2>3 DEF phase, CopyInv
        <3>3. Board!Afterwards BY <2>1, <2>2, <3>1, <3>2, SameNames DEF Board!Afterwards
        <3> QED BY <3>3 DEF Board!BoardNext
    <2>4. CASE main # "close"
        <3>1. c \in PanelCells /\ reg[p] = grid[c]
            BY <2>1, <2>4 DEF BoardInv, HoldsCell, Alive
        <3>2. c \in Cells BY <3>1, PanelsOnBoard
        <3>3. grid[c] \in {0, 1}
            <4>1. grid \in Board!Boards BY <2>1, <2>4, GridIsBoard DEF BoardInv, Alive
            <4> QED BY <3>1, <3>2, <4>1, SameNames DEF Board!Boards, TypeOK
        <3>4. grid' = [grid EXCEPT ![c] = 1 - grid[c]]
            <4>1. Negated(reg[p]) = 1 - grid[c] BY <3>1, <3>3 DEF Negated
            <4> QED BY <2>1, <4>1
        <3>5. phase \in {"open", "play"}
            BY <2>1, <2>4 DEF phase, Alive, TypeOK, MainPCs
        <3>6. Board!Flip(c)
            <4> HIDE DEF c
            <4> QED BY <2>1, <2>2, <3>4, <3>5, SameNames DEF Board!Flip
        <3> QED BY <3>1, <3>6, SameNames DEF Board!BoardNext
    <2> QED BY <2>3, <2>4
<1>7. CASE \/ Greet(p) \/ Spin(p) \/ Loop(p) \/ ReadEnd(p) \/ Lock(p) \/ ReadCell(p)
           \/ NoPanel(p) \/ Unlock(p) \/ Leave(p)
           \/ \E r \in Records, n \in Reads : ReadRecord(p, r, n)
    <2>1. UNCHANGED seen
        BY <1>7 DEF Greet, Spin, Loop, ReadEnd, Lock, ReadCell, NoPanel, Unlock, Leave,
                    ReadRecord
    <2> QED BY <1>1, <2>1
<1> QED BY <1>3, <1>4, <1>5, <1>6, <1>7 DEF HandlerStep

LEMMA ServeNext == ServeInv /\ [Next]_vars => [Board!BoardNext]_(Board!boardVars)
<1> SUFFICES ASSUME ServeInv, [Next]_vars
             PROVE  Board!BoardNext \/ UNCHANGED Board!boardVars
    OBVIOUS
<1>1. CASE Next BY <1>1, ServeMain, ServeHandler DEF Next
<1>2. CASE UNCHANGED vars
    BY <1>2 DEF vars, mainVars, handlerVars, phase, Board!boardVars
<1> QED BY <1>1, <1>2

(* For any number of players, cells and panels the threads do what          *)
(* GameBoard promises: above all, each datagram carries for every cell a    *)
(* value the cell had since the datagram's stamp, although main copies the  *)
(* board without the mutex that the handlers flip it under.                 *)
THEOREM Serves == Spec => ServesBoard
<1>1. Init => ServeInv
    BY TypeInit, BoardInit0, StartInit, CopyInit DEF ServeInv
<1>2. ServeInv /\ [Next]_vars => ServeInv'
    BY TypeNext, BoardNextInv, StartNext, CopyNext DEF ServeInv
<1> QED BY <1>1, <1>2, BoardStart, ServeNext, PTL DEF Spec, ServesBoard, Board!BoardSpec

------------------------------------------------------------------------------
(* Departures.                                                              *)

Greeted == {"loop", "read", "done"} \cup Section \cup {"lock"}

(* With all handlers past their writes, only Exit ends the process, and an  *)
(* id below 1: one read out of step, or one that a client sends.            *)
LEMMA OnlyExitEnds ==
    ASSUME Next, \A p \in Players : pc[p] \in Greeted, main # "close", main' = "gone"
    PROVE  \E p \in Players : /\ pc[p] = "read" /\ told[p] = 1
                              /\ (shift[p] # 0 \/ \E i \in Misread : i < 1)
<1>1. ASSUME NEW p \in Players PROVE ~ BrokenPipe(p)
    BY <1>1 DEF BrokenPipe, Greeted, Section
<1>2. ASSUME NEW p \in Players, NEW r \in Records, NEW n \in Reads, IndexError(p, r, n),
             shift[p] = 0
      PROVE  \E i \in Misread : i < 1
    <2>1. r.player_id \in {p} \cup Misread BY <1>2 DEF IndexError, Arrives, Word
    <2>2. r.player_id < 1 BY <1>2 DEF IndexError, BadIndex
    <2>3. p \in Int /\ ~ (p < 1) BY DEF Players
    <2> QED BY <2>1, <2>2, <2>3
<1>3. ASSUME NEW p \in Players,
             HandlerStep(p) \/ Leave(p) \/ \E r \in Records, n \in Reads : ReadRecord(p, r, n)
      PROVE  main' # "gone"
    BY <1>1, <1>3 DEF HandlerStep, Greet, Spin, TellStart, Loop, ReadEnd, Lock, ReadCell, NoPanel,
                      WriteCell, Unlock, Leave, ReadRecord, Arrives, mainVars, Alive
<1>4. CASE Tick \/ MainStep \/ (\E s \in {"open", "bad"} : Accept(s)) \/ \E v \in Inputs : Scan(v)
    BY <1>4 DEF Tick, MainStep, Stamp, CopyCell, Send, Wake, TimeUp, Exit, Accept, Scan, mainVars
<1>5. CASE \E p \in Players, r \in Records, n \in Reads : IndexError(p, r, n)
    BY <1>2, <1>5 DEF IndexError, Arrives
<1> QED BY <1>3, <1>4, <1>5 DEF Next

(* For any number of players, board and input, and however the records are  *)
(* cut by the reads: after the greetings only an id below 1 ends the game   *)
(* early, and the server reads one only out of step or from a client that   *)
(* misread its greeting.                                                    *)
THEOREM DeparturesDoNotEnd == Spec => PlaySurvivesDepartures
<1> DEFINE A == \A p \in Players : pc[p] \in {"loop", "read", "done", "lock"} \cup Section
           B == \E p \in Players : /\ pc[p] = "read" /\ told[p] = 1
                                   /\ (shift[p] # 0 \/ \E i \in Misread : i < 1)
<1>1. [Next]_vars => [A /\ main # "close" /\ main' = "gone" => B]_vars
    BY OnlyExitEnds DEF Greeted
<1> QED BY <1>1, PTL DEF Spec, PlaySurvivesDepartures
==============================================================================
