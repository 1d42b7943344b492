--------------------------- MODULE GameSetupProofs ---------------------------
(***************************************************************************)
(* Proofs about the placement of the panels, for every command line.        *)
(*                                                                          *)
(* The difficulty is the duplicate scan: it decrements i, the bound of its  *)
(* own loop and the loop's index, at each match.  As long as the panels     *)
(* placed are distinct it meets at most one of them, so that i is back      *)
(* where it was after the loop's i++.  PanelsDistinct is therefore what     *)
(* makes the other facts inductive.                                         *)
(***************************************************************************)
EXTENDS GameSetup, FiniteSetTheorems, TLAPS

Inv == TypeOK /\ PanelsDistinct /\ ColoursMatch

------------------------------------------------------------------------------

(* While the panels placed are distinct, the scan of l.147-154 meets either *)
(* nothing, and then the cell is free, or exactly one panel, and then i     *)
(* ends where it started.                                                   *)
LEMMA ScanStepsBackOnce ==
    ASSUME TypeOK, PanelsDistinct, phase = "place", NEW r \in Cells
    PROVE  /\ Met(r) = {} => /\ NextIndex(r) = i + 1
                             /\ \A j \in 0 .. i - 1 : panel_pos[j] # r
           /\ Met(r) # {} => NextIndex(r) = i
<1>1. CASE Taken(r) = {}
    <2>1. Met(r) = {} BY <1>1 DEF Met
    <2>2. NextIndex(r) = i + 1
        BY <2>1, FS_EmptySet, TypeOK DEF NextIndex, TypeOK
    <2> QED BY <1>1, <2>1, <2>2 DEF Taken
<1>2. CASE Taken(r) # {}
    <2>1. PICK j \in Taken(r) : TRUE BY <1>2
    <2>2. j \in 0 .. i - 1 /\ panel_pos[j] = r BY <2>1 DEF Taken
    <2>3. Taken(r) = {j} BY <2>2 DEF Taken, PanelsDistinct
    <2>4. {k \in Taken(r) : k < j} = {} BY <2>2, <2>3
    <2>5. j + Cardinality({k \in Taken(r) : k < j}) < i
        BY <2>2, <2>4, FS_EmptySet, TypeOK DEF TypeOK
    <2>6. Met(r) = {j}
        <3>1. \A k \in Taken(r) : k = j BY <2>3
        <3> QED BY <2>1, <2>5, <3>1 DEF Met
    <2>7. Cardinality(Met(r)) = 1 BY <2>6, FS_Singleton
    <2>8. NextIndex(r) = i BY <2>7, TypeOK DEF NextIndex, TypeOK
    <2> QED BY <2>6, <2>8
<1> QED BY <1>1, <1>2

LEMMA InitInv == Init => Inv
BY DEF Init, Inv, TypeOK, PanelsDistinct, ColoursMatch

\* The board is created empty.
LEMMA AcceptInv == Inv /\ Accept => Inv'
<1> SUFFICES ASSUME Inv, Accept PROVE Inv' OBVIOUS
<1> USE ArgsAssumption DEF Inv, Accept, Fits, TypeOK, Panels, Cells, gird_num
<1>1. i' = 0 /\ phase' = "place" /\ argv' = argv
    BY DEF TypeOK
<1>2. TypeOK' BY <1>1
<1>3. PanelsDistinct' BY <1>1 DEF PanelsDistinct
<1>4. ColoursMatch' BY <1>1 DEF ColoursMatch
<1> QED BY <1>2, <1>3, <1>4

\* A draw either places one more panel on a free cell or changes nothing below i.
LEMMA DrawInv == ASSUME Inv, NEW r \in 0 .. GridSize - 1, Draw(r) PROVE Inv'
<1> USE DEF Inv
<1>1. /\ phase = "place" /\ phase' = "place" /\ argv' = argv
      /\ i < argv.panel /\ r \in Cells /\ i \in Nat
      /\ argv.panel \in Int /\ argv.grid \in Int /\ gird_num \in Int
      /\ panel_pos \in [Panels -> Int] /\ grid \in [Cells -> {-1, 0, 1}]
      /\ argv.panel <= gird_num
      /\ Panels' = Panels /\ Cells' = Cells /\ gird_num' = gird_num
    BY ArgsAssumption DEF Draw, TypeOK, Panels, Cells, gird_num
<1>2. i \in Panels /\ r \in Int BY <1>1 DEF Panels, Cells
<1>3. panel_pos' = [panel_pos EXCEPT ![i] = r] /\ panel_pos' \in [Panels -> Int]
    BY <1>1, <1>2 DEF Draw
<1>4. /\ panel_pos'[i] = r
      /\ \A j \in 0 .. i - 1 : panel_pos'[j] = panel_pos[j]
    BY <1>1, <1>2, <1>3 DEF Panels
<1>5. CASE Met(r) = {}
    <2>1. i' = i + 1 /\ \A j \in 0 .. i - 1 : panel_pos[j] # r
        BY <1>1, <1>5, ScanStepsBackOnce DEF Draw
    <2>2. grid' = [grid EXCEPT ![r] = i % 2] BY <1>5 DEF Draw, Coloured
    <2>3. i % 2 \in {0, 1} BY <1>1
    <2>4. grid' \in [Cells -> {-1, 0, 1}] BY <1>1, <2>2, <2>3
    <2>5. TypeOK' BY <1>1, <1>3, <2>1, <2>4 DEF TypeOK
    <2>6. \A j \in 0 .. i' - 1 : j = i \/ j \in 0 .. i - 1 BY <1>1, <2>1
    <2>7. PanelsDistinct' BY <1>1, <1>4, <2>1, <2>6 DEF PanelsDistinct
    <2>8. ASSUME NEW j \in 0 .. i' - 1
          PROVE  panel_pos'[j] \in Cells /\ grid'[panel_pos'[j]] = j % 2
        BY <1>1, <1>4, <2>1, <2>2, <2>6 DEF ColoursMatch
    <2>9. ASSUME NEW c \in Cells, \A j \in 0 .. i' - 1 : panel_pos'[j] # c
          PROVE  grid'[c] = -1
        <3>1. i \in 0 .. i' - 1 /\ \A j \in 0 .. i - 1 : j \in 0 .. i' - 1
            BY <1>1, <2>1
        <3>2. c # r /\ \A j \in 0 .. i - 1 : panel_pos[j] # c BY <1>4, <2>9, <3>1
        <3> QED BY <1>1, <2>2, <3>2 DEF ColoursMatch
    <2> QED BY <1>1, <2>5, <2>7, <2>8, <2>9 DEF ColoursMatch
<1>6. CASE Met(r) # {}
    <2>1. i' = i /\ grid' = grid
        BY <1>1, <1>6, ScanStepsBackOnce DEF Draw, Coloured
    <2>2. TypeOK' BY <1>1, <1>3, <2>1 DEF TypeOK
    <2>3. PanelsDistinct' BY <1>1, <1>4, <2>1 DEF PanelsDistinct
    <2>4. ColoursMatch' BY <1>1, <1>4, <2>1 DEF ColoursMatch
    <2> QED BY <2>2, <2>3, <2>4
<1> QED BY <1>5, <1>6

LEMMA NextInv == Inv /\ [Next]_vars => Inv'
<1> SUFFICES ASSUME Inv, [Next]_vars PROVE Inv' OBVIOUS
<1> USE DEF Inv, TypeOK, PanelsDistinct, ColoursMatch, Panels, Cells, gird_num
<1>1. CASE Reject BY <1>1 DEF Reject
<1>2. CASE Accept BY <1>2, AcceptInv
<1>3. CASE \E r \in 0 .. GridSize - 1 : Draw(r) BY <1>3, DrawInv
<1>4. CASE Placed BY <1>4 DEF Placed
<1>5. CASE UNCHANGED vars BY <1>5 DEF vars
<1> QED BY <1>1, <1>2, <1>3, <1>4, <1>5 DEF Next

(* For every command line the placement keeps its types, never puts two     *)
(* panels on one cell, and the board always shows exactly the panels placed *)
(* so far in their alternating colours.                                     *)
THEOREM PlacementCorrect == Spec => [](TypeOK /\ PanelsDistinct /\ ColoursMatch)
<1>1. Inv => TypeOK /\ PanelsDistinct /\ ColoursMatch BY DEF Inv
<1> QED BY <1>1, InitInv, NextInv, PTL DEF Spec

------------------------------------------------------------------------------
(* The colours.                                                             *)

Painted(colour) == {c \in Cells : grid[c] = colour}
Of(colour) == Cardinality(Painted(colour))

\* The panels placed alternate: as many red as blue, and one red more at an odd index.
Balance ==
    /\ phase \in {"place", "ready"} => Of(0) + Of(1) = i /\ Of(0) - Of(1) = i % 2
    /\ phase = "ready" => i >= argv.panel

LEMMA PaintedFinite ==
    ASSUME TypeOK
    PROVE  \A colour : IsFiniteSet(Painted(colour)) /\ Of(colour) \in Nat
<1>1. gird_num - 1 \in Int BY ArgsAssumption DEF TypeOK, gird_num
<1>2. IsFiniteSet(Cells) BY <1>1, FS_Interval DEF Cells
<1>3. \A colour : Painted(colour) \in SUBSET Cells BY DEF Painted
<1> QED BY <1>2, <1>3, FS_Subset, FS_CardinalityType DEF Of

\* A draw that places a panel paints a cell that had no colour.
LEMMA DrawBalance ==
    ASSUME Inv, Balance, NEW r \in 0 .. GridSize - 1, Draw(r)
    PROVE  Balance'
<1> USE DEF Inv
<1>1. /\ phase = "place" /\ phase' = "place" /\ Cells' = Cells /\ r \in Cells /\ i \in Nat
      /\ grid \in [Cells -> {-1, 0, 1}]
    BY DEF Draw, TypeOK, Cells, gird_num
<1>2. Of(0) + Of(1) = i /\ Of(0) - Of(1) = i % 2 BY <1>1 DEF Balance
<1>3. CASE Met(r) # {}
    <2>1. i' = i /\ grid' = grid
        BY <1>1, <1>3, ScanStepsBackOnce DEF Draw, Coloured
    <2>2. Of(0)' = Of(0) /\ Of(1)' = Of(1) BY <1>1, <2>1 DEF Of, Painted
    <2> QED BY <1>1, <1>2, <2>1, <2>2 DEF Balance
<1>4. CASE Met(r) = {}
    <2>0. PICK k \in {0, 1} : k = i % 2 BY <1>1
    <2>1. i' = i + 1 /\ grid[r] = -1
        BY <1>1, <1>4, ScanStepsBackOnce DEF Draw, ColoursMatch
    <2>2. grid' = [grid EXCEPT ![r] = k] BY <1>4, <2>0 DEF Draw, Coloured
    <2>3. Painted(k)' = Painted(k) \cup {r} /\ r \notin Painted(k)
        BY <1>1, <2>1, <2>2 DEF Painted
    <2>4. ASSUME NEW o \in {0, 1}, o # k PROVE Of(o)' = Of(o)
        BY <1>1, <2>1, <2>2, <2>4 DEF Of, Painted
    <2>5. Of(k)' = Of(k) + 1
        BY <2>3, PaintedFinite, FS_AddElement DEF Of
    <2>6. Of(0) \in Nat /\ Of(1) \in Nat BY PaintedFinite
    <2>7. CASE k = 0
        <3>1. Of(0)' = Of(0) + 1 /\ Of(1)' = Of(1) BY <2>4, <2>5, <2>7
        <3>2. (i + 1) % 2 = 1 /\ i % 2 = 0 BY <1>1, <2>0, <2>7
        <3> QED BY <1>1, <1>2, <2>1, <2>6, <3>1, <3>2 DEF Balance
    <2>8. CASE k = 1
        <3>1. Of(1)' = Of(1) + 1 /\ Of(0)' = Of(0) BY <2>4, <2>5, <2>8
        <3>2. (i + 1) % 2 = 0 /\ i % 2 = 1 BY <1>1, <2>0, <2>8
        <3> QED BY <1>1, <1>2, <2>1, <2>6, <3>1, <3>2 DEF Balance
    <2> QED BY <2>7, <2>8
<1> QED BY <1>3, <1>4

LEMMA NextBalance == Inv /\ Balance /\ [Next]_vars => Balance'
<1> SUFFICES ASSUME Inv, Balance, [Next]_vars PROVE Balance' OBVIOUS
<1>1. CASE Reject BY <1>1 DEF Reject, Balance
<1>2. CASE Accept
    <2>1. phase' = "place" /\ i' = 0 /\ grid' = [c \in Cells |-> -1] /\ Cells' = Cells
        BY <1>2 DEF Accept, Inv, TypeOK, Cells, gird_num
    <2>2. Painted(0)' = {} /\ Painted(1)' = {} BY <2>1 DEF Painted
    <2>3. Of(0)' = 0 /\ Of(1)' = 0 BY <2>2, FS_EmptySet DEF Of
    <2> QED BY <2>1, <2>3 DEF Balance
<1>3. CASE \E r \in 0 .. GridSize - 1 : Draw(r) BY <1>3, DrawBalance
<1>4. CASE Placed BY <1>4 DEF Placed, Balance, Of, Painted, Cells, gird_num
<1>5. CASE UNCHANGED vars BY <1>5 DEF vars, Balance, Of, Painted, Cells, gird_num
<1> QED BY <1>1, <1>2, <1>3, <1>4, <1>5 DEF Next

(* For every command line the match starts even: as many red panels as      *)
(* blue ones, or one red more, and as many of both as were asked for.       *)
THEOREM StartIsEven == Spec => []BalancedStart
<1>1. Init => Inv /\ Balance BY InitInv DEF Init, Balance
<1>2. Inv /\ Balance /\ [Next]_vars => (Inv /\ Balance)' BY NextInv, NextBalance
<1>3. Inv /\ Balance => BalancedStart
    <2> SUFFICES ASSUME Inv, Balance, phase = "ready" PROVE BalancedStart
        BY DEF BalancedStart
    <2>1. i \in Nat /\ argv.panel \in Int /\ (i = 0 \/ i <= argv.panel) /\ i >= argv.panel
        BY ArgsAssumption DEF Inv, TypeOK, Balance
    <2>2. Of(0) + Of(1) = i /\ Of(0) - Of(1) = i % 2 BY DEF Balance
    <2>3. i % 2 \in {0, 1} /\ (argv.panel > 0 => i = argv.panel) BY <2>1
    <2> QED BY <2>2, <2>3 DEF BalancedStart, Of, Painted
<1> QED BY <1>1, <1>2, <1>3, PTL DEF Spec

(* For every command line the mode, the cells, the counts and the message   *)
(* that main keeps are what its declarations say, through the placement.    *)
THEOREM TypeCorrect == Spec => []TypeOK
<1>1. Inv => TypeOK BY DEF Inv
<1> QED BY <1>1, InitInv, NextInv, PTL DEF Spec

(* A draw that the scan rejects leaves no colour behind and an accepted one *)
(* colours its cell by the panel's parity, for every command line and every *)
(* sequence of rand(): the board shows exactly the panels placed.           *)
THEOREM BoardShowsPanels == Spec => []ColoursMatch
<1>1. Inv => ColoursMatch BY DEF Inv
<1> QED BY <1>1, InitInv, NextInv, PTL DEF Spec
==============================================================================
