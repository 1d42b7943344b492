----------------------------- MODULE SearchProofs -----------------------------
(***************************************************************************)
(* Proofs about the search program, for any data, keys and number of rows: *)
(* the types (TypeCorrect), and that the rows show the matches of the word *)
(* when all is quiet (RowsShowTheWord).                                    *)
(*                                                                         *)
(* Two threads write the rows through one cursor, and names are filtered   *)
(* by the word as it is when they are printed, so rows are right only in   *)
(* the end.  The invariant follows the last query alone: from Ask, through *)
(* the handler, into the receiver (LastAnswer).  Whatever was asked, wiped *)
(* or printed before is cleared when its answer is read; and after Ask the *)
(* cursor moves without the mutex only if Backspace is pressed with no     *)
(* word, which the property exempts.                                       *)
(***************************************************************************)
EXTENDS Search, WellFoundedInduction, FiniteSetTheorems, SequenceTheorems, TLAPS

\* What is on its way to the client, a count or a name.
Names == [kind : {"count"}, n : 0 .. Rows] \cup [kind : {"name"}, n : Items]

(* The word is shorter than the keys pressed, so that its array always     *)
(* ends in a NUL; rows are wiped only after Backspace with no word.        *)
KeysOK ==
  /\ keys \in 0 .. MaxKeys /\ len <= keys /\ name_msg[MaxKeys + 1] = Nul
  /\ wiped \in 0 .. Rows /\ (spc = "wiping" => wiped < Rows)
  /\ spc \in {"wipe", "wiping"} => cleared

\* The receiver's row, as it clears, reads and prints.
RowsOK ==
  /\ rpc = "clearing" => i <= Rows
  /\ rpc = "row" /\ sock # "closed" => i <= count + 1
  /\ rpc = "print" => i <= count

\* What the streams hold; the socket is open and the server there until the client goes.
StreamsOK ==
  /\ up \in Seq(Seq(Keys \cup {Nul})) /\ down \in Seq(Names) /\ found \in Seq(Items)
  /\ spc \notin {"done", "dead"} => sock = "open"
  /\ sock # "closed" => server = "run"
  /\ cleared \in BOOLEAN

\* Type correctness with what the types of one step need of another.
TypeInv == TypeOK /\ KeysOK /\ RowsOK /\ StreamsOK

\* The word is the one asked for last, and no key has changed it since.
Settled == spc \in {"top", "key"} /\ ~ cleared /\ Enter \notin ToSet(Word)

\* The answer to the word as it is.
Answer == Capped(Matches(Word))

Unit(kind, n) == [kind |-> kind, n |-> n]

\* How many names of the present answer the receiver has read.
Taken == IF rpc = "row" THEN i - 1 ELSE IF rpc = "print" THEN i
         ELSE IF rpc = "count" THEN count ELSE 0

(* The names of t after the first `from' are the ones after place k on     *)
(* their way and those the handler has yet to write.                       *)
Comes(t, k, from) ==
  /\ Len(t) + k = from + Len(down) + Len(found)
  /\ \A j \in 1 .. Len(down) : j > k => down[j] = Unit("name", t[from + j - k])
  /\ \A j \in 1 .. Len(found) : found[j] = t[from + Len(down) - k + j]

\* The answer t is on its way with its count.
Coming(t) == \E k \in 1 .. Len(down) : down[k] = Unit("count", Len(t)) /\ Comes(t, k, 0)

\* The first n rows show the first n of t, and the others nothing.
Drawn(t, n) == \A r \in 1 .. Rows : screen[r] = IF r <= n THEN t[r] ELSE Blank

(* What the receiver has made of the rows for the answer t: cleared up to  *)
(* i, then filled up to i, with the cursor where it left it.               *)
Shown(t) ==
  /\ rpc \in {"clear", "clearing"} => \A r \in 1 .. Rows : r < i => screen[r] = Blank
  /\ rpc = "clearing" => cursor = i
  /\ rpc \in {"row", "print"} => Drawn(t, i - 1)
  /\ rpc = "count" => Drawn(t, count)
  /\ rpc = "print" => cursor = i /\ list = t[i]

\* The receiver has read the count of the answer t, and the names to come are the rest of it.
Reading(t) == Len(t) = count /\ Comes(t, 0, Taken) /\ Shown(t)

(* Once the word is settled, its query is the last on its way, or the      *)
(* handler is at it, or its answer is coming or being shown.               *)
LastAnswer ==
  Settled =>
    \/ up # << >> /\ up[Len(up)] = Word
    \/ /\ up = << >> /\ msg = Word
       /\ hpc = "count" \/ \E t \in BySize(Answer) : Coming(t) \/ Reading(t)

------------------------------------------------------------------------------
(* Numbers, sets and words.                                                *)

\* A nonempty set of naturals has a least element,
LEMMA Least ==
    ASSUME NEW S \in SUBSET Nat, S # {}
    PROVE  \E k \in S : \A j \in S : k <= j
<1> DEFINE less == OpToRel(<, Nat)
<1>1. PICK k \in S : \A j \in S : <<j, k>> \notin less BY NatLessThanWellFounded, WFMin
<1>2. \A j, n \in Nat : <<j, n>> \in less <=> j < n BY DEF OpToRel
<1> HIDE DEF less
<1>3. \A j \in S : ~ (j < k) BY <1>1, <1>2
<1> QED BY <1>3

\* and a bounded one a greatest.
LEMMA Greatest ==
    ASSUME NEW n \in Nat, NEW S \in SUBSET (1 .. n), S # {}
    PROVE  \E k \in S : \A j \in S : j <= k
<1> DEFINE T == {n - k : k \in S}
<1>0. \A k \in 1 .. n : k \in Int /\ n - k \in Nat OBVIOUS
<1>1. T \in SUBSET Nat /\ T # {} BY <1>0
<1>2. PICK m \in T : \A j \in T : m <= j BY <1>1, Least
<1>3. PICK k \in S : m = n - k BY <1>2
<1>4. ASSUME NEW j \in S PROVE j <= k
  <2>1. n - j \in T /\ n - k <= n - j BY <1>2, <1>3
  <2>2. j \in Int /\ k \in Int /\ n \in Int BY <1>0
  <2> HIDE DEF T
  <2> QED BY <2>1, <2>2
<1> QED BY <1>4

\* The data are numbered from 1, so that no row with a name is blank.
LEMMA ItemsAre ==
    Items = 1 .. Len(Lines) /\ Len(Lines) \in Nat /\ IsFiniteSet(Items) /\ Blank \notin Items
<1>1. Lines \in Seq(Seq(STRING)) BY SearchAssumption
<1>2. DOMAIN Lines = 1 .. Len(Lines) /\ Len(Lines) \in Nat BY <1>1
<1>3. Items = 1 .. Len(Lines) BY <1>2 DEF Items, Data
<1> QED BY <1>2, <1>3, FS_Interval DEF Blank

\* The limit leaves Rows of a set at most.
LEMMA CappedIs ==
    ASSUME NEW S \in SUBSET Items
    PROVE  Capped(S) \subseteq S /\ IsFiniteSet(Capped(S)) /\ Cardinality(Capped(S)) \in 0 .. Rows
<1>0. Rows \in Nat BY SearchAssumption
<1>1. Capped(S) \subseteq S BY DEF Capped
<1>2. IsFiniteSet(S) BY ItemsAre, FS_Subset
<1>3. IsFiniteSet(Capped(S)) BY <1>1, <1>2, FS_Subset
<1>4. Cardinality(Capped(S)) \in Nat BY <1>3, FS_CardinalityType
<1>5. CASE Capped(S) = {} BY <1>0, <1>1, <1>3, <1>5, FS_EmptySet
<1>6. CASE Capped(S) # {}
  <2>1. PICK m \in Capped(S) : \A j \in Capped(S) : j <= m
    <3>1. Capped(S) \in SUBSET (1 .. Len(Lines)) BY <1>1, ItemsAre
    <3> QED BY <3>1, <1>6, Greatest, ItemsAre
    <2>0. S \subseteq Int /\ m \in Int
    <3>1. \A j \in 1 .. Len(Lines) : j \in Int BY ItemsAre
    <3> QED BY <1>1, <2>1, <3>1, ItemsAre
  <2> DEFINE B == {j \in S : j < m}
  <2>2. Cardinality(B) < Rows BY <2>1 DEF Capped
  <2>3. IsFiniteSet(B) BY <1>2, FS_Subset
  <2>4. Cardinality(B) \in Nat BY <2>3, FS_CardinalityType
  <2>5. IsFiniteSet(B \cup {m}) /\ Cardinality(B \cup {m}) = Cardinality(B) + 1
    <3>1. m \notin B BY <2>0
    <3> QED BY <3>1, <2>3, FS_AddElement
  <2>6. Capped(S) \subseteq B \cup {m}
    <3>1. \A j \in Capped(S) : j \in S /\ j \in Int /\ m \in Int BY <1>1, <2>0
    <3> QED BY <3>1, <2>1
  <2>7. Cardinality(Capped(S)) <= Cardinality(B \cup {m}) BY <2>5, <2>6, FS_Subset
  <2> HIDE DEF B
  <2> QED BY <1>0, <1>1, <1>3, <1>4, <2>2, <2>4, <2>5, <2>7
<1> QED BY <1>5, <1>6

\* A sorted answer has each item of the set once.
LEMMA SortedIs ==
    ASSUME NEW S, IsFiniteSet(S), NEW t \in BySize(S)
    PROVE  /\ t \in Seq(S) /\ Len(t) = Cardinality(S) /\ Cardinality(S) \in Nat
           /\ \A x \in S : \E k \in 1 .. Len(t) : t[k] = x
           /\ \A k \in 1 .. Len(t) - 1 : Data[t[k]].size <= Data[t[k + 1]].size
<1> DEFINE n == Cardinality(S)
<1>1. n \in Nat BY FS_CardinalityType
<1>2. t \in [1 .. n -> S] /\ (\A j, k \in 1 .. n : j # k => t[j] # t[k]) BY DEF BySize, SetToSeqs
<1>3. t \in Seq(S) /\ Len(t) = n BY <1>1, <1>2
<1>4. t \in Injection(1 .. n, S) BY <1>2 DEF Injection, IsInjective
<1>5. IsFiniteSet(1 .. n) /\ Cardinality(1 .. n) = n BY <1>1, FS_Interval
<1>6. t \in Surjection(1 .. n, S) BY <1>4, <1>5, FS_Injection
<1>7. \A k \in 1 .. Len(t) - 1 : Data[t[k]].size <= Data[t[k + 1]].size BY DEF BySize
<1> QED BY <1>1, <1>3, <1>6, <1>7 DEF Surjection

\* The word is a string, because its array ends in a NUL.
LEMMA WordIs ==
    ASSUME name_msg \in [1 .. MaxKeys + 1 -> Keys \cup {Nul}], name_msg[MaxKeys + 1] = Nul
    PROVE  Word \in Seq(Keys \cup {Nul})
<1> DEFINE ends == {k \in DOMAIN name_msg : name_msg[k] = Nul}
           e == CHOOSE k \in ends : \A j \in ends : k <= j
<1>1. MaxKeys \in Nat BY SearchAssumption
<1>2. ends \in SUBSET Nat /\ ends # {} BY <1>1
<1>3. e \in ends
  <2>1. \E k \in ends : \A j \in ends : k <= j BY <1>2, Least
  <2> QED BY <2>1
<1>4. e \in 1 .. MaxKeys + 1 BY <1>3
<1>5. Word = SubSeq(name_msg, 1, e - 1) BY DEF Word, String
<1>6. name_msg \in Seq(Keys \cup {Nul}) /\ Len(name_msg) = MaxKeys + 1 BY <1>1
<1> HIDE DEF e
<1> QED BY <1>1, <1>4, <1>5, <1>6, SubSeqProperties

\* A word without Enter reaches the handler whole.
LEMMA CutIs ==
    ASSUME NEW w, Enter \notin ToSet(w)
    PROVE  Cut(w) = w
<1>1. {k \in DOMAIN w : w[k] = Enter} = {} BY DEF ToSet
<1> QED BY <1>1 DEF Cut
------------------------------------------------------------------------------
(* The types.                                                              *)

\* The first state has the types,
LEMMA InitType == Init => TypeInv
<1> SUFFICES ASSUME Init PROVE TypeInv OBVIOUS
<1>1. MaxKeys \in Nat /\ Rows \in Nat /\ Junk \subseteq Int BY SearchAssumption
<1>2. TypeOK BY <1>1 DEF Init, TypeOK, ToSet
<1>3. KeysOK BY <1>1 DEF Init, KeysOK
<1>4. StreamsOK /\ RowsOK BY <1>1 DEF Init, StreamsOK, RowsOK
<1> QED BY <1>2, <1>3, <1>4 DEF TypeInv

\* stuttering keeps them,
LEMMA TypeStill == TypeInv /\ UNCHANGED vars => TypeInv'
BY DEF TypeInv, TypeOK, KeysOK, RowsOK, StreamsOK, vars, wordVars, recvVars, handlerVars

\* and so do the sender's steps,
LEMMA TypeSender == TypeInv /\ (SenderStep \/ Die) => TypeInv'
<1> SUFFICES ASSUME TypeInv, SenderStep \/ Die PROVE TypeInv' OBVIOUS
<1> USE DEF TypeInv, wordVars, recvVars, handlerVars
<1>0. MaxKeys \in Nat /\ Rows \in Nat BY SearchAssumption
<1>1. UNCHANGED <<count, i, list, rpc, mutex, down, hpc, msg, found, server>>
  BY DEF SenderStep, Top, Type, TypeEnd, Erase, EraseNothing, WipeRow, WipedRow, ShowWord, Ask,
         Quit, Die
<1>2. RowsOK' /\ (sock' # "closed" => sock # "closed") /\ sock' \in {"open", "held", "closed"}
  <2>1. (sock' # "closed" => sock # "closed") /\ sock' \in {"open", "held", "closed"}
    BY DEF SenderStep, Top, Type, TypeEnd, Erase, EraseNothing, WipeRow, WipedRow, ShowWord, Ask,
         Quit, Die, TypeOK, StreamsOK
  <2> QED BY <1>1, <2>1 DEF RowsOK
<1>3. CASE Top \/ ShowWord BY <1>0, <1>1, <1>2, <1>3 DEF Top, ShowWord, TypeOK, KeysOK, StreamsOK
<1>4. ASSUME NEW m \in Keys, Type(m) PROVE TypeInv'
  <2>1. len + 1 \in 1 .. MaxKeys /\ keys + 1 \in 0 .. MaxKeys BY <1>0, <1>4 DEF Type, TypeOK, KeysOK
  <2>2. name_msg' \in [1 .. MaxKeys + 1 -> Keys \cup {Nul}] /\ name_msg'[MaxKeys + 1] = Nul
    BY <1>0, <1>4, <2>1 DEF Type, TypeOK, KeysOK
  <2> QED BY <1>0, <1>1, <1>2, <1>4, <2>1, <2>2 DEF Type, TypeOK, KeysOK, StreamsOK
<1>5. CASE TypeEnd
  <2>1. name_msg' \in [1 .. MaxKeys + 1 -> Keys \cup {Nul}] /\ name_msg'[MaxKeys + 1] = Nul
    BY <1>0, <1>5 DEF TypeEnd, TypeOK, KeysOK
  <2> QED BY <1>0, <1>1, <1>2, <1>5, <2>1 DEF TypeEnd, TypeOK, KeysOK, StreamsOK
<1>6. CASE Erase
  <2>1. name_msg' \in [1 .. MaxKeys + 1 -> Keys \cup {Nul}] /\ name_msg'[MaxKeys + 1] = Nul
    BY <1>0, <1>6 DEF Erase, TypeOK, KeysOK
  <2> QED BY <1>0, <1>1, <1>2, <1>6, <2>1 DEF Erase, TypeOK, KeysOK, StreamsOK
<1>7. CASE EraseNothing
  <2>1. name_msg' \in [1 .. MaxKeys + 1 -> Keys \cup {Nul}] /\ name_msg'[MaxKeys + 1] = Nul
    BY <1>0, <1>7 DEF EraseNothing, TypeOK, KeysOK
  <2> QED BY <1>0, <1>1, <1>2, <1>7, <2>1 DEF EraseNothing, TypeOK, KeysOK, StreamsOK
<1>8. CASE WipeRow BY <1>0, <1>1, <1>2, <1>8 DEF WipeRow, TypeOK, KeysOK, StreamsOK
<1>9. CASE WipedRow
  <2>1. screen' \in [1 .. Rows -> Items \cup {Blank}] BY <1>9 DEF WipedRow, Erased, TypeOK
  <2> QED BY <1>0, <1>1, <1>2, <1>9, <2>1 DEF WipedRow, TypeOK, KeysOK, StreamsOK
<1>10. CASE Ask
  <2>1. up' \in Seq(Seq(Keys \cup {Nul}))
    <3>1. Word \in Seq(Keys \cup {Nul}) BY WordIs DEF TypeOK, KeysOK
    <3> QED BY <3>1, <1>10 DEF Ask, StreamsOK
  <2> QED BY <1>0, <1>1, <1>2, <1>10, <2>1 DEF Ask, TypeOK, KeysOK, StreamsOK
<1>11. CASE Quit BY <1>0, <1>1, <1>2, <1>11 DEF Quit, TypeOK, KeysOK, StreamsOK
<1>12. CASE Die BY <1>0, <1>1, <1>2, <1>12 DEF Die, TypeOK, KeysOK, StreamsOK
<1> QED BY <1>3, <1>4, <1>5, <1>6, <1>7, <1>8, <1>9, <1>10, <1>11, <1>12 DEF SenderStep

\* Reading a unit of a stream.
LEMMA HeadIs ==
    ASSUME NEW S, NEW s \in Seq(S), s # << >>
    PROVE  /\ Head(s) \in S /\ Head(s) = s[1] /\ Tail(s) \in Seq(S)
           /\ Len(s) \in Nat /\ Len(s) >= 1 /\ Len(Tail(s)) = Len(s) - 1
           /\ \A k \in 1 .. Len(s) - 1 : Tail(s)[k] = s[k + 1]
OBVIOUS

\* Writing one.
LEMMA AddIs ==
    ASSUME NEW S, NEW s \in Seq(S), NEW x \in S
    PROVE  /\ Append(s, x) \in Seq(S) /\ Append(s, x) # << >>
           /\ Len(s) \in Nat /\ Len(Append(s, x)) = Len(s) + 1
           /\ \A k \in 1 .. Len(s) : Append(s, x)[k] = s[k]
           /\ Append(s, x)[Len(s) + 1] = x
OBVIOUS

\* count is an integer, read or not.
LEMMA CountIs ==
    ASSUME TypeInv
    PROVE  Junk \subseteq Int /\ count \in Int
<1>1. Junk \subseteq Int /\ Rows \in Nat BY SearchAssumption
<1>2. PICK n \in Junk \cup 0 .. Rows : n = count BY DEF TypeInv, TypeOK
<1>3. n \in Int BY <1>1, <1>2
<1> QED BY <1>1, <1>2, <1>3

\* the receiver's,
LEMMA TypeReceiver == TypeInv /\ ReceiverStep => TypeInv'
<1> SUFFICES ASSUME TypeInv, ReceiverStep PROVE TypeInv' OBVIOUS
<1> USE DEF TypeInv, wordVars, recvVars, handlerVars
<1>0. MaxKeys \in Nat /\ Rows \in Nat BY SearchAssumption
<1>z. CASE Crash BY <1>0, <1>z DEF Crash, Fails, TypeOK, KeysOK, RowsOK, StreamsOK
<1> SUFFICES ASSUME ~ Crash PROVE TypeInv' BY <1>z
<1>1. UNCHANGED <<name_msg, len, keys, spc, wiped, up, hpc, msg, found, server, cleared>>
  BY DEF ReceiverStep, ReadCount, Lock, ClearRow, ClearedRow, ReadName, PrintName, Unlock
<1>2. KeysOK' BY <1>1 DEF KeysOK
<1>y. Junk \subseteq Int /\ count \in Int BY CountIs
<1>3. CASE ReadCount
  <2>1. /\ count' \in Junk \cup 0 .. Rows /\ down' \in Seq(Names)
        /\ sock' # "closed" => sock # "closed" /\ count' \in 0 .. Rows
    <3>1. CASE Receives("count") /\ Received /\ count' = Head(down).n
      BY <3>1, HeadIs DEF Receives, Received, StreamsOK, Names
    <3> QED BY <1>3, <3>1 DEF ReadCount, Fails, StreamsOK, TypeOK
  <2> QED
      BY <1>0, <1>1, <1>2, <1>3, <2>1
      DEF ReadCount, Receives, Received, Fails, TypeOK, RowsOK, StreamsOK
<1>4. CASE Lock BY <1>0, <1>1, <1>2, <1>4 DEF Lock, MayLock, TypeOK, RowsOK, StreamsOK
<1>5. CASE ClearRow BY <1>0, <1>1, <1>2, <1>5 DEF ClearRow, TypeOK, RowsOK, StreamsOK
<1>6. CASE ClearedRow
  <2>1. screen' \in [1 .. Rows -> Items \cup {Blank}] BY <1>6 DEF ClearedRow, Erased, TypeOK
  <2> QED BY <1>0, <1>1, <1>2, <1>6, <2>1 DEF ClearedRow, TypeOK, RowsOK, StreamsOK
<1>7. CASE ReadName
  <2>1. list' \in Items \cup {Blank} /\ down' \in Seq(Names)
    <3>1. CASE Receives("name") /\ Received /\ list' = Head(down).n
      BY <3>1, HeadIs DEF Receives, Received, StreamsOK, Names
    <3> QED BY <1>7, <3>1 DEF ReadName, Fails, StreamsOK, TypeOK
  <2> QED
      BY <1>0, <1>1, <1>2, <1>7, <1>y, <2>1
      DEF ReadName, NamesLeft, Receives, Received, Fails, TypeOK, RowsOK, StreamsOK
<1>8. CASE PrintName
  <2>1. screen' \in [1 .. Rows -> Items \cup {Blank}] BY <1>8 DEF PrintName, TypeOK
  <2> QED BY <1>0, <1>1, <1>2, <1>8, <1>y, <2>1 DEF PrintName, TypeOK, RowsOK, StreamsOK
<1>9. CASE Unlock BY <1>0, <1>1, <1>2, <1>9, <1>y DEF Unlock, NamesLeft, TypeOK, RowsOK, StreamsOK
<1> QED BY <1>3, <1>4, <1>5, <1>6, <1>7, <1>8, <1>9 DEF ReceiverStep

\* What the handler writes for the word w.
LEMMA AnswerIs ==
    ASSUME NEW w, NEW t \in BySize(Capped(Matches(w)))
    PROVE  /\ t \in Seq(Items) /\ Len(t) \in 0 .. Rows /\ Len(t) = Cardinality(Capped(Matches(w)))
           /\ \A k \in 1 .. Len(t) : t[k] \in Items /\ t[k] \in Capped(Matches(w)) /\
               StrStr(Data[t[k]].name, w)
           /\ \A x \in Capped(Matches(w)) : \E k \in 1 .. Len(t) : t[k] = x
           /\ \A k \in 1 .. Len(t) - 1 : Data[t[k]].size <= Data[t[k + 1]].size
<1> DEFINE S == Capped(Matches(w))
<1>1. S \subseteq Matches(w) /\ S \subseteq Items /\ IsFiniteSet(S) /\ Cardinality(S) \in 0 .. Rows
  BY CappedIs DEF Matches
<1>2. /\ t \in Seq(S) /\ Len(t) = Cardinality(S)
      /\ \A x \in S : \E k \in 1 .. Len(t) : t[k] = x
      /\ \A k \in 1 .. Len(t) - 1 : Data[t[k]].size <= Data[t[k + 1]].size
  BY <1>1, SortedIs
<1> HIDE DEF S
<1>3. \A k \in 1 .. Len(t) : t[k] \in S BY <1>2
<1>4. t \in Seq(Items) BY <1>1, <1>2, <1>3
<1> QED BY <1>1, <1>2, <1>3, <1>4 DEF S, Matches

\* and the handler's.
LEMMA TypeHandler == TypeInv /\ HandlerStep => TypeInv'
<1> SUFFICES ASSUME TypeInv, HandlerStep PROVE TypeInv' OBVIOUS
<1> USE DEF TypeInv, wordVars, recvVars, handlerVars
<1>0. MaxKeys \in Nat /\ Rows \in Nat BY SearchAssumption
<1>1. UNCHANGED <<name_msg, len, keys, spc, wiped, rpc, count, i, list, mutex, cursor, screen, sock,
          cleared>>
  BY DEF HandlerStep, ReadQuery, WriteCount, WriteName, Answered
<1>2. KeysOK' /\ RowsOK' BY <1>1 DEF KeysOK, RowsOK
<1>3. ASSUME up' \in Seq(Seq(Keys \cup {Nul})), down' \in Seq(Names), found' \in Seq(Items),
             hpc' \in {"read", "count", "names"},
             server' = server \/ (Departed /\ server' \in {"run", "gone"})
      PROVE TypeInv'
  <2>1. ToSet(found') \subseteq Items BY <1>3 DEF ToSet
  <2>2. TypeOK' BY <1>1, <1>3, <2>1 DEF TypeOK, Departed
  <2>3. StreamsOK' BY <1>1, <1>3 DEF StreamsOK, Departed
  <2> QED BY <1>2, <2>2, <2>3
<1>4. CASE ReadQuery
  <2>1. up' \in Seq(Seq(Keys \cup {Nul})) BY <1>4, HeadIs DEF ReadQuery, StreamsOK
  <2> QED BY <1>3, <1>4, <2>1 DEF ReadQuery, StreamsOK
<1>5. CASE WriteCount
  <2>1. found' \in Seq(Items) /\ Len(found') \in 0 .. Rows BY <1>5, AnswerIs DEF WriteCount
  <2>2. [kind |-> "count", n |-> Len(found')] \in Names BY <2>1 DEF Names
  <2>3. down' \in Seq(Names)
    <3>1. down' = down \/ down' = Append(down, [kind |-> "count", n |-> Len(found')])
      BY <1>5 DEF WriteCount, Write
    <3>2. down \in Seq(Names) BY DEF StreamsOK
    <3> QED BY <2>2, <3>1, <3>2, AddIs
  <2> QED BY <1>3, <1>5, <2>1, <2>3 DEF WriteCount, Write, StreamsOK
<1>6. CASE WriteName
  <2>1. found' \in Seq(Items) /\ Head(found) \in Items BY <1>6, HeadIs DEF WriteName, StreamsOK
  <2>2. [kind |-> "name", n |-> Head(found)] \in Names BY <2>1 DEF Names
  <2>3. down' \in Seq(Names)
    <3>1. down' = down \/ down' = Append(down, [kind |-> "name", n |-> Head(found)])
      BY <1>6 DEF WriteName, Write
    <3>2. down \in Seq(Names) BY DEF StreamsOK
    <3> QED BY <2>2, <3>1, <3>2, AddIs
  <2> QED BY <1>3, <1>6, <2>1, <2>3 DEF WriteName, Write, StreamsOK, TypeOK
<1>7. CASE Answered BY <1>3, <1>7 DEF Answered, StreamsOK
<1> QED BY <1>4, <1>5, <1>6, <1>7 DEF HandlerStep

\* So every step keeps the types.
LEMMA TypeNext == TypeInv /\ [Next]_vars => TypeInv'
BY TypeStill, TypeSender, TypeReceiver, TypeHandler DEF Next

(* Search.TypeOK, for any data, keys and number of rows and whatever count *)
(* holds before it is first read (l.216): no row, count or length leaves   *)
(* its range until the socket is closed, and no name is out of the data    *)
(* even then.                                                              *)
THEOREM TypeCorrect == Spec => []TypeOK
<1>1. TypeInv => TypeOK BY DEF TypeInv
<1> QED BY <1>1, InitType, TypeNext, PTL DEF Spec
------------------------------------------------------------------------------
(* The last answer.                                                        *)

\* When the receiver reads a unit the names to come are nearer;
LEMMA ComesTail ==
    ASSUME TypeInv, down # << >>, down' = Tail(down), found' = found, NEW t \in Seq(Items),
           NEW k \in 0 .. Len(down), NEW from \in Nat, Comes(t, k, from)
    PROVE  /\ k = 0 => Comes(t, 0, from + 1)' /\ down[1] = Unit("name", t[from + 1])
           /\ k > 0 => Comes(t, k - 1, from)'
<1>1. /\ Len(down) \in Nat /\ Len(down) >= 1 /\ Len(down') = Len(down) - 1
      /\ \A j \in 1 .. Len(down) - 1 : down'[j] = down[j + 1]
  BY HeadIs DEF TypeInv, StreamsOK
<1>2. Len(t) \in Nat /\ Len(found) \in Nat BY DEF TypeInv, StreamsOK
<1>3. Len(t) + k = from + Len(down) + Len(found) BY DEF Comes
<1>4. \A j \in 1 .. Len(down) : j > k => down[j] = Unit("name", t[from + j - k]) BY DEF Comes
<1>5. \A j \in 1 .. Len(found) : found[j] = t[from + Len(down) - k + j] BY DEF Comes
<1>6. CASE k = 0
  <2>1. down[1] = Unit("name", t[from + 1]) BY <1>1, <1>4, <1>6
  <2>2. Len(t) + 0 = (from + 1) + Len(down') + Len(found') BY <1>1, <1>2, <1>3, <1>6
  <2>3. ASSUME NEW j \in 1 .. Len(down') PROVE down'[j] = Unit("name", t[(from + 1) + j - 0])
    <3>1. j + 1 \in 1 .. Len(down) /\ j + 1 > k /\ from + (j + 1) - k = (from + 1) + j - 0
      BY <1>1, <1>6
    <3> QED BY <1>1, <1>4, <3>1
  <2>4. ASSUME NEW j \in 1 .. Len(found') PROVE found'[j] = t[(from + 1) + Len(down') - 0 + j]
    <3>1. from + Len(down) - k + j = (from + 1) + Len(down') - 0 + j BY <1>1, <1>2, <1>6
    <3> QED BY <1>5, <3>1
  <2> QED BY <1>6, <2>1, <2>2, <2>3, <2>4 DEF Comes
<1>7. CASE k > 0
  <2>2. Len(t) + (k - 1) = from + Len(down') + Len(found') BY <1>1, <1>2, <1>3
  <2>3. ASSUME NEW j \in 1 .. Len(down'),
            j > k - 1 PROVE down'[j] = Unit("name", t[from + j - (k - 1)])
    <3>1. j + 1 \in 1 .. Len(down) /\ j + 1 > k /\ from + (j + 1) - k = from + j - (k - 1)
      BY <1>1, <2>3
    <3> QED BY <1>1, <1>4, <3>1
  <2>4. ASSUME NEW j \in 1 .. Len(found') PROVE found'[j] = t[from + Len(down') - (k - 1) + j]
    <3>1. from + Len(down) - k + j = from + Len(down') - (k - 1) + j BY <1>1, <1>2
    <3> QED BY <1>5, <3>1
  <2>5. PICK m : m = k - 1 OBVIOUS
  <2>6. Comes(t, m, from)' BY <2>2, <2>3, <2>4, <2>5 DEF Comes
  <2> QED BY <1>7, <2>5, <2>6
<1> QED BY <1>6, <1>7

\* when the handler writes one they are the same.
LEMMA ComesAdd ==
    ASSUME TypeInv, found # << >>, found' = Tail(found),
           down' = Append(down, Unit("name", Head(found))), NEW t \in Seq(Items),
           NEW k \in 0 .. Len(down), NEW from \in Nat, Comes(t, k, from)
    PROVE  Comes(t, k, from)'
<1>1. /\ Len(found) \in Nat /\ Len(found) >= 1 /\ Len(found') = Len(found) - 1 /\
          Head(found) = found[1]
      /\ \A j \in 1 .. Len(found) - 1 : found'[j] = found[j + 1]
  BY HeadIs DEF TypeInv, StreamsOK
<1>2. Unit("name", Head(found)) \in Names
  BY HeadIs DEF TypeInv, StreamsOK, Unit, Names
<1>3. /\ Len(down) \in Nat /\ Len(down') = Len(down) + 1
      /\ \A j \in 1 .. Len(down) : down'[j] = down[j]
      /\ down'[Len(down) + 1] = Unit("name", Head(found))
  BY <1>2, AddIs DEF TypeInv, StreamsOK
<1>4. Len(t) + k = from + Len(down) + Len(found) BY DEF Comes
<1>5. \A j \in 1 .. Len(down) : j > k => down[j] = Unit("name", t[from + j - k]) BY DEF Comes
<1>6. \A j \in 1 .. Len(found) : found[j] = t[from + Len(down) - k + j] BY DEF Comes
<1>7. Len(t) + k = from + Len(down') + Len(found') BY <1>1, <1>3, <1>4
<1>8. ASSUME NEW j \in 1 .. Len(down'), j > k PROVE down'[j] = Unit("name", t[from + j - k])
  <2>1. CASE j \in 1 .. Len(down) BY <1>3, <1>5, <1>8, <2>1
  <2>2. CASE j = Len(down) + 1
    <3>1. found[1] = t[from + Len(down) - k + 1] /\ from + Len(down) - k + 1 = from + j - k
      BY <1>1, <1>3, <1>6, <2>2
    <3> QED BY <1>1, <1>3, <2>2, <3>1
  <2> QED BY <1>3, <2>1, <2>2
<1>9. ASSUME NEW j \in 1 .. Len(found') PROVE found'[j] = t[from + Len(down') - k + j]
  <2>1. j + 1 \in 1 .. Len(found) /\ from + Len(down) - k + (j + 1) = from + Len(down') - k + j
    BY <1>1, <1>3
  <2> QED BY <1>1, <1>6, <2>1
<1> QED BY <1>7, <1>8, <1>9 DEF Comes

(* Only Ask settles the word, and its query is then the last.  The cursor  *)
(* moves without the mutex only before that.                               *)
LEMMA LastSender == TypeInv /\ LastAnswer /\ (SenderStep \/ Die) => LastAnswer'
<1> SUFFICES ASSUME TypeInv, LastAnswer, SenderStep \/ Die, Settled' PROVE LastAnswer'
    BY DEF LastAnswer
<1> USE DEF wordVars, recvVars, handlerVars
<1>1. CASE Top
  <2>1. /\ UNCHANGED <<name_msg, count, i, list, rpc, screen, up, down, hpc, msg, found>> /\ Settled
        /\ rpc \in {"count", "lock"}
    BY <1>1 DEF Top, MayLock, Settled, Word, TypeInv, TypeOK
  <2>2. Word' = Word /\ Answer' = Answer BY <2>1 DEF Word, Answer
  <2>3. ASSUME NEW t PROVE (Coming(t) => Coming(t)') /\ (Reading(t) => Reading(t)')
    BY <2>1 DEF Coming, Comes, Reading, Taken, Shown, Drawn
  <2> QED BY <2>1, <2>2, <2>3 DEF LastAnswer
<1>2. CASE Ask
  <2>1. up' = Append(up, Word) /\ Word' = Word BY <1>2 DEF Ask, Word
  <2>2. Word \in Seq(Keys \cup {Nul}) BY WordIs DEF TypeInv, TypeOK, KeysOK
  <2>3. up \in Seq(Seq(Keys \cup {Nul})) BY DEF TypeInv, StreamsOK
  <2>4. up' # << >> /\ up'[Len(up')] = Word BY <2>1, <2>2, <2>3, AddIs
  <2> QED BY <2>1, <2>4 DEF LastAnswer
<1>3. CASE WipeRow \/ WipedRow \/ EraseNothing
  BY <1>3 DEF WipeRow, WipedRow, EraseNothing, Settled, TypeInv, KeysOK
<1>4. CASE Quit \/ Die \/ (\E m \in Keys : Type(m)) \/ TypeEnd \/ Erase \/ ShowWord
  BY <1>4 DEF Quit, Die, Type, TypeEnd, Erase, ShowWord, Settled
<1> QED BY <1>1, <1>2, <1>3, <1>4 DEF SenderStep

(* The receiver reads the last answer, clears the rows and fills them:     *)
(* nobody moves the cursor or changes the word meanwhile.                  *)
LEMMA LastReceiver == TypeInv /\ LastAnswer /\ ReceiverStep => LastAnswer'
<1> SUFFICES ASSUME TypeInv, LastAnswer, ReceiverStep, Settled' PROVE LastAnswer' BY DEF LastAnswer
<1> USE DEF wordVars, recvVars, handlerVars
<1>0. ~ Crash BY DEF Crash, Settled
<1>1. UNCHANGED <<name_msg, spc, up, hpc, msg, found, cleared>>
  BY <1>0 DEF ReceiverStep, ReadCount, Lock, ClearRow, ClearedRow, ReadName, PrintName, Unlock
<1>2. Settled /\ Word' = Word /\ Answer' = Answer BY <1>1 DEF Settled, Word, Answer
<1>3. sock = "open" BY <1>2 DEF Settled, TypeInv, StreamsOK
<1>4. SUFFICES ASSUME NEW t \in BySize(Answer), Coming(t) \/ Reading(t) PROVE Coming(t)' \/
          Reading(t)'
  BY <1>1, <1>2 DEF LastAnswer
<1>5. /\ t \in Seq(Items) /\ Len(t) \in 0 .. Rows
      /\ \A n \in 1 .. Len(t) : t[n] \in Items /\ StrStr(Data[t[n]].name, Word)
  BY AnswerIs DEF Answer
<1>6. /\ Rows \in Nat /\ (Reading(t) => count \in 0 .. Rows)
      /\ i \in 1 .. Rows + 1 /\ cursor \in 0 .. Rows
      /\ rpc \in {"count", "lock", "clear", "clearing", "row", "print"}
      /\ screen \in [1 .. Rows -> Items \cup {Blank}] /\ down \in Seq(Names) /\ Len(down) \in Nat /\
          RowsOK
  <2>1. Rows \in Nat BY SearchAssumption
  <2>2. down \in Seq(Names) /\ Len(down) \in Nat BY DEF TypeInv, StreamsOK
  <2>3. i \in 1 .. Rows + 1 /\ cursor \in 0 .. Rows BY <1>3, <2>1 DEF TypeInv, TypeOK
  <2> QED BY <1>5, <2>1, <2>2, <2>3 DEF TypeInv, TypeOK, Reading
<1>7. CASE Coming(t)
  <2>1. CASE down' = down BY <1>1, <1>7, <2>1 DEF Coming, Comes
  <2>2. CASE down # << >> /\ down' = Tail(down)
    <3>1. PICK k \in 1 .. Len(down) : down[k] = Unit("count", Len(t)) /\ Comes(t, k, 0)
        BY <1>7 DEF Coming
    <3>2. Comes(t, k - 1, 0)' BY <1>1, <1>5, <1>6, <2>2, <3>1, ComesTail
    <3>3. /\ Head(down) = down[1] /\ Len(down') = Len(down) - 1
          /\ \A j \in 1 .. Len(down) - 1 : down'[j] = down[j + 1]
      BY <1>6, <2>2, HeadIs
    <3>4. CASE k > 1
      <4>1. k - 1 \in 1 .. Len(down') /\ down'[k - 1] = down[(k - 1) + 1] BY <1>6, <3>3, <3>4
      <4> QED BY <3>1, <3>2, <4>1, <1>6 DEF Coming
    <3>5. CASE k = 1
      <4>0. Head(down).kind = "count" /\ Head(down).n = Len(t) BY <3>1, <3>3, <3>5 DEF Unit
      <4>9. down' # down BY <1>6, <3>3
      <4>1. ReadCount /\ count' = Len(t) /\ rpc' = "lock"
        BY <1>0, <1>3, <4>0, <4>9
        DEF ReceiverStep, ReadCount, Lock, ClearRow, ClearedRow, ReadName, PrintName, Unlock,
            Receives, Received, Fails, Unit
      <4>2. Comes(t, 0, 0)' BY <3>2, <3>5
      <4> QED BY <4>1, <4>2 DEF Reading, Taken, Shown
    <3> QED BY <1>6, <3>4, <3>5
  <2> QED
      BY <1>0, <2>1, <2>2
      DEF ReceiverStep, ReadCount, Lock, ClearRow, ClearedRow, ReadName, PrintName, Unlock,
            Receives, Received, Fails
<1>8. CASE Reading(t)
  <2>0. count \in 0 .. Rows BY <1>6, <1>8
  <2>1. Len(t) = count /\ Comes(t, 0, Taken) /\ Shown(t) BY <1>8 DEF Reading
  <2>2. Len(found) \in Nat BY DEF TypeInv, StreamsOK
  <2>3. Len(t) + 0 = Taken + Len(down) + Len(found) BY <2>1 DEF Comes
  <2>4. ASSUME down' = down, Taken' = Taken PROVE Comes(t, 0, Taken)' BY <1>1, <2>1, <2>4 DEF Comes
  <2>5. CASE ReadCount
    <3>1. rpc = "count" /\ Taken = count BY <2>5 DEF ReadCount, Taken
    <3>2. Len(down) = 0 BY <1>6, <2>0, <2>1, <2>2, <2>3, <3>1
    <3>3. down # << >> BY <1>3, <2>5 DEF ReadCount, Receives, Fails
    <3> QED BY <1>6, <2>0, <3>2, <3>3
  <2>6. CASE Lock
    <3>1. rpc = "lock" /\ rpc' = "clear" /\ i' = 1 /\ UNCHANGED <<count, screen, down>>
        BY <2>6 DEF Lock
    <3>2. Shown(t)' BY <3>1, <1>6, <2>0 DEF Shown
    <3> QED BY <2>1, <2>4, <3>1, <3>2 DEF Taken, Reading
  <2>7. CASE ClearRow
    <3>1. rpc = "clear" /\ UNCHANGED <<count, screen, down>> /\ \A r \in 1 .. Rows : r < i =>
              screen[r] = Blank
      BY <2>1, <2>7 DEF ClearRow, Shown
    <3>2. CASE i <= Rows /\ rpc' = "clearing" /\ cursor' = i /\ i' = i
      BY <2>1, <2>4, <3>1, <3>2 DEF Taken, Reading, Shown
    <3>3. CASE i > Rows /\ rpc' = "row" /\ i' = 1
      <4>1. \A r \in 1 .. Rows : screen'[r] = Blank /\ ~ (r <= 1 - 1) BY <1>6, <2>0, <3>1, <3>3
      <4>2. Shown(t)' BY <3>3, <4>1 DEF Shown, Drawn
      <4>3. Taken' = Taken BY <3>1, <3>3 DEF Taken
      <4> QED BY <2>1, <2>4, <3>1, <4>2, <4>3 DEF Reading
    <3> QED BY <2>7, <3>2, <3>3 DEF ClearRow
  <2>8. CASE ClearedRow
    <3>1. /\ rpc = "clearing" /\ rpc' = "clear" /\ i' = i + 1 /\ cursor = i /\
              UNCHANGED <<count, down>>
          /\ screen' = [screen EXCEPT ![i] = Blank] /\ \A r \in 1 .. Rows : r < i =>
              screen[r] = Blank
      BY <1>6, <2>0, <2>1, <2>8 DEF ClearedRow, Erased, Shown
    <3>2. \A r \in 1 .. Rows : r < i' => screen'[r] = Blank BY <1>6, <2>0, <3>1
    <3> QED BY <2>1, <2>4, <3>1, <3>2 DEF Taken, Reading, Shown
  <2>9. CASE ReadName
    <3>1. /\ rpc = "row" /\ i <= count /\ rpc' = "print" /\ cursor' = i /\ down # << >> /\
              down' = Tail(down)
          /\ list' = Head(down).n /\ UNCHANGED <<count, i, screen>>
      BY <1>3, <2>9 DEF ReadName, NamesLeft, Receives, Received, Fails
    <3>2. Taken = i - 1 /\ Taken' = (i - 1) + 1 /\ i - 1 \in Nat BY <1>6, <2>0, <3>1 DEF Taken
    <3>3. Comes(t, 0, Taken)' /\ down[1] = Unit("name", t[(i - 1) + 1])
      BY <1>1, <1>5, <1>6, <2>1, <3>1, <3>2, ComesTail
    <3>4. list' = t[i] /\ (i - 1) + 1 = i BY <1>6, <2>0, <3>1, <3>3, HeadIs DEF Unit
    <3>5. Shown(t)' BY <2>1, <3>1, <3>4 DEF Shown, Drawn
    <3> QED BY <2>1, <3>1, <3>3, <3>5 DEF Reading
  <2>10. CASE PrintName
    <3>1. /\ rpc = "print" /\ rpc' = "row" /\ i' = i + 1 /\ i <= count /\ cursor = i /\ list = t[i]
          /\ Drawn(t, i - 1) /\ UNCHANGED <<count, down>>
      BY <2>1, <2>10, <1>6, <2>0 DEF PrintName, Shown, RowsOK
    <3>2. i \in 1 .. Len(t) BY <1>5, <1>6, <2>0, <2>1, <3>1
    <3>3. screen' = [screen EXCEPT ![i] = t[i]]
      BY <1>5, <1>6, <2>0, <2>10, <3>1, <3>2, ItemsAre DEF PrintName
    <3>4. Drawn(t, i - 1)'
      <4>1. ASSUME NEW r \in 1 .. Rows PROVE screen'[r] = IF r <= i' - 1 THEN t[r] ELSE Blank
        <5>1. screen[r] = IF r <= i - 1 THEN t[r] ELSE Blank BY <3>1 DEF Drawn
        <5> QED BY <1>6, <2>0, <3>1, <3>3, <5>1
      <4> QED BY <4>1 DEF Drawn
    <3>5. Taken' = Taken BY <1>6, <2>0, <3>1 DEF Taken
    <3> QED BY <2>1, <2>4, <3>1, <3>4, <3>5 DEF Reading, Shown
  <2>11. CASE Unlock
    <3>1. rpc = "row" /\ rpc' = "count" /\ ~ (i <= count) /\ UNCHANGED <<count, i, screen, down>> /\
              Drawn(t, i - 1)
      BY <2>1, <2>11 DEF Unlock, NamesLeft, Shown
    <3>2. i - 1 = count BY <1>3, <1>6, <2>0, <3>1 DEF RowsOK
    <3>3. Drawn(t, count)' BY <3>1, <3>2 DEF Drawn
    <3>4. Taken' = Taken BY <3>1, <3>2 DEF Taken
    <3> QED BY <2>1, <2>4, <3>1, <3>3, <3>4 DEF Reading, Shown
  <2> QED BY <1>0, <2>5, <2>6, <2>7, <2>8, <2>9, <2>10, <2>11 DEF ReceiverStep
<1> QED BY <1>4, <1>7, <1>8

\* The handler takes the last query and writes its answer.
LEMMA LastHandler == TypeInv /\ LastAnswer /\ HandlerStep => LastAnswer'
<1> SUFFICES ASSUME TypeInv, LastAnswer, HandlerStep, Settled' PROVE LastAnswer' BY DEF LastAnswer
<1> USE DEF wordVars, recvVars, handlerVars
<1>1. UNCHANGED <<name_msg, spc, rpc, count, i, list, cursor, screen, sock, cleared>>
  BY DEF HandlerStep, ReadQuery, WriteCount, WriteName, Answered
<1>2. Settled /\ Word' = Word /\ Answer' = Answer /\ Taken' = Taken
    BY <1>1 DEF Settled, Word, Answer, Taken
<1>3. ~ Departed BY <1>2 DEF Settled, TypeInv, StreamsOK, Departed
<1>4. Enter \notin ToSet(Word) BY <1>2 DEF Settled
<1>5. \A t : Shown(t)' <=> Shown(t) BY <1>1 DEF Shown, Drawn
<1>6. down \in Seq(Names) /\ found \in Seq(Items) /\ Len(down) \in Nat /\ Len(found) \in Nat
  BY DEF TypeInv, StreamsOK
<1>7. ASSUME NEW t \in BySize(Answer), Reading(t) PROVE Taken \in Nat
  <2>1. i \in Nat \ {0} BY DEF TypeInv, TypeOK
  <2>2. count \in Nat BY <1>7, AnswerIs DEF Reading, Answer
  <2> QED BY <2>1, <2>2 DEF Taken
<1>8. CASE ReadQuery
  <2>1. up # << >> /\ msg' = Cut(Head(up)) /\ up' = Tail(up) /\ hpc' = "count" /\ hpc = "read"
    BY <1>3, <1>8 DEF ReadQuery
  <2>2. up[Len(up)] = Word BY <1>2, <2>1 DEF LastAnswer
  <2>3. /\ Len(up) \in Nat /\ Len(up) >= 1 /\ Len(up') = Len(up) - 1 /\ Head(up) = up[1]
        /\ up' \in Seq(Seq(Keys \cup {Nul})) /\ \A j \in 1 .. Len(up) - 1 : up'[j] = up[j + 1]
    BY <2>1, HeadIs DEF TypeInv, StreamsOK
  <2>4. CASE Len(up) = 1
    <3>1. up' = << >> BY <2>3, <2>4
    <3>2. msg' = Word BY <1>4, <2>1, <2>2, <2>3, <2>4, CutIs
    <3> QED BY <1>2, <2>1, <3>1, <3>2 DEF LastAnswer
  <2>5. CASE Len(up) # 1
    <3>1. Len(up') \in 1 .. Len(up) - 1 /\ Len(up') + 1 = Len(up) BY <2>3, <2>5
    <3>2. up'[Len(up')] = Word BY <2>2, <2>3, <3>1
    <3>3. up' # << >> BY <2>3, <3>1
    <3> QED BY <1>2, <3>2, <3>3 DEF LastAnswer
  <2> QED BY <2>4, <2>5
<1>9. CASE WriteCount
  <2>1. /\ found' \in BySize(Capped(Matches(msg))) /\
            down' = Append(down, Unit("count", Len(found')))
        /\ UNCHANGED <<up, msg>> /\ hpc = "count"
    BY <1>3, <1>9 DEF WriteCount, Write, Unit
  <2>2. CASE up # << >> BY <1>2, <2>1, <2>2 DEF LastAnswer
  <2>3. CASE up = << >>
    <3>1. msg = Word /\ found' \in BySize(Answer) BY <1>2, <2>1, <2>3 DEF LastAnswer, Answer
    <3>2. found' \in Seq(Items) /\ Len(found') \in 0 .. Rows BY <2>1, AnswerIs
    <3>3. Unit("count", Len(found')) \in Names BY <3>2 DEF Unit, Names
    <3>4. Len(down') = Len(down) + 1 /\ down'[Len(down) + 1] = Unit("count", Len(found'))
      BY <1>6, <2>1, <3>3, AddIs
    <3>5. PICK t, k : t = found' /\ k = Len(down) + 1 OBVIOUS
    <3>6. Coming(t)'
      <4>1. Len(t) \in Nat BY <3>2, <3>5
      <4>2. Len(t) + k = 0 + Len(down') + Len(found') BY <1>6, <3>4, <3>5, <4>1
      <4>3. \A j \in 1 .. Len(down') : ~ (j > k) BY <1>6, <3>4, <3>5
      <4>4. \A j \in 1 .. Len(found') : 0 + Len(down') - k + j = j BY <1>6, <3>4, <3>5
      <4>5. Comes(t, k, 0)' BY <1>6, <3>5, <4>2, <4>3, <4>4 DEF Comes
      <4> QED BY <1>6, <3>4, <3>5, <4>5 DEF Coming
    <3> QED BY <1>2, <2>1, <2>3, <3>1, <3>5, <3>6 DEF LastAnswer
  <2> QED BY <2>2, <2>3
<1>10. CASE WriteName
  <2>1. /\ down' = Append(down, Unit("name", Head(found))) /\ found # << >> /\ found' = Tail(found)
        /\ UNCHANGED <<up, msg, hpc>> /\ hpc = "names"
    BY <1>3, <1>10 DEF WriteName, Write, Unit
  <2>2. CASE up # << >> BY <1>2, <2>1, <2>2 DEF LastAnswer
  <2>3. CASE up = << >>
    <3>1. msg = Word BY <1>2, <2>3 DEF LastAnswer
    <3>2. PICK t \in BySize(Answer) : Coming(t) \/ Reading(t) BY <1>2, <2>1, <2>3 DEF LastAnswer
    <3>3. t \in Seq(Items) BY AnswerIs DEF Answer
    <3>4. ASSUME NEW k \in 0 .. Len(down), NEW from \in Nat,
              Comes(t, k, from) PROVE Comes(t, k, from)'
      BY <2>1, <3>3, <3>4, ComesAdd
    <3>5. CASE Coming(t)
      <4>1. PICK k \in 1 .. Len(down) : down[k] = Unit("count", Len(t)) /\ Comes(t, k, 0)
          BY <3>5 DEF Coming
      <4>2. Comes(t, k, 0)' BY <1>6, <3>4, <4>1
      <4>3. Unit("name", Head(found)) \in Names BY <1>6, <2>1, HeadIs DEF Unit, Names
      <4>4. k \in 1 .. Len(down') /\ down'[k] = down[k] BY <1>6, <2>1, <4>3, AddIs
      <4>5. Coming(t)' BY <4>1, <4>2, <4>4 DEF Coming
      <4> QED BY <1>2, <2>1, <2>3, <3>1, <4>5 DEF LastAnswer
    <3>6. CASE Reading(t)
      <4>1. Comes(t, 0, Taken)' BY <1>2, <1>6, <1>7, <3>4, <3>6 DEF Reading
      <4>2. Reading(t)' BY <1>1, <1>5, <3>6, <4>1 DEF Reading
      <4> QED BY <1>2, <2>1, <2>3, <3>1, <4>2 DEF LastAnswer
    <3> QED BY <3>2, <3>5, <3>6
  <2> QED BY <2>2, <2>3
<1>11. CASE Answered
  <2>1. UNCHANGED <<up, msg, down, found>> /\ hpc = "names" BY <1>11 DEF Answered
  <2>2. \A t : (Coming(t) => Coming(t)') /\ (Reading(t) => Reading(t)')
    BY <1>1, <1>2, <1>5, <2>1 DEF Coming, Reading, Comes
  <2> QED BY <1>2, <2>1, <2>2 DEF LastAnswer
<1> QED BY <1>8, <1>9, <1>10, <1>11 DEF HandlerStep

\* The inductive invariant.
Inv == TypeInv /\ LastAnswer

\* It holds at first,
LEMMA InvInit == Init => Inv
BY InitType DEF Inv, LastAnswer, Init, Settled

\* and every step keeps it.
LEMMA InvNext == Inv /\ [Next]_vars => Inv'
<1> SUFFICES ASSUME Inv, [Next]_vars PROVE Inv' OBVIOUS
<1>1. TypeInv' BY TypeNext DEF Inv
<1>2. CASE Next BY <1>1, <1>2, LastSender, LastReceiver, LastHandler DEF Inv, Next
<1>3. CASE UNCHANGED vars
  <2>1. \A t : (Coming(t) => Coming(t)') /\ (Reading(t) => Reading(t)')
    BY <1>3 DEF Coming, Comes, Reading, Taken, Shown, Drawn, vars, wordVars, recvVars, handlerVars
  <2> QED
      BY <1>1, <1>3, <2>1
      DEF Inv, LastAnswer, Settled, Word, Answer, vars, wordVars, recvVars, handlerVars
<1> QED BY <1>2, <1>3

(* Search.ShownWhenQuiet, for any data, keys and number of rows: when all  *)
(* that was typed is answered the rows show exactly the matches of the     *)
(* word, although earlier answers were filtered by later words, the rows   *)
(* were wiped without the mutex, and the cursor belongs to both threads.   *)
THEOREM RowsShowTheWord == Spec => []ShownWhenQuiet
<1>1. Inv => ShownWhenQuiet
  <2> SUFFICES ASSUME Inv, Resting, ~ cleared, Enter \notin ToSet(Word) PROVE Shows(Answer)
    BY DEF ShownWhenQuiet, Answer
  <2>1. Rows \in Nat /\ found \in Seq(Items)
    BY SearchAssumption DEF Inv, TypeInv, TypeOK, StreamsOK
  <2>2. PICK t \in BySize(Answer) : Coming(t) \/ Reading(t)
    BY DEF Inv, LastAnswer, Settled, Resting
  <2>3. ~ Coming(t) BY DEF Coming, Resting
  <2>4. Drawn(t, count) /\ Len(t) = count BY <2>2, <2>3 DEF Reading, Shown, Resting
  <2>5. /\ Len(t) \in 0 .. Rows /\ Len(t) = Cardinality(Answer)
        /\ \A k \in 1 .. Len(t) : t[k] \in Answer
        /\ \A x \in Answer : \E k \in 1 .. Len(t) : t[k] = x
        /\ \A k \in 1 .. Len(t) - 1 : Data[t[k]].size <= Data[t[k + 1]].size
    BY AnswerIs DEF Answer
  <2> DEFINE rows == 1 .. Cardinality(Answer)
  <2>6. \A r \in rows : r \in 1 .. Rows /\ screen[r] = t[r] BY <2>1, <2>4, <2>5 DEF Drawn
  <2>7. {screen[r] : r \in rows} = Answer BY <2>5, <2>6
  <2>8. \A r \in rows : r + 1 \in rows => Data[screen[r]].size <= Data[screen[r + 1]].size
    <3>1. \A r \in rows : r + 1 \in rows => r \in 1 .. Len(t) - 1 BY <2>5
    <3> QED BY <2>5, <2>6, <3>1
  <2>9. \A r \in (1 .. Rows) \ rows : screen[r] = Blank BY <2>1, <2>4, <2>5 DEF Drawn
  <2> QED BY <2>7, <2>8, <2>9 DEF Shows
<1> QED BY <1>1, InvInit, InvNext, PTL DEF Spec
==============================================================================
