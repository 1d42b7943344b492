-------------------------------- MODULE Search --------------------------------
(***************************************************************************)
(* The search program of the fourth day: a handler of the server            *)
(* (day4/hw4_server.c), which answers each word with the data that contain  *)
(* it, and its client (day4/hw4_client.c), whose sender thread asks again   *)
(* at every key and whose receiver thread shows the answers.  The two       *)
(* threads share the word, the terminal's cursor and display_mutex.         *)
(*                                                                          *)
(* A query or a name, written as its length and its text, is one unit.      *)
(***************************************************************************)
EXTENDS Integers, Sequences, FiniteSets, SequencesExt, TLC

CONSTANTS
    Lines,    \* the lines of the data file, characters; a number of one digit ends each
    Letters,  \* keys that are letters
    Rows,     \* 10 in the code: the most answers, and the rows of the screen
    MaxKeys,  \* bound: keys pressed
    Junk,     \* what count may hold before it is first read
    MayDie    \* whether the client may be stopped from outside

Nul == "nul"
Enter == "enter"
Back == "back"     \* 127
Keys == Letters \cup {Enter, Back}
Blank == 0         \* an empty row; others hold an index of the data

ASSUME SearchAssumption ==
    /\ Lines \in Seq(Seq(STRING)) /\ Lines # << >>
    /\ Rows \in Nat \ {0} /\ MaxKeys \in Nat /\ Junk \subseteq Int /\ MayDie \in BOOLEAN
    /\ Letters \cap {Nul, Enter, Back, " "} = {}
    /\ \A k \in DOMAIN Lines : " " \in ToSet(Lines[k])

\* load_data cuts each line at its last blank.
LastBlank(line) == CHOOSE k \in DOMAIN line :
    line[k] = " " /\ \A j \in DOMAIN line : line[j] = " " => j <= k
Data == [k \in DOMAIN Lines |->
            [name |-> SubSeq(Lines[k], 1, LastBlank(Lines[k]) - 1),
             size |-> CHOOSE n \in 0 .. 9 : ToString(n) = Lines[k][LastBlank(Lines[k]) + 1]]]
Items == DOMAIN Data

VARIABLES
    name_msg, len,  \* the client's word, an array of characters, and its length
    keys,           \* keys pressed
    spc, wiped,     \* where the sender stands, and the rows it has wiped
    rpc, count, i,  \* where the receiver stands, what it read as count, and its row
    list,           \* the name it read last
    mutex,          \* display_mutex: "free" or "recv"; the sender gives it back at once
    cursor, screen, \* the row of the cursor, 0 for the word's, and what rows 1 to Rows show
    sock,           \* "open", "held" when closed with a read in progress, "closed"
    up, down,       \* the streams to the server and to the client
    hpc, msg, found,\* the handler: where it stands, the word, the names it has yet to write
    server,         \* "run", or "gone" when the server has ended
    cleared         \* history: the rows were wiped by a key that asked nothing

wordVars == <<name_msg, len, keys>>
recvVars == <<rpc, count, i, list, mutex>>
handlerVars == <<hpc, msg, found, server>>
vars == <<wordVars, spc, wiped, recvVars, cursor, screen, sock, up, down, handlerVars, cleared>>

Init ==
    /\ name_msg = [k \in 1 .. MaxKeys + 1 |-> Nul] /\ len = 0 /\ keys = 0
    /\ spc = "top" /\ wiped = 0
    /\ rpc = "count" /\ count \in Junk /\ i = 1 /\ list = Blank   \* count is not initialised
    /\ mutex = "free"
    /\ cursor = 0 /\ screen = [r \in 1 .. Rows |-> Blank]
    /\ sock = "open" /\ up = << >> /\ down = << >>
    /\ hpc = "read" /\ msg = << >> /\ found = << >> /\ server = "run"
    /\ cleared = TRUE

\* The string in an array of characters: up to the first NUL.
String(a) == LET ends == {k \in DOMAIN a : a[k] = Nul}
             IN  SubSeq(a, 1, (CHOOSE k \in ends : \A j \in ends : k <= j) - 1)
Word == String(name_msg)

\* strstr
StrStr(s, t) == \E k \in 0 .. Len(s) - Len(t) : SubSeq(s, k + 1, k + Len(t)) = t

------------------------------------------------------------------------------
(* The sender.                                                              *)

\* Defect: without display_mutex.
MayLockAlways == TRUE

MayLock == mutex = "free"

Top ==
    /\ spc = "top" /\ MayLock
    /\ cursor' = 0
    /\ spc' = "key"
    /\ UNCHANGED <<wordVars, wiped, recvVars, screen, sock, up, down, handlerVars, cleared>>

\* A letter or Enter: the character is written, and then its NUL.
Type(m) ==
    /\ spc = "key" /\ keys < MaxKeys /\ m # Back
    /\ name_msg' = [name_msg EXCEPT ![len + 1] = m]
    /\ len' = len + 1 /\ keys' = keys + 1
    /\ spc' = "nul"
    /\ UNCHANGED <<wiped, recvVars, cursor, screen, sock, up, down, handlerVars, cleared>>

TypeEnd ==
    /\ spc = "nul"
    /\ name_msg' = [name_msg EXCEPT ![len + 1] = Nul]
    /\ spc' = "show"
    /\ UNCHANGED <<len, keys, wiped, recvVars, cursor, screen, sock, up, down, handlerVars,
                   cleared>>

Erase ==
    /\ spc = "key" /\ keys < MaxKeys /\ len >= 1
    /\ name_msg' = [name_msg EXCEPT ![len] = Nul]
    /\ len' = len - 1 /\ keys' = keys + 1
    /\ spc' = "show"
    /\ UNCHANGED <<wiped, recvVars, cursor, screen, sock, up, down, handlerVars, cleared>>

(* Backspace with no word wipes the rows, without the mutex, and asks       *)
(* nothing; a NUL is written where none is needed.                          *)
EraseNothing ==
    /\ spc = "key" /\ keys < MaxKeys /\ len < 1
    /\ name_msg' = [name_msg EXCEPT ![2] = Nul]
    /\ keys' = keys + 1
    /\ spc' = "wipe" /\ wiped' = 0
    /\ cleared' = TRUE
    /\ UNCHANGED <<len, recvVars, cursor, screen, sock, up, down, handlerVars>>

\* gotoxy and the erasure of the row the cursor is on are two calls.
WipeRow ==
    /\ spc = "wipe"
    /\ \/ /\ wiped < Rows /\ spc' = "wiping" /\ cursor' = wiped + 1
       \/ /\ wiped = Rows /\ spc' = "top" /\ cursor' = cursor
    /\ UNCHANGED <<wordVars, wiped, recvVars, screen, sock, up, down, handlerVars, cleared>>

Erased(r) == IF r \in DOMAIN screen THEN [screen EXCEPT ![r] = Blank] ELSE screen

WipedRow ==
    /\ spc = "wiping"
    /\ screen' = Erased(cursor)
    /\ wiped' = wiped + 1
    /\ spc' = "wipe"
    /\ UNCHANGED <<wordVars, recvVars, cursor, sock, up, down, handlerVars, cleared>>

ShowWord ==
    /\ spc = "show" /\ MayLock
    /\ cursor' = 0
    /\ spc' = "send"
    /\ UNCHANGED <<wordVars, wiped, recvVars, screen, sock, up, down, handlerVars, cleared>>

Quits == Word = <<"q", Enter>>

Ask ==
    /\ spc = "send" /\ ~ Quits
    /\ up' = Append(up, Word)
    /\ cleared' = FALSE
    /\ spc' = "top"
    /\ UNCHANGED <<wordVars, wiped, recvVars, cursor, screen, sock, down, handlerVars>>

\* The word q ends the sender; a read of the receiver keeps the connection.
Quit ==
    /\ spc = "send" /\ Quits
    /\ spc' = "done"
    /\ sock' \in {"closed"} \cup (IF rpc \in {"count", "row"} THEN {"held"} ELSE {})
    /\ UNCHANGED <<wordVars, wiped, recvVars, cursor, screen, up, down, handlerVars, cleared>>

Die ==
    /\ MayDie /\ spc \notin {"done", "dead"}
    /\ spc' = "dead" /\ sock' = "closed"
    /\ UNCHANGED <<wordVars, wiped, recvVars, cursor, screen, up, down, handlerVars, cleared>>

SenderStep ==
    \/ Top \/ (\E m \in Keys : Type(m)) \/ TypeEnd \/ Erase \/ EraseNothing
    \/ WipeRow \/ WipedRow \/ ShowWord \/ Ask \/ Quit

------------------------------------------------------------------------------
(* The receiver, while the process runs.                                    *)

Runs == spc # "dead"
Departed == sock = "closed"

(* A read takes what has come and, if the socket was closed meanwhile, is   *)
(* the last; a read of the closed socket fails, and nobody looks at that.   *)
Receives(kind) == Runs /\ down # << >> /\ Head(down).kind = kind /\ sock # "closed"
Received == down' = Tail(down) /\ sock' = IF sock = "held" THEN "closed" ELSE sock
Fails == Runs /\ sock = "closed" /\ UNCHANGED <<down, sock>>

ReadCount ==
    /\ rpc = "count"
    /\ \/ Receives("count") /\ Received /\ count' = Head(down).n
       \/ Fails /\ count' = count
    /\ rpc' = "lock"
    /\ UNCHANGED <<wordVars, spc, wiped, i, list, mutex, cursor, screen, up, handlerVars, cleared>>

Lock ==
    /\ Runs /\ rpc = "lock" /\ MayLock
    /\ mutex' = "recv"
    /\ rpc' = "clear" /\ i' = 1
    /\ UNCHANGED <<wordVars, spc, wiped, count, list, cursor, screen, sock, up, down, handlerVars,
                   cleared>>

ClearRow ==
    /\ Runs /\ rpc = "clear"
    /\ \/ /\ i <= Rows /\ rpc' = "clearing" /\ cursor' = i /\ i' = i
       \/ /\ i > Rows /\ rpc' = "row" /\ i' = 1 /\ cursor' = cursor
    /\ UNCHANGED <<wordVars, spc, wiped, count, list, mutex, screen, sock, up, down, handlerVars,
                   cleared>>

ClearedRow ==
    /\ Runs /\ rpc = "clearing"
    /\ screen' = Erased(cursor)
    /\ rpc' = "clear" /\ i' = i + 1
    /\ UNCHANGED <<wordVars, spc, wiped, count, list, mutex, cursor, sock, up, down, handlerVars,
                   cleared>>

\* Defect: a name more than were sent.
OneMoreName == i <= count + 1

NamesLeft == i <= count

\* The mutex is held while the next name is waited for.
ReadName ==
    /\ rpc = "row" /\ NamesLeft
    /\ \/ Receives("name") /\ Received /\ list' = Head(down).n
       \/ Fails /\ list' = list
    /\ cursor' = i
    /\ rpc' = "print"
    /\ UNCHANGED <<wordVars, spc, wiped, count, i, mutex, screen, up, handlerVars, cleared>>

(* Until a name was read the list and str_len are not initialised either:   *)
(* the NUL that ends the name is written wherever str_len says, or nowhere. *)
Crash ==
    /\ rpc = "row" /\ NamesLeft /\ Fails /\ list = Blank
    /\ spc' = "dead"
    /\ UNCHANGED <<wordVars, wiped, recvVars, cursor, screen, up, handlerVars, cleared>>

\* A name is printed, where the cursor is, if it contains the word as it is now.
PrintName ==
    /\ Runs /\ rpc = "print"
    /\ screen' = IF cursor \in DOMAIN screen /\ list # Blank /\ StrStr(Data[list].name, Word)
                 THEN [screen EXCEPT ![cursor] = list] ELSE screen
    /\ rpc' = "row" /\ i' = i + 1
    /\ UNCHANGED <<wordVars, spc, wiped, count, list, mutex, cursor, sock, up, down, handlerVars,
                   cleared>>

Unlock ==
    /\ Runs /\ rpc = "row" /\ ~ NamesLeft
    /\ mutex' = "free"
    /\ rpc' = "count"
    /\ UNCHANGED <<wordVars, spc, wiped, count, i, list, cursor, screen, sock, up, down,
                   handlerVars, cleared>>

ReceiverStep ==
    \/ ReadCount \/ Lock \/ ClearRow \/ ClearedRow \/ ReadName \/ Crash
    \/ PrintName \/ Unlock

------------------------------------------------------------------------------
(* The handler of the server.                                               *)

\* The text up to the first end of line.
Cut(w) == LET ends == {k \in DOMAIN w : w[k] = Enter}
          IN  IF ends = {} THEN w ELSE SubSeq(w, 1, (CHOOSE k \in ends : \A j \in ends : k <= j) - 1)

\* Those whose name contains w.
Matches(w) == {k \in Items : StrStr(Data[k].name, w)}

\* Defect: no limit.
Uncapped(s) == s

\* At most Rows of them, the first in the order of the file.
Capped(s) == {k \in s : Cardinality({j \in s : j < k}) < Rows}

(* A query; or, once the client is gone, nothing, and the old one again.    *)
ReadQuery ==
    /\ server = "run" /\ hpc = "read"
    /\ \/ up # << >> /\ msg' = Cut(Head(up)) /\ up' = Tail(up)
       \/ up = << >> /\ Departed /\ UNCHANGED <<msg, up>>
    /\ hpc' = "count"
    /\ UNCHANGED <<wordVars, spc, wiped, recvVars, cursor, screen, sock, down, found, server,
                   cleared>>

\* A write: once the client is gone a SIGPIPE, after the first.
Write(kind, n) ==
    \/ ~ Departed /\ down' = Append(down, [kind |-> kind, n |-> n]) /\ server' = server
    \/ Departed /\ down' = down /\ server' \in {"run", "gone"}

\* qsort by size, the least first; equal sizes in any order.
BySize(s) == {t \in SetToSeqs(s) :
    \A k \in 1 .. Len(t) - 1 : Data[t[k]].size <= Data[t[k + 1]].size}

(* The search and, after the count, the sort are of data that never change, *)
(* so that both are part of this write.                                     *)
WriteCount ==
    /\ server = "run" /\ hpc = "count"
    /\ found' \in BySize(Capped(Matches(msg)))
    /\ Write("count", Len(found'))
    /\ hpc' = "names"
    /\ UNCHANGED <<wordVars, spc, wiped, recvVars, cursor, screen, sock, up, msg, cleared>>

WriteName ==
    /\ server = "run" /\ hpc = "names" /\ found # << >>
    /\ Write("name", Head(found))
    /\ found' = Tail(found)
    /\ UNCHANGED <<wordVars, spc, wiped, recvVars, cursor, screen, sock, up, hpc, msg, cleared>>

Answered ==
    /\ server = "run" /\ hpc = "names" /\ found = << >>
    /\ hpc' = "read"
    /\ UNCHANGED <<wordVars, spc, wiped, recvVars, cursor, screen, sock, up, down, msg, found,
                   server, cleared>>

HandlerStep == ReadQuery \/ WriteCount \/ WriteName \/ Answered

Next == SenderStep \/ Die \/ ReceiverStep \/ HandlerStep

Spec == Init /\ [][Next]_vars

\* The threads are scheduled, and keys need not be pressed.
FairSpec ==
    /\ Spec
    /\ WF_vars(Top \/ TypeEnd \/ WipeRow \/ WipedRow \/ ShowWord \/ Ask \/ Quit)
    /\ WF_vars(ReceiverStep) /\ WF_vars(HandlerStep)

------------------------------------------------------------------------------

(* What each variable holds.  Only once the socket is closed may count be   *)
(* what it was before the first read, and rows be any of the terminal's.    *)
TypeOK ==
    /\ name_msg \in [1 .. MaxKeys + 1 -> Keys \cup {Nul}] /\ len \in 0 .. MaxKeys
    /\ spc \in {"top", "key", "nul", "show", "send", "wipe", "wiping", "done", "dead"}
    /\ rpc \in {"count", "lock", "clear", "clearing", "row", "print"}
    /\ count \in Junk \cup 0 .. Rows /\ i \in Nat \ {0} /\ cursor \in Nat
    /\ sock # "closed" => i <= Rows + 1 /\ cursor <= Rows /\ (count \in 0 .. Rows \/ rpc = "count")
    /\ list \in Items \cup {Blank}
    /\ mutex \in {"free", "recv"} /\ (mutex = "recv" <=> rpc \notin {"count", "lock"})
    /\ screen \in [1 .. Rows -> Items \cup {Blank}]
    /\ sock \in {"open", "held", "closed"} /\ server \in {"run", "gone"}
    /\ hpc \in {"read", "count", "names"} /\ ToSet(found) \subseteq Items

Resting == spc = "key" /\ rpc = "count" /\ hpc = "read" /\ up = << >> /\ down = << >>

\* The rows show the data s, each once, in ascending order, and no row is left out.
Shows(s) ==
    LET rows == 1 .. Cardinality(s)
    IN  /\ {screen[r] : r \in rows} = s
        /\ \A r \in rows : r + 1 \in rows => Data[screen[r]].size <= Data[screen[r + 1]].size
        /\ \A r \in (1 .. Rows) \ rows : screen[r] = Blank

(* When everything typed has been answered, the screen shows the data that  *)
(* contain the word, the first of the file, in ascending order, however the *)
(* answers to earlier words, the keys and the two threads' use of the       *)
(* cursor interleaved.  A word with an Enter is left out: the handler cuts  *)
(* it there, and the client filters the answer by the whole word.           *)
ShownWhenQuiet ==
    Resting /\ ~ cleared /\ Enter \notin ToSet(Word) => Shows(Capped(Matches(Word)))

(* Answers arrive and are shown in the end, whatever is typed meanwhile,    *)
(* although the receiver holds the mutex while it waits for a name.         *)
Settles == []<>(Resting \/ spc \in {"done", "dead"})
===============================================================================
