------------------------------ MODULE ChatServer ------------------------------
(***************************************************************************)
(* The chat server (chat_server.c): the accept loop, which hands each new   *)
(* thread the address of its own variable clnt_sock, the handlers, which    *)
(* broadcast what they read, and the table clnt_socks under the mutex mutx; *)
(* with the clients (chat_clnt.c) as far as the server can tell.            *)
(*                                                                          *)
(* A message is what one read returns.  The process's descriptors are       *)
(* numbers that are used again after a close; fd says which connection a    *)
(* number stands for.  The program is compiled without optimisation.        *)
(***************************************************************************)
EXTENDS Integers, Sequences, FiniteSets

CONSTANTS
    N,       \* clients that connect
    Writes,  \* bound: messages each client writes
    LagMax,  \* messages that fit between the server and a client
    MayFail  \* whether accept may fail

(* The table's length, which no line compares with clnt_cnt: what one more  *)
(* entry overwrites is not defined.  N counts the returns of accept, and    *)
(* each adds one entry.                                                     *)
MAX_CLNT == 256

ASSUME ChatAssumption ==
    /\ N \in Nat \ {0} /\ N <= MAX_CLNT /\ Writes \in [1 .. N -> Nat]
    /\ LagMax \in Nat \ {0} /\ MayFail \in BOOLEAN

Clients == 1 .. N   \* in the order of accept; handler h is the one created for client h
Fds == 1 .. N
None == 0
Messages == UNION {[from : {c}, n : 1 .. Writes[c]] : c \in Clients}
Failed == [from |-> None, n |-> 0]   \* read returned -1

VARIABLES
    main,        \* "accept", "add", or "gone" when the process has ended
    accepted,    \* calls of accept that returned
    clnt_sock,   \* main's variable
    clnt_socks,  \* the first clnt_cnt entries of the table
    mutx,        \* the handler that holds the mutex, or None
    pc,          \* where each handler stands
    sock,        \* a handler's clnt_sock
    file,        \* the connection its read is on, None for a bad descriptor
    msg,         \* what it has read and not yet broadcast
    at,          \* send_msg's i, of the handler that holds the mutex
    fd,          \* the descriptor of each connection: None when closed, -1 when accept failed
    conn,        \* each connection, see Conns
    sent,        \* messages a client has written
    taken,       \* those the server has read
    lag,         \* messages written to a client that it has not read
    log,         \* history: the messages broadcast, in order
    heard,       \* history: what was written to each client
    since,       \* history: how many had been broadcast when the client was added
    mixed        \* history: a handler started with another handler's descriptor

handlerVars == <<pc, sock, file, msg, at, mutx>>
netVars == <<fd, conn, sent, taken, lag>>
history == <<log, heard, since, mixed>>
vars == <<main, accepted, clnt_sock, clnt_socks, handlerVars, netVars, history>>

PCs == {"none", "start", "enter", "read", "lock", "send", "remove", "close", "done"}
(* open; fin: closed by the client; reset: the client closed it with data   *)
(* unread, and the error is pending; dead: a write raises SIGPIPE; closed   *)
(* by the server; bad: accept failed.                                       *)
Conns == {"none", "open", "fin", "reset", "dead", "closed", "bad"}

Init ==
    /\ main = "accept" /\ accepted = 0 /\ clnt_sock = None
    /\ clnt_socks = << >> /\ mutx = None
    /\ pc = [h \in Clients |-> "none"]
    /\ sock = [h \in Clients |-> None]
    /\ file = [h \in Clients |-> None]
    /\ msg = [h \in Clients |-> Failed]
    /\ at = 1
    /\ fd = [c \in Clients |-> None]
    /\ conn = [c \in Clients |-> "none"]
    /\ sent = [c \in Clients |-> 0]
    /\ taken = [c \in Clients |-> 0]
    /\ lag = [c \in Clients |-> 0]
    /\ log = << >> /\ heard = [c \in Clients |-> << >>]
    /\ since = [c \in Clients |-> 0] /\ mixed = FALSE

Alive == main # "gone"

\* The connection that descriptor f stands for.
Conn(f) == IF \E c \in Clients : f > 0 /\ fd[c] = f
           THEN CHOOSE c \in Clients : fd[c] = f ELSE None

\* The kernel gives the lowest free number.
LowestFree(f) == Conn(f) = None /\ \A g \in Fds : g < f => Conn(g) # None

------------------------------------------------------------------------------
(* The accept loop.                                                         *)

\* accept returns descriptor f, or -1, which is not looked at.
Accept(f) ==
    LET c == accepted + 1
    IN  /\ main = "accept" /\ accepted < N
        /\ IF f = -1 THEN MayFail ELSE LowestFree(f)
        /\ accepted' = c
        /\ clnt_sock' = f
        /\ fd' = [fd EXCEPT ![c] = f]
        /\ conn' = [conn EXCEPT ![c] = IF f = -1 THEN "bad" ELSE "open"]
        /\ main' = "add"
        /\ UNCHANGED <<clnt_socks, handlerVars, sent, taken, lag, history>>

\* Defect: the table without its mutex.
MayLockAlways == TRUE

MayLock == mutx = None

\* The new descriptor is added under the mutex, and a thread is created; N keeps it in the table.
Admit ==
    /\ main = "add" /\ MayLock
    /\ clnt_socks' = Append(clnt_socks, clnt_sock)
    /\ since' = [since EXCEPT ![accepted] = Len(log)]
    /\ pc' = [pc EXCEPT ![accepted] = "start"]
    /\ main' = "accept"
    /\ UNCHANGED <<accepted, clnt_sock, sock, file, msg, at, mutx, netVars, log, heard, mixed>>

------------------------------------------------------------------------------
(* The handlers.                                                            *)

\* The thread reads main's variable, which may hold a later client by now.
Start(h) ==
    /\ Alive /\ pc[h] = "start"
    /\ sock' = [sock EXCEPT ![h] = clnt_sock]
    /\ mixed' = (mixed \/ clnt_sock # fd[h])
    /\ pc' = [pc EXCEPT ![h] = "enter"]
    /\ UNCHANGED <<main, accepted, clnt_sock, clnt_socks, file, msg, at, mutx, netVars,
                   log, heard, since>>

\* read begins: from here on it is on a connection, not on a number.
EnterRead(h) ==
    /\ Alive /\ pc[h] = "enter"
    /\ file' = [file EXCEPT ![h] = Conn(sock[h])]
    /\ pc' = [pc EXCEPT ![h] = "read"]
    /\ UNCHANGED <<main, accepted, clnt_sock, clnt_socks, sock, msg, at, mutx, netVars, history>>

ReadMessage(h) ==
    LET c == file[h]
    IN  /\ Alive /\ pc[h] = "read" /\ c # None
        /\ taken[c] < sent[c]
        /\ taken' = [taken EXCEPT ![c] = @ + 1]
        /\ msg' = [msg EXCEPT ![h] = [from |-> c, n |-> taken[c] + 1]]
        /\ pc' = [pc EXCEPT ![h] = "lock"]
        /\ file' = [file EXCEPT ![h] = None]
        /\ UNCHANGED <<main, accepted, clnt_sock, clnt_socks, sock, at, mutx,
                       fd, conn, sent, lag, history>>

EndOfStream(c) == conn[c] \in {"fin", "dead", "closed"}

ReadEnd(h) ==
    LET c == file[h]
    IN  /\ Alive /\ pc[h] = "read" /\ c # None
        /\ taken[c] = sent[c] /\ EndOfStream(c)
        /\ pc' = [pc EXCEPT ![h] = "remove"]
        /\ file' = [file EXCEPT ![h] = None]
        /\ UNCHANGED <<main, accepted, clnt_sock, clnt_socks, sock, msg, at, mutx,
                       netVars, history>>

(* read returns -1: a bad descriptor, again and again, or the error of a    *)
(* reset, once.  The loop goes on with a length of -1.                      *)
ReadError(h) ==
    LET c == file[h]
    IN  /\ Alive /\ pc[h] = "read"
        /\ \/ c = None /\ conn' = conn
           \/ /\ c # None /\ taken[c] = sent[c] /\ conn[c] = "reset"
              /\ conn' = [conn EXCEPT ![c] = "dead"]
        /\ msg' = [msg EXCEPT ![h] = Failed]
        /\ pc' = [pc EXCEPT ![h] = "lock"]
        /\ file' = [file EXCEPT ![h] = None]
        /\ UNCHANGED <<main, accepted, clnt_sock, clnt_socks, sock, at, mutx,
                       fd, sent, taken, lag, history>>

Lock(h) ==
    /\ Alive /\ pc[h] = "lock" /\ MayLock
    /\ mutx' = h
    /\ pc' = [pc EXCEPT ![h] = "send"]
    /\ log' = IF msg[h] = Failed THEN log ELSE Append(log, msg[h])
    /\ UNCHANGED <<main, accepted, clnt_sock, clnt_socks, sock, file, msg, at, netVars,
                   heard, since, mixed>>

(* write to the next entry.  A bad descriptor or a length of -1 is refused  *)
(* before anything is sent.  A client that does not read stops the write.   *)
Refused(h) == Conn(clnt_socks[at]) = None \/ msg[h] = Failed

Write(h) ==
    LET c == Conn(clnt_socks[at])
    IN  /\ Alive /\ pc[h] = "send" /\ at <= Len(clnt_socks)
        /\ ~ Refused(h) /\ conn[c] # "dead"
        /\ \/ /\ conn[c] = "open" /\ lag[c] < LagMax
              /\ lag' = [lag EXCEPT ![c] = @ + 1]
              /\ heard' = [heard EXCEPT ![c] = Append(@, msg[h])]
              /\ conn' = conn
           \/ /\ conn[c] = "fin"
              /\ conn' \in {conn, [conn EXCEPT ![c] = "dead"]}
              /\ UNCHANGED <<lag, heard>>
           \/ /\ conn[c] = "reset"
              /\ conn' = [conn EXCEPT ![c] = "dead"]
              /\ UNCHANGED <<lag, heard>>
        /\ at' = at + 1
        /\ UNCHANGED <<main, accepted, clnt_sock, clnt_socks, pc, sock, file, msg, mutx,
                       fd, sent, taken, log, since, mixed>>

WriteRefused(h) ==
    /\ Alive /\ pc[h] = "send" /\ at <= Len(clnt_socks)
    /\ Refused(h)
    /\ at' = at + 1
    /\ UNCHANGED <<main, accepted, clnt_sock, clnt_socks, pc, sock, file, msg, mutx,
                   netVars, history>>

\* SIGPIPE, which nothing handles, ends the process.
BrokenPipe(h) ==
    /\ Alive /\ pc[h] = "send" /\ at <= Len(clnt_socks)
    /\ ~ Refused(h) /\ conn[Conn(clnt_socks[at])] = "dead"
    /\ main' = "gone"
    /\ UNCHANGED <<accepted, clnt_sock, clnt_socks, handlerVars, netVars, history>>

Unlock(h) ==
    /\ Alive /\ pc[h] = "send" /\ at > Len(clnt_socks)
    /\ mutx' = None
    /\ at' = 1
    /\ msg' = [msg EXCEPT ![h] = Failed]
    /\ pc' = [pc EXCEPT ![h] = "enter"]
    /\ UNCHANGED <<main, accepted, clnt_sock, clnt_socks, sock, file, netVars, history>>

\* Defect: the count stays, and the last copy is from beyond the table.
RemovedNot(s, k) == SubSeq(s, 1, k) \o SubSeq(s, k + 2, Len(s)) \o <<None>>

\* Defect: the entry after the one that was copied over is dropped as well.
RemovedTwo(s, k) == SubSeq(s, 1, k) \o SubSeq(s, k + 3, Len(s))

(* The loop that finds the descriptor at index k increments its index       *)
(* before it copies: the entry stays, and the one after it is dropped.      *)
RemovedAt(s, k) == SubSeq(s, 1, k) \o SubSeq(s, k + 2, Len(s))

\* clnt_cnt is decremented even if the descriptor is not found.
Removed(s, f) ==
    LET found == {k \in 1 .. Len(s) : s[k] = f}
        first == CHOOSE k \in found : \A j \in found : k <= j
    IN  IF found = {} \/ first = Len(s) THEN SubSeq(s, 1, Len(s) - 1)
        ELSE RemovedAt(s, first)

Remove(h) ==
    /\ Alive /\ pc[h] = "remove" /\ MayLock
    /\ clnt_socks' = Removed(clnt_socks, sock[h])
    /\ pc' = [pc EXCEPT ![h] = "close"]
    /\ UNCHANGED <<main, accepted, clnt_sock, sock, file, msg, at, mutx, netVars, history>>

(* The number is free again, whatever connection it stands for by now.      *)
(* A read of another handler keeps that connection.                         *)
Close(h) ==
    LET c == Conn(sock[h])
        kept == \E g \in Clients : pc[g] = "read" /\ file[g] = c
    IN  /\ Alive /\ pc[h] = "close"
        /\ pc' = [pc EXCEPT ![h] = "done"]
        /\ sock' = [sock EXCEPT ![h] = None]
        /\ IF c = None THEN UNCHANGED <<fd, conn>>
           ELSE /\ fd' = [fd EXCEPT ![c] = None]
                /\ conn' = IF kept THEN conn ELSE [conn EXCEPT ![c] = "closed"]
        /\ UNCHANGED <<main, accepted, clnt_sock, clnt_socks, file, msg, at, mutx,
                       sent, taken, lag, history>>

HandlerStep(h) ==
    \/ Start(h) \/ EnterRead(h) \/ ReadMessage(h) \/ ReadEnd(h) \/ ReadError(h)
    \/ Lock(h) \/ Write(h) \/ WriteRefused(h) \/ BrokenPipe(h) \/ Unlock(h)
    \/ Remove(h) \/ Close(h)

------------------------------------------------------------------------------
(* The clients.                                                             *)

ClientWrite(c) ==
    /\ conn[c] = "open" /\ sent[c] < Writes[c]
    /\ sent' = [sent EXCEPT ![c] = @ + 1]
    /\ UNCHANGED <<main, accepted, clnt_sock, clnt_socks, handlerVars, fd, conn, taken, lag,
                   history>>

ClientRead(c) ==
    /\ conn[c] = "open" /\ lag[c] > 0
    /\ lag' = [lag EXCEPT ![c] = @ - 1]
    /\ UNCHANGED <<main, accepted, clnt_sock, clnt_socks, handlerVars, fd, conn, sent, taken,
                   history>>

\* "q", or the end of the client's process: with messages unread the connection is reset.
Quit(c) ==
    /\ conn[c] = "open"
    /\ conn' = [conn EXCEPT ![c] = IF lag[c] = 0 THEN "fin" ELSE "reset"]
    /\ lag' = [lag EXCEPT ![c] = 0]
    /\ UNCHANGED <<main, accepted, clnt_sock, clnt_socks, handlerVars, fd, sent, taken, history>>

Next ==
    \/ \E f \in Fds \cup {-1} : Accept(f)
    \/ Admit
    \/ \E h \in Clients : HandlerStep(h)
    \/ \E c \in Clients : ClientWrite(c) \/ ClientRead(c) \/ Quit(c)

Spec == Init /\ [][Next]_vars

------------------------------------------------------------------------------

TableOK ==
    /\ main \in {"accept", "add", "gone"}
    /\ accepted \in 0 .. N /\ clnt_sock \in Fds \cup {None, -1}
    /\ clnt_socks \in Seq(Fds \cup {-1})
    /\ mutx \in Clients \cup {None}

HandlersOK ==
    /\ pc \in [Clients -> PCs]
    /\ sock \in [Clients -> Fds \cup {None, -1}]
    /\ file \in [Clients -> Clients \cup {None}]
    /\ msg \in [Clients -> Messages \cup {Failed}] /\ at \in Nat \ {0}

NetOK ==
    /\ fd \in [Clients -> Fds \cup {None, -1}]
    /\ conn \in [Clients -> Conns]
    /\ sent \in [Clients -> Nat] /\ taken \in [Clients -> Nat]
    /\ \A c \in Clients : taken[c] <= sent[c] /\ sent[c] <= Writes[c]
    /\ lag \in [Clients -> 0 .. LagMax]

HistoryOK ==
    /\ log \in Seq(Messages) /\ heard \in [Clients -> Seq(Messages)]
    /\ since \in [Clients -> Nat] /\ mixed \in BOOLEAN

\* What each variable holds.
TypeOK == TableOK /\ HandlersOK /\ NetOK /\ HistoryOK

Entries == {clnt_socks[k] : k \in 1 .. Len(clnt_socks)}
Added == {c \in Clients : c < accepted \/ (c = accepted /\ main # "add")}
Left == {h \in Clients : pc[h] \in {"close", "done"}}

(* Although each removal keeps the wrong entry, one client at most is lost  *)
(* from the table per client that left: those lost are no more than those   *)
(* gone, however accepts, removals and reuses of descriptors interleave.    *)
LostByLeaves ==
    LET lost == {c \in Added \ Left : fd[c] > 0 /\ fd[c] \notin Entries}
    IN  Alive => Cardinality(lost) <= Cardinality(Left)

(* As long as nobody has left, the server runs, and whenever the mutex is   *)
(* free every client has heard everything that was said since it was added, *)
(* each message once, whichever handler serves it.                          *)
HeardAll ==
    (\A c \in Clients : conn[c] \in {"none", "open", "bad"}) =>
        /\ Alive
        /\ mutx = None => \A c \in Added :
                conn[c] = "open" => heard[c] = SubSeq(log, since[c] + 1, Len(log))

Room == INSTANCE ChatRoom

\* The handlers and the mutex make one conversation of what the clients write.
OneConversation == Room!RoomSpec
===============================================================================
