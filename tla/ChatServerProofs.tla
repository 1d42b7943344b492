--------------------------- MODULE ChatServerProofs ---------------------------
(***************************************************************************)
(* Proofs about the chat server, for any number of clients, any number of   *)
(* messages and any room between the server and a client: the types, that   *)
(* the mutex excludes, that the handlers implement ChatRoom, how many       *)
(* clients the removals can lose from the table, and that nobody misses a   *)
(* message while nobody leaves.                                             *)
(***************************************************************************)
EXTENDS ChatServer, SequenceTheorems, FiniteSetTheorems, WellFoundedInduction, TLAPS

(* A handler is created for an accepted client only, and what main adds to  *)
(* the table is what accept returned.                                       *)
Counted ==
    /\ \A c \in Clients : c > accepted => pc[c] = "none"
    /\ main = "add" => accepted > 0 /\ clnt_sock # None /\ pc[accepted] = "none"

------------------------------------------------------------------------------
(* Operators.                                                               *)

LEMMA NoneIsNobody == None \notin Clients
BY DEF None, Clients

LEMMA MessageFields ==
    /\ Failed \notin Messages
    /\ \A m \in Messages : m.from \in Clients /\ m.n \in Nat
    /\ \A m, o \in Messages : m.from = o.from /\ m.n = o.n => m = o
    /\ \A c \in Clients : \A k \in 1 .. Writes[c] : [from |-> c, n |-> k] \in Messages
BY ChatAssumption, NoneIsNobody DEF Messages, Failed, Clients

LEMMA ConnIs ==
    ASSUME NEW f \in Int
    PROVE  /\ Conn(f) \in Clients \cup {None}
           /\ Conn(f) # None => f > 0 /\ fd[Conn(f)] = f
           /\ Conn(f) = None => \A c \in Clients : f > 0 => fd[c] # f
BY NoneIsNobody DEF Conn

LEMMA HasLeast ==
    ASSUME NEW T \in SUBSET Nat, T # {}
    PROVE  \E k \in T : \A j \in T : k <= j
<1> DEFINE less == OpToRel(<, Nat)
<1>1. \E k \in T : \A j \in T : <<j, k>> \notin less
    BY NatLessThanWellFounded, WFMin
<1>2. \A j, k \in Nat : <<j, k>> \in less <=> j < k BY DEF OpToRel
<1> HIDE DEF less
<1>3. PICK k \in T : \A j \in T : <<j, k>> \notin less BY <1>1
<1>4. \A j \in T : ~ (j < k) BY <1>2, <1>3
<1> QED BY <1>4

LEMMA RemovedType ==
    ASSUME NEW S, NEW s \in Seq(S), NEW f
    PROVE  Removed(s, f) \in Seq(S)
<1>1. SubSeq(s, 1, Len(s) - 1) \in Seq(S)
    <2>1. \A j \in 1 .. Len(s) - 1 : s[j] \in S BY ElementOfSeq
    <2> QED BY <2>1, SubSeqProperties, LenProperties
<1>2. ASSUME NEW k \in 1 .. Len(s) PROVE RemovedAt(s, k) \in Seq(S)
    <2>1. SubSeq(s, 1, k) \in Seq(S)
        <3>1. \A j \in 1 .. k : s[j] \in S BY ElementOfSeq
        <3> QED BY <3>1, SubSeqProperties
    <2>2. SubSeq(s, k + 2, Len(s)) \in Seq(S)
        <3>1. \A j \in k + 2 .. Len(s) : s[j] \in S BY ElementOfSeq
        <3> QED BY <3>1, SubSeqProperties, LenProperties
    <2> QED BY <2>1, <2>2, ConcatProperties DEF RemovedAt
<1> DEFINE found == {k \in 1 .. Len(s) : s[k] = f}
<1> DEFINE first == CHOOSE k \in found : \A j \in found : k <= j
<1>3. CASE found = {} BY <1>1, <1>3 DEF Removed
<1>4. CASE found # {}
    <2>1. \E k \in found : \A j \in found : k <= j
        <3>1. found \in SUBSET Nat OBVIOUS
        <3> QED BY <1>4, <3>1, HasLeast
    <2>2. first \in 1 .. Len(s) BY <2>1
    <2> QED BY <1>1, <1>2, <2>2 DEF Removed
<1> QED BY <1>3, <1>4

------------------------------------------------------------------------------
(* Types.                                                                   *)

Typed == TypeOK /\ Counted

LEMMA Kept ==
    /\ TableOK /\ UNCHANGED <<main, accepted, clnt_sock, clnt_socks, mutx>> => TableOK'
    /\ HandlersOK /\ UNCHANGED <<pc, sock, file, msg, at>> => HandlersOK'
    /\ NetOK /\ UNCHANGED netVars => NetOK'
    /\ HistoryOK /\ UNCHANGED history => HistoryOK'
BY DEF TableOK, HandlersOK, NetOK, HistoryOK, netVars, history

LEMMA TypeInit == Init => Typed
<1> SUFFICES ASSUME Init PROVE Typed OBVIOUS
<1>1. TableOK BY ChatAssumption DEF Init, TableOK, None, Fds
<1>2. HandlersOK BY DEF Init, HandlersOK, PCs, None
<1>3. NetOK BY ChatAssumption DEF Init, NetOK, Conns, None, Clients
<1>4. HistoryOK BY EmptySeq DEF Init, HistoryOK
<1>5. Counted BY DEF Init, Counted
<1> QED BY <1>1, <1>2, <1>3, <1>4, <1>5 DEF Typed, TypeOK

LEMMA TypeAccept == ASSUME Typed, NEW f \in Fds \cup {-1}, Accept(f) PROVE Typed'
<1> USE DEF Typed, TypeOK
<1>1. accepted + 1 \in Clients /\ accepted \in Nat
    BY ChatAssumption DEF Accept, TableOK, Clients
<1>2. TableOK' BY <1>1 DEF Accept, TableOK, handlerVars, Clients
<1>3. HandlersOK' BY Kept DEF Accept, handlerVars
<1>4. NetOK' BY <1>1 DEF Accept, NetOK, Conns
<1>5. HistoryOK' BY Kept DEF Accept
<1>6. Counted'
    <2>1. f # None BY DEF Fds, None
    <2>2. Clients \subseteq Int BY DEF Clients
    <2> QED BY <1>1, <2>1, <2>2 DEF Accept, Counted, handlerVars
<1> QED BY <1>2, <1>3, <1>4, <1>5, <1>6

LEMMA TypeAdmit == ASSUME Typed, Admit PROVE Typed'
<1> USE DEF Typed, TypeOK
<1>1. accepted \in Clients BY ChatAssumption DEF Admit, Counted, TableOK, Clients
<1>2. TableOK'
    <2>1. clnt_sock \in Fds \cup {-1} BY DEF Admit, Counted, TableOK
    <2>2. clnt_socks' \in Seq(Fds \cup {-1}) BY <2>1 DEF Admit, TableOK
    <2> QED BY <2>2 DEF Admit, TableOK
<1>3. HandlersOK' BY <1>1 DEF Admit, HandlersOK, PCs
<1>4. NetOK' BY Kept DEF Admit
<1>5. HistoryOK' BY <1>1, LenProperties DEF Admit, HistoryOK
<1>6. Counted' BY <1>1 DEF Admit, Counted, HandlersOK, Clients
<1> QED BY <1>2, <1>3, <1>4, <1>5, <1>6

\* A handler leaves Counted alone: it is not at "none", and main is where it was or gone.
LEMMA CountedKept ==
    ASSUME Counted, TableOK, NEW h \in Clients, pc[h] # "none",
           \A g \in Clients : g # h => pc'[g] = pc[g],
           accepted' = accepted, clnt_sock' = clnt_sock,
           main' = main \/ main' = "gone"
    PROVE  Counted'
<1>1. main = "add" => accepted \in Clients BY ChatAssumption DEF Counted, TableOK, Clients
<1> QED BY <1>1 DEF Counted

LEMMA TypeRead ==
    ASSUME Typed, NEW h \in Clients, ReadMessage(h) \/ ReadEnd(h) \/ ReadError(h)
    PROVE  Typed'
<1> USE DEF Typed, TypeOK
<1>1. CASE ReadMessage(h)
    <2> DEFINE c == file[h]
    <2>1. c \in Clients BY <1>1 DEF ReadMessage, HandlersOK
    <2>2. taken[c] \in Nat /\ sent[c] \in Nat /\ Writes[c] \in Nat
        BY <2>1, ChatAssumption DEF NetOK, Clients
    <2>3. taken[c] < sent[c] /\ sent[c] <= Writes[c] BY <1>1, <2>1 DEF ReadMessage, NetOK
    <2>4. taken[c] + 1 \in 1 .. Writes[c] BY <2>2, <2>3
    <2>5. [from |-> c, n |-> taken[c] + 1] \in Messages BY <2>1, <2>4, MessageFields
    <2>6. TableOK' BY <1>1, Kept DEF ReadMessage
    <2>7. HandlersOK' BY <1>1, <2>5 DEF ReadMessage, HandlersOK, PCs
    <2>8. NetOK'
        <3>1. taken' = [taken EXCEPT ![c] = taken[c] + 1] BY <1>1 DEF ReadMessage
        <3>2. taken' \in [Clients -> Nat]
            <4>1. taken \in [Clients -> Nat] /\ taken[c] + 1 \in Nat BY <2>2 DEF NetOK
            <4> HIDE DEF c
            <4> QED BY <3>1, <4>1
        <3>3. \A d \in Clients : taken'[d] <= sent[d] /\ sent[d] <= Writes[d]
            BY <2>2, <2>3, <3>1 DEF NetOK
        <3> QED BY <1>1, <3>2, <3>3 DEF ReadMessage, NetOK
    <2>9. HistoryOK' BY <1>1, Kept DEF ReadMessage
    <2>10. Counted' BY <1>1, CountedKept DEF ReadMessage, HandlersOK
    <2> QED BY <2>6, <2>7, <2>8, <2>9, <2>10
<1>2. CASE ReadEnd(h)
    <2>1. TableOK' /\ NetOK' /\ HistoryOK' BY <1>2, Kept DEF ReadEnd
    <2>2. HandlersOK' BY <1>2 DEF ReadEnd, HandlersOK, PCs
    <2>3. Counted' BY <1>2, CountedKept DEF ReadEnd, HandlersOK
    <2> QED BY <2>1, <2>2, <2>3
<1>3. CASE ReadError(h)
    <2>1. TableOK' /\ HistoryOK' BY <1>3, Kept DEF ReadError
    <2>2. HandlersOK' BY <1>3 DEF ReadError, HandlersOK, PCs
    <2>3. NetOK' BY <1>3 DEF ReadError, NetOK, Conns
    <2>4. Counted' BY <1>3, CountedKept DEF ReadError, HandlersOK
    <2> QED BY <2>1, <2>2, <2>3, <2>4
<1> QED BY <1>1, <1>2, <1>3

LEMMA WriteTo ==
    ASSUME NEW h \in Clients, Write(h)
    PROVE  Conn(clnt_socks[at]) \in Clients /\ msg[h] # Failed
BY NoneIsNobody DEF Write, Refused, Conn

LEMMA TypeSend ==
    ASSUME Typed, NEW h \in Clients,
           Lock(h) \/ Write(h) \/ WriteRefused(h) \/ BrokenPipe(h) \/ Unlock(h)
    PROVE  Typed'
<1> USE DEF Typed, TypeOK
<1>1. CASE Lock(h)
    <2>1. TableOK' BY <1>1 DEF Lock, TableOK
    <2>2. HandlersOK' BY <1>1 DEF Lock, HandlersOK, PCs
    <2>3. NetOK' BY <1>1, Kept DEF Lock
    <2>4. HistoryOK'
        <3>1. log' \in Seq(Messages)
            <4>1. msg[h] \in Messages \cup {Failed} BY DEF HandlersOK
            <4> QED BY <1>1, <4>1 DEF Lock, HistoryOK
        <3> QED BY <1>1, <3>1 DEF Lock, HistoryOK
    <2>5. Counted' BY <1>1, CountedKept DEF Lock, HandlersOK
    <2> QED BY <2>1, <2>2, <2>3, <2>4, <2>5
<1>2. CASE Write(h)
    <2> DEFINE c == Conn(clnt_socks[at])
    <2>1. c \in Clients /\ msg[h] \in Messages BY <1>2, WriteTo DEF HandlersOK
    <2>2. TableOK' BY <1>2, Kept DEF Write
    <2>3. HandlersOK' BY <1>2 DEF Write, HandlersOK
    <2>4. NetOK'
        <3>1. conn' \in [Clients -> Conns] BY <1>2, <2>1 DEF Write, NetOK, Conns
        <3>2. lag[c] \in Nat /\ (lag[c] < LagMax => lag[c] + 1 \in 0 .. LagMax)
            BY <2>1, ChatAssumption DEF NetOK
        <3>3. lag' \in [Clients -> 0 .. LagMax] BY <1>2, <3>2 DEF Write, NetOK
        <3> QED BY <1>2, <3>1, <3>3 DEF Write, NetOK
    <2>5. HistoryOK'
        <3>1. Append(heard[c], msg[h]) \in Seq(Messages) BY <2>1 DEF HistoryOK
        <3>2. heard' \in [Clients -> Seq(Messages)] BY <1>2, <3>1 DEF Write, HistoryOK
        <3> QED BY <1>2, <3>2 DEF Write, HistoryOK
    <2>6. Counted' BY <1>2, CountedKept DEF Write, HandlersOK
    <2> QED BY <2>2, <2>3, <2>4, <2>5, <2>6
<1>3. CASE WriteRefused(h)
    <2>1. TableOK' /\ NetOK' /\ HistoryOK' BY <1>3, Kept DEF WriteRefused
    <2>2. HandlersOK' BY <1>3 DEF WriteRefused, HandlersOK
    <2>3. Counted' BY <1>3, CountedKept DEF WriteRefused, HandlersOK
    <2> QED BY <2>1, <2>2, <2>3
<1>4. CASE BrokenPipe(h)
    <2>1. HandlersOK' /\ NetOK' /\ HistoryOK' BY <1>4, Kept DEF BrokenPipe, handlerVars
    <2>2. TableOK' BY <1>4 DEF BrokenPipe, TableOK, handlerVars
    <2>3. Counted' BY <1>4, CountedKept DEF BrokenPipe, handlerVars
    <2> QED BY <2>1, <2>2, <2>3
<1>5. CASE Unlock(h)
    <2>1. NetOK' /\ HistoryOK' BY <1>5, Kept DEF Unlock
    <2>2. HandlersOK' BY <1>5 DEF Unlock, HandlersOK, PCs
    <2>3. TableOK' BY <1>5 DEF Unlock, TableOK
    <2>4. Counted' BY <1>5, CountedKept DEF Unlock, HandlersOK
    <2> QED BY <2>1, <2>2, <2>3, <2>4
<1> QED BY <1>1, <1>2, <1>3, <1>4, <1>5

LEMMA TypeHandler == ASSUME Typed, NEW h \in Clients, HandlerStep(h) PROVE Typed'
<1> USE DEF Typed, TypeOK
<1>1. CASE Start(h)
    <2>1. TableOK' /\ NetOK' BY <1>1, Kept DEF Start
    <2>2. HandlersOK' BY <1>1 DEF Start, HandlersOK, TableOK, PCs
    <2>3. HistoryOK' BY <1>1 DEF Start, HistoryOK
    <2>4. Counted' BY <1>1, CountedKept DEF Start, HandlersOK
    <2> QED BY <2>1, <2>2, <2>3, <2>4
<1>2. CASE EnterRead(h)
    <2>1. Conn(sock[h]) \in Clients \cup {None}
        <3>1. sock[h] \in Int BY DEF HandlersOK, Fds, None
        <3> QED BY <3>1, ConnIs
    <2>2. TableOK' /\ NetOK' /\ HistoryOK' BY <1>2, Kept DEF EnterRead
    <2>3. HandlersOK' BY <1>2, <2>1 DEF EnterRead, HandlersOK, PCs
    <2>4. Counted' BY <1>2, CountedKept DEF EnterRead, HandlersOK
    <2> QED BY <2>2, <2>3, <2>4
<1>3. CASE Remove(h)
    <2>1. NetOK' /\ HistoryOK' BY <1>3, Kept DEF Remove
    <2>2. TableOK' BY <1>3, RemovedType DEF Remove, TableOK
    <2>3. HandlersOK' BY <1>3 DEF Remove, HandlersOK, PCs
    <2>4. Counted' BY <1>3, CountedKept DEF Remove, HandlersOK
    <2> QED BY <2>1, <2>2, <2>3, <2>4
<1>4. CASE Close(h)
    <2>1. TableOK' /\ HistoryOK' BY <1>4, Kept DEF Close
    <2>2. HandlersOK' BY <1>4 DEF Close, HandlersOK, PCs
    <2>3. NetOK' BY <1>4 DEF Close, NetOK, Conns
    <2>4. Counted' BY <1>4, CountedKept DEF Close, HandlersOK
    <2> QED BY <2>1, <2>2, <2>3, <2>4
<1> QED BY <1>1, <1>2, <1>3, <1>4, TypeRead, TypeSend DEF HandlerStep

LEMMA TypeClient ==
    ASSUME Typed, NEW c \in Clients, ClientWrite(c) \/ ClientRead(c) \/ Quit(c)
    PROVE  Typed'
<1> USE DEF Typed, TypeOK
<1>1. TableOK' /\ HandlersOK' /\ HistoryOK' /\ Counted'
    BY Kept DEF ClientWrite, ClientRead, Quit, handlerVars, Counted
<1>2. CASE ClientWrite(c)
    <2>1. sent[c] \in Nat /\ taken[c] \in Nat /\ Writes[c] \in Nat
        BY ChatAssumption DEF NetOK, Clients
    <2>2. taken[c] <= sent[c] + 1 /\ sent[c] + 1 <= Writes[c]
        <3>1. taken[c] <= sent[c] /\ sent[c] < Writes[c] BY <1>2 DEF ClientWrite, NetOK
        <3> QED BY <2>1, <3>1
    <2>3. sent' = [sent EXCEPT ![c] = sent[c] + 1] /\ taken' = taken
        BY <1>2 DEF ClientWrite
    <2>4. sent' \in [Clients -> Nat]
        <3>1. sent \in [Clients -> Nat] /\ sent[c] + 1 \in Nat BY <2>1 DEF NetOK
        <3> QED BY <2>3, <3>1
    <2>5. \A d \in Clients : taken'[d] <= sent'[d] /\ sent'[d] <= Writes[d]
        BY <2>2, <2>3 DEF NetOK
    <2>6. NetOK' BY <1>2, <2>4, <2>5 DEF ClientWrite, NetOK
    <2> QED BY <1>1, <2>6
<1>3. CASE ClientRead(c)
    <2>1. lag[c] \in 0 .. LagMax BY DEF NetOK
    <2>2. lag[c] - 1 \in 0 .. LagMax BY <1>3, <2>1, ChatAssumption DEF ClientRead
    <2>3. NetOK' BY <1>3, <2>2 DEF ClientRead, NetOK
    <2> QED BY <1>1, <2>3
<1>4. CASE Quit(c)
    <2>1. 0 \in 0 .. LagMax BY ChatAssumption
    <2>2. NetOK' BY <1>4, <2>1 DEF Quit, NetOK, Conns
    <2> QED BY <1>1, <2>2
<1> QED BY <1>2, <1>3, <1>4

LEMMA TypeStep == Typed /\ [Next]_vars => Typed'
<1> SUFFICES ASSUME Typed, [Next]_vars PROVE Typed' OBVIOUS
<1>1. CASE UNCHANGED vars
    BY <1>1, Kept DEF vars, handlerVars, Typed, TypeOK, Counted
<1>2. CASE Next BY <1>2, TypeAccept, TypeAdmit, TypeHandler, TypeClient DEF Next
<1> QED BY <1>1, <1>2

(* For any number of clients and messages the server's variables keep their *)
(* types: the table holds what accept returned and nothing else, and no     *)
(* handler reads more than a client wrote.                                  *)
THEOREM TypeCorrect == Spec => []TypeOK
<1>1. Typed => TypeOK BY DEF Typed
<1> QED BY <1>1, TypeInit, TypeStep, PTL DEF Spec

------------------------------------------------------------------------------
(* Who says what.                                                           *)

\* Nobody but the holder of the mutex is in its critical section.
Excluded == \A h \in Clients : pc[h] = "send" => mutx = h

\* A descriptor stands for one connection.
OneEach == \A c, d \in Clients : fd[c] = fd[d] /\ fd[c] > 0 => c = d

(* Nothing is read twice: what handlers hold is different, has been read,   *)
(* and is not in the conversation before its handler has the mutex.         *)
ReadOnce ==
    /\ \A h \in Clients : pc[h] \notin {"lock", "send"} => msg[h] = Failed
    /\ \A h \in Clients : msg[h] # Failed => msg[h].n <= taken[msg[h].from]
    /\ \A h, g \in Clients : msg[h] = msg[g] /\ msg[h] # Failed => h = g
    /\ \A k \in 1 .. Len(log) : log[k].n <= taken[log[k].from]
    /\ \A h \in Clients : pc[h] = "lock" /\ msg[h] # Failed =>
            \A k \in 1 .. Len(log) : log[k] # msg[h]

\* What a handler sends is what was said last.
SaidLast ==
    \A h \in Clients : pc[h] = "send" /\ msg[h] # Failed =>
        log # << >> /\ log[Len(log)] = msg[h]

(* Until connections are mixed a handler serves its own client, and holds   *)
(* the latest of its messages.                                              *)
OwnClient ==
    ~ mixed => \A h \in Clients :
        /\ pc[h] \notin {"none", "start", "done"} => sock[h] = fd[h]
        /\ file[h] \in {None, h}
        /\ msg[h] # Failed => msg[h].from = h
        /\ pc[h] = "lock" /\ msg[h] # Failed =>
                \A k \in 1 .. Len(log) : log[k].from = h => log[k].n < msg[h].n

Ordered == Excluded /\ OneEach /\ ReadOnce /\ SaidLast /\ OwnClient

LEMMA OrderedInit == Init => Ordered
BY NoneIsNobody, EmptySeq
   DEF Init, Ordered, Excluded, OneEach, ReadOnce, SaidLast, OwnClient, None

\* Steps that read nothing, say nothing and leave handlers' sockets alone.
LEMMA Aside ==
    ASSUME Ordered, UNCHANGED <<sock, file, msg, mutx, taken, fd, log, mixed>>,
           NEW h \in Clients,
           \A g \in Clients : g # h => pc'[g] = pc[g],
           pc'[h] = pc[h] \/ (pc'[h] = "start" /\ pc[h] \notin {"lock", "send"})
    PROVE  Ordered'
BY DEF Ordered, Excluded, OneEach, ReadOnce, SaidLast, OwnClient

LEMMA OrderedMain ==
    ASSUME Typed, Ordered, (\E f \in Fds \cup {-1} : Accept(f)) \/ Admit
    PROVE  Ordered'
<1> USE DEF Typed, TypeOK
<1>1. ASSUME NEW f \in Fds \cup {-1}, Accept(f) PROVE Ordered'
    <2>1. accepted + 1 \in Clients /\ pc[accepted + 1] = "none"
        BY <1>1, ChatAssumption DEF Accept, TableOK, Counted, Clients
    <2>2. \A c \in Clients : f > 0 => fd[c] # f
        <3>1. CASE f = -1 BY <3>1
        <3>2. CASE f # -1
            <4>1. f \in Int /\ Conn(f) = None BY <1>1, <3>2 DEF Accept, LowestFree, Fds
            <4> QED BY <4>1, ConnIs
        <3> QED BY <3>1, <3>2
    <2>3. UNCHANGED <<pc, sock, file, msg, mutx, taken, log, mixed>>
        BY <1>1 DEF Accept, handlerVars, history
    <2>4. fd' = [fd EXCEPT ![accepted + 1] = f] BY <1>1 DEF Accept
    <2>5. OneEach' BY <2>2, <2>4 DEF Ordered, OneEach, NetOK
    <2>6. OwnClient' BY <2>1, <2>3, <2>4 DEF Ordered, OwnClient, NetOK
    <2>7. Excluded' /\ ReadOnce' /\ SaidLast'
        BY <2>3 DEF Ordered, Excluded, ReadOnce, SaidLast
    <2> QED BY <2>5, <2>6, <2>7 DEF Ordered
<1>2. CASE Admit
    <2>1. accepted \in Clients /\ pc[accepted] = "none"
        BY <1>2, ChatAssumption DEF Admit, Counted, TableOK, Clients
    <2> QED BY <1>2, <2>1, Aside DEF Admit, HandlersOK, netVars
<1> QED BY <1>1, <1>2

LEMMA OrderedStart == ASSUME Typed, Ordered, NEW h \in Clients, Start(h) PROVE Ordered'
<1> USE DEF Typed, TypeOK
<1>1. Excluded' /\ OneEach' /\ ReadOnce' /\ SaidLast'
    BY DEF Start, Ordered, Excluded, OneEach, ReadOnce, SaidLast, HandlersOK, netVars
<1>2. OwnClient'
    <2>1. ASSUME ~ mixed' PROVE ~ mixed /\ sock'[h] = fd[h] /\ fd' = fd
        BY <2>1 DEF Start, HandlersOK, netVars
    <2> QED BY <2>1 DEF Start, Ordered, OwnClient, HandlersOK
<1> QED BY <1>1, <1>2 DEF Ordered

\* In an unmixed server a handler's socket is its client's connection or none.
LEMMA OwnConnection ==
    ASSUME Typed, Ordered, ~ mixed, NEW h \in Clients, pc[h] \notin {"none", "start", "done"}
    PROVE  Conn(sock[h]) \in {None, h}
<1>1. sock[h] \in Int BY DEF Typed, TypeOK, HandlersOK, Fds, None
<1>2. sock[h] = fd[h] BY DEF Ordered, OwnClient
<1> QED BY <1>1, <1>2, ConnIs DEF Ordered, OneEach

LEMMA OrderedRead ==
    ASSUME Typed, Ordered, NEW h \in Clients,
           EnterRead(h) \/ ReadMessage(h) \/ ReadEnd(h) \/ ReadError(h)
    PROVE  Ordered'
<1> USE DEF Typed, TypeOK
<1>1. CASE EnterRead(h)
    <2>1. Excluded' /\ OneEach' /\ ReadOnce' /\ SaidLast'
        BY <1>1 DEF EnterRead, Ordered, Excluded, OneEach, ReadOnce, SaidLast, HandlersOK,
                    netVars, history
    <2>2. OwnClient'
        <3>1. ~ mixed => Conn(sock[h]) \in {None, h} BY <1>1, OwnConnection DEF EnterRead
        <3> QED BY <1>1, <3>1 DEF EnterRead, Ordered, OwnClient, HandlersOK, netVars, history
    <2> QED BY <2>1, <2>2 DEF Ordered
<1>2. CASE ReadMessage(h)
    <2> DEFINE c == file[h]
               m == [from |-> c, n |-> taken[c] + 1]
    <2>1. c \in Clients BY <1>2 DEF ReadMessage, HandlersOK
    <2>2. taken[c] \in Nat BY <2>1 DEF NetOK
    <2>3. m.from = c /\ m.n = taken[c] + 1 /\ m # Failed
        BY <2>1, NoneIsNobody DEF Failed
    <2>4. msg' = [msg EXCEPT ![h] = m] /\ taken' = [taken EXCEPT ![c] = taken[c] + 1]
        BY <1>2 DEF ReadMessage
    <2>5. pc' = [pc EXCEPT ![h] = "lock"] /\ file' = [file EXCEPT ![h] = None]
          /\ UNCHANGED <<sock, mutx, fd, log, mixed>> /\ pc[h] = "read"
        BY <1>2 DEF ReadMessage, history
    <2>6. \A d \in Clients : taken[d] <= taken'[d] /\ taken[d] \in Nat
        BY <2>2, <2>4 DEF NetOK
    <2>7. \A k \in 1 .. Len(log) : log[k] \in Messages /\ log[k].from \in Clients
                                   /\ log[k].n \in Nat
        BY ElementOfSeq, MessageFields DEF HistoryOK
    <2>8. \A g \in Clients : msg[g] # Failed => msg[g].from \in Clients /\ msg[g].n \in Nat
        BY MessageFields DEF HandlersOK
    <2>9. Excluded' /\ OneEach' BY <2>5 DEF Ordered, Excluded, OneEach, HandlersOK
    <2>10. \A g \in Clients : msg[g] # m
        <3>1. SUFFICES ASSUME NEW g \in Clients, msg[g] = m PROVE FALSE OBVIOUS
        <3>2. taken[c] + 1 <= taken[c] BY <2>3, <3>1 DEF Ordered, ReadOnce
        <3> QED BY <2>2, <3>2
    <2>11. \A k \in 1 .. Len(log) : log[k].from = c => log[k].n < taken[c] + 1
        <3>1. SUFFICES ASSUME NEW k \in 1 .. Len(log), log[k].from = c
                       PROVE  log[k].n < taken[c] + 1
            OBVIOUS
        <3>2. log[k].n <= taken[c] BY <3>1 DEF Ordered, ReadOnce
        <3> QED BY <2>2, <2>7, <3>2
    <2>12. ReadOnce'
        <3> HIDE DEF m, c
        <3>1. \A g \in Clients : pc'[g] \notin {"lock", "send"} => msg'[g] = Failed
            BY <2>4, <2>5 DEF Ordered, ReadOnce, HandlersOK
        <3>2. \A g \in Clients : msg'[g] # Failed => msg'[g].n <= taken'[msg'[g].from]
            <4>1. m.n <= taken'[m.from] BY <2>1, <2>2, <2>3, <2>4 DEF NetOK
            <4>2. \A g \in Clients : msg[g] # Failed => msg[g].n <= taken'[msg[g].from]
                <5>1. \A g \in Clients : msg[g] # Failed => msg[g].n <= taken[msg[g].from]
                    BY DEF Ordered, ReadOnce
                <5>2. \A d \in Clients : taken'[d] \in Nat BY <2>1, <2>2, <2>4 DEF NetOK
                <5> QED BY <2>6, <2>8, <5>1, <5>2
            <4> QED BY <2>4, <4>1, <4>2 DEF HandlersOK
        <3>3. \A f, g \in Clients : msg'[f] = msg'[g] /\ msg'[f] # Failed => f = g
            BY <2>4, <2>10 DEF Ordered, ReadOnce, HandlersOK
        <3>4. \A k \in 1 .. Len(log) : log[k].n <= taken'[log[k].from]
            <4>1. \A k \in 1 .. Len(log) : log[k].n <= taken[log[k].from]
                BY DEF Ordered, ReadOnce
            <4>2. \A d \in Clients : taken'[d] \in Nat BY <2>1, <2>2, <2>4 DEF NetOK
            <4> QED BY <2>6, <2>7, <4>1, <4>2
        <3>5. \A k \in 1 .. Len(log) : log[k] # m
            <4>1. SUFFICES ASSUME NEW k \in 1 .. Len(log), log[k] = m PROVE FALSE OBVIOUS
            <4>2. taken[c] + 1 < taken[c] + 1 BY <2>3, <2>11, <4>1
            <4> QED BY <2>2, <4>2
        <3>6. \A g \in Clients : pc'[g] = "lock" /\ msg'[g] # Failed =>
                    \A k \in 1 .. Len(log) : log[k] # msg'[g]
            BY <2>4, <2>5, <3>5 DEF Ordered, ReadOnce, HandlersOK
        <3>7. log' = log BY <2>5
        <3> QED BY <3>1, <3>2, <3>3, <3>4, <3>6, <3>7 DEF ReadOnce
    <2>13. SaidLast' BY <2>4, <2>5 DEF Ordered, SaidLast, HandlersOK
    <2>14. OwnClient'
        <3>1. ~ mixed => c = h BY <2>1, NoneIsNobody DEF Ordered, OwnClient
        <3> HIDE DEF m, c
        <3> QED BY <2>3, <2>4, <2>5, <2>11, <3>1 DEF Ordered, OwnClient, HandlersOK
    <2> QED BY <2>9, <2>12, <2>13, <2>14 DEF Ordered
<1>3. CASE ReadEnd(h)
    BY <1>3 DEF ReadEnd, Ordered, Excluded, OneEach, ReadOnce, SaidLast, OwnClient, HandlersOK,
                netVars, history
<1>4. CASE ReadError(h)
    <2>1. msg[h] = Failed BY <1>4 DEF ReadError, Ordered, ReadOnce
    <2> QED BY <1>4, <2>1 DEF ReadError, Ordered, Excluded, OneEach, ReadOnce, SaidLast,
                OwnClient, HandlersOK, history
<1> QED BY <1>1, <1>2, <1>3, <1>4

LEMMA OrderedSend ==
    ASSUME Typed, Ordered, NEW h \in Clients,
           Lock(h) \/ Write(h) \/ WriteRefused(h) \/ BrokenPipe(h) \/ Unlock(h)
    PROVE  Ordered'
<1> USE DEF Typed, TypeOK
<1>1. CASE Lock(h)
    <2>1. mutx = None /\ mutx' = h /\ pc' = [pc EXCEPT ![h] = "send"] /\ pc[h] = "lock"
          /\ UNCHANGED <<sock, file, msg, taken, fd, mixed>>
        BY <1>1 DEF Lock, MayLock, netVars
    <2>2. Excluded' /\ \A g \in Clients : pc'[g] = "send" => g = h
        BY <2>1, NoneIsNobody DEF Ordered, Excluded, HandlersOK
    <2>3. OneEach' BY <2>1 DEF Ordered, OneEach
    <2>4. CASE msg[h] = Failed
        <3>1. log' = log BY <1>1, <2>4 DEF Lock
        <3> QED BY <2>1, <2>2, <2>3, <2>4, <3>1
                DEF Ordered, ReadOnce, SaidLast, OwnClient, HandlersOK
    <2>5. CASE msg[h] # Failed
        <3>1. log' = Append(log, msg[h]) BY <1>1, <2>5 DEF Lock
        <3>2. msg[h] \in Messages BY <2>5 DEF HandlersOK
        <3>3. /\ Len(log') = Len(log) + 1 /\ log'[Len(log')] = msg[h] /\ log' # << >>
              /\ \A k \in 1 .. Len(log) : log'[k] = log[k]
              /\ Len(log) \in Nat
            BY <3>1, <3>2 DEF HistoryOK
        <3>4. \A k \in 1 .. Len(log') : k \in 1 .. Len(log) \/ log'[k] = msg[h] BY <3>3
        <3>5. SaidLast' BY <2>1, <2>2, <3>3 DEF SaidLast
        <3>6. ReadOnce'
            <4>1. \A k \in 1 .. Len(log') : log'[k].n <= taken[log'[k].from]
                BY <2>5, <3>3, <3>4 DEF Ordered, ReadOnce
            <4>2. \A g \in Clients : pc'[g] = "lock" /\ msg[g] # Failed =>
                        \A k \in 1 .. Len(log') : log'[k] # msg[g]
                BY <2>1, <3>3, <3>4 DEF Ordered, ReadOnce, HandlersOK
            <4>3. \A g \in Clients : pc'[g] \notin {"lock", "send"} => msg[g] = Failed
                BY <2>1 DEF Ordered, ReadOnce, HandlersOK
            <4> QED BY <2>1, <4>1, <4>2, <4>3 DEF Ordered, ReadOnce
        <3>7. OwnClient'
            <4>1. SUFFICES ASSUME ~ mixed, NEW g \in Clients, pc'[g] = "lock", msg[g] # Failed,
                                  NEW k \in 1 .. Len(log'), log'[k].from = g
                           PROVE  log'[k].n < msg[g].n
                BY <2>1 DEF Ordered, OwnClient, HandlersOK
            <4>2. g # h /\ pc[g] = "lock" BY <2>1, <4>1 DEF HandlersOK
            <4>3. msg[h].from = h BY <2>5, <4>1 DEF Ordered, OwnClient
            <4>4. k \in 1 .. Len(log) /\ log'[k] = log[k] BY <3>3, <3>4, <4>1, <4>2, <4>3
            <4> QED BY <4>1, <4>2, <4>4 DEF Ordered, OwnClient
        <3> QED BY <2>2, <2>3, <3>5, <3>6, <3>7 DEF Ordered
    <2> QED BY <2>4, <2>5
<1>2. CASE Write(h)
    <2>1. UNCHANGED <<pc, sock, file, msg, mutx, taken, fd, log, mixed>> BY <1>2 DEF Write
    <2> QED BY <2>1 DEF Ordered, Excluded, OneEach, ReadOnce, SaidLast, OwnClient
<1>3. CASE WriteRefused(h)
    <2>1. UNCHANGED <<pc, sock, file, msg, mutx, taken, fd, log, mixed>>
        BY <1>3 DEF WriteRefused, netVars, history
    <2> QED BY <2>1 DEF Ordered, Excluded, OneEach, ReadOnce, SaidLast, OwnClient
<1>4. CASE BrokenPipe(h)
    <2>1. UNCHANGED <<pc, sock, file, msg, mutx, taken, fd, log, mixed>>
        BY <1>4 DEF BrokenPipe, handlerVars, netVars, history
    <2> QED BY <2>1 DEF Ordered, Excluded, OneEach, ReadOnce, SaidLast, OwnClient
<1>5. CASE Unlock(h)
    <2>1. mutx = h BY <1>5 DEF Unlock, Ordered, Excluded
    <2>2. \A g \in Clients : g # h => pc[g] # "send" BY <2>1 DEF Ordered, Excluded
    <2>3. msg' = [msg EXCEPT ![h] = Failed] /\ pc' = [pc EXCEPT ![h] = "enter"]
          /\ UNCHANGED <<sock, file, taken, fd, log, mixed>> /\ pc[h] = "send"
        BY <1>5 DEF Unlock, netVars, history
    <2>4. Excluded' /\ OneEach' BY <2>2, <2>3 DEF Ordered, Excluded, OneEach, HandlersOK
    <2>5. ReadOnce' BY <2>3 DEF Ordered, ReadOnce, HandlersOK
    <2>6. SaidLast' BY <2>2, <2>3 DEF Ordered, SaidLast, HandlersOK
    <2>7. OwnClient' BY <2>3 DEF Ordered, OwnClient, HandlersOK
    <2> QED BY <2>4, <2>5, <2>6, <2>7 DEF Ordered
<1> QED BY <1>1, <1>2, <1>3, <1>4, <1>5

LEMMA OrderedEnd ==
    ASSUME Typed, Ordered, NEW h \in Clients, Remove(h) \/ Close(h)
    PROVE  Ordered'
<1> USE DEF Typed, TypeOK
<1>1. CASE Remove(h)
    BY <1>1 DEF Remove, Ordered, Excluded, OneEach, ReadOnce, SaidLast, OwnClient, HandlersOK,
                netVars, history
<1>2. CASE Close(h)
    <2> DEFINE c == Conn(sock[h])
    <2>1. pc[h] = "close" /\ pc' = [pc EXCEPT ![h] = "done"] /\ sock' = [sock EXCEPT ![h] = None]
          /\ UNCHANGED <<file, msg, mutx, taken, log, mixed>>
        BY <1>2 DEF Close, history
    <2>2. fd' = fd \/ fd' = [fd EXCEPT ![c] = None] BY <1>2 DEF Close
    <2>3. OneEach' BY <2>2 DEF Ordered, OneEach, NetOK, None
    <2>4. Excluded' /\ ReadOnce' /\ SaidLast'
        BY <2>1 DEF Ordered, Excluded, ReadOnce, SaidLast, HandlersOK
    <2>5. OwnClient'
        <3>1. SUFFICES ASSUME ~ mixed PROVE OwnClient' BY <2>1 DEF OwnClient
        <3>2. c \in {None, h} BY <2>1, <3>1, OwnConnection
        <3>3. \A g \in Clients : g # h => fd'[g] = fd[g] BY <2>2, <3>2, NoneIsNobody DEF NetOK
        <3> QED BY <2>1, <3>1, <3>3 DEF Ordered, OwnClient, HandlersOK
    <2> QED BY <2>3, <2>4, <2>5 DEF Ordered
<1> QED BY <1>1, <1>2

LEMMA OrderedStep == Typed /\ Ordered /\ [Next]_vars => Ordered'
<1> SUFFICES ASSUME Typed, Ordered, [Next]_vars PROVE Ordered' OBVIOUS
<1>1. CASE UNCHANGED vars
    BY <1>1 DEF vars, handlerVars, netVars, history, Ordered, Excluded, OneEach, ReadOnce,
                SaidLast, OwnClient
<1>2. CASE \E c \in Clients : ClientWrite(c) \/ ClientRead(c) \/ Quit(c)
    BY <1>2 DEF ClientWrite, ClientRead, Quit, handlerVars, history, Ordered, Excluded,
                OneEach, ReadOnce, SaidLast, OwnClient
<1>3. CASE (\E f \in Fds \cup {-1} : Accept(f)) \/ Admit BY <1>3, OrderedMain
<1>4. CASE \E h \in Clients : HandlerStep(h)
    BY <1>4, OrderedStart, OrderedRead, OrderedSend, OrderedEnd DEF HandlerStep
<1> QED BY <1>1, <1>2, <1>3, <1>4 DEF Next

------------------------------------------------------------------------------
(* The conversation.                                                        *)

LEMMA RoomStart == Init => Room!RoomInit
BY DEF Init, Room!RoomInit

LEMMA RoomStep ==
    Typed /\ Ordered /\ [Next]_vars => [Room!RoomNext]_(Room!roomVars)
<1> SUFFICES ASSUME Typed, Ordered, [Next]_vars
             PROVE  Room!RoomNext \/ UNCHANGED <<log, heard, mixed>>
    BY DEF Room!roomVars
<1> USE DEF Typed, TypeOK
<1>1. ASSUME NEW h \in Clients, Lock(h)
      PROVE  Room!RoomNext \/ UNCHANGED <<log, heard, mixed>>
    <2>1. CASE msg[h] = Failed BY <1>1, <2>1 DEF Lock
    <2>2. CASE msg[h] # Failed
        <3>1. msg[h] \in Messages BY <2>2 DEF HandlersOK
        <3>2. log' = Append(log, msg[h]) /\ UNCHANGED <<heard, mixed>> /\ pc[h] = "lock"
            BY <1>1, <2>2 DEF Lock
        <3>3. ASSUME NEW k \in 1 .. Len(log), log[k].from = msg[h].from
              PROVE  IF mixed THEN log[k].n # msg[h].n ELSE log[k].n < msg[h].n
            <4>1. CASE mixed
                <5>1. log[k] # msg[h] BY <2>2, <3>2 DEF Ordered, ReadOnce
                <5>2. log[k] \in Messages BY ElementOfSeq DEF HistoryOK
                <5> QED BY <3>1, <3>3, <4>1, <5>1, <5>2, MessageFields
            <4>2. CASE ~ mixed BY <2>2, <3>2, <3>3, <4>2 DEF Ordered, OwnClient
            <4> QED BY <4>1, <4>2
        <3>4. Room!Say(msg[h]) BY <3>2, <3>3 DEF Room!Say
        <3> QED BY <3>1, <3>4 DEF Room!RoomNext
    <2> QED BY <2>1, <2>2
<1>2. ASSUME NEW h \in Clients, Write(h)
      PROVE  Room!RoomNext \/ UNCHANGED <<log, heard, mixed>>
    <2> DEFINE c == Conn(clnt_socks[at])
    <2>1. c \in Clients /\ msg[h] # Failed BY <1>2, WriteTo
    <2>2. log # << >> /\ log[Len(log)] = msg[h] /\ UNCHANGED <<log, mixed>>
        BY <1>2, <2>1 DEF Write, Ordered, SaidLast
    <2>3. heard' = heard \/ heard' = [heard EXCEPT ![c] = Append(@, msg[h])]
        BY <1>2 DEF Write
    <2>4. heard' = heard \/ Room!Hear(c) BY <2>2, <2>3 DEF Room!Hear
    <2> QED BY <2>1, <2>2, <2>4 DEF Room!RoomNext
<1>3. ASSUME NEW h \in Clients, Start(h)
      PROVE  Room!RoomNext \/ UNCHANGED <<log, heard, mixed>>
    BY <1>3 DEF Start, Room!RoomNext, Room!Mix, HistoryOK
<1>4. ASSUME NEW h \in Clients,
             \/ EnterRead(h) \/ ReadMessage(h) \/ ReadEnd(h) \/ ReadError(h)
             \/ WriteRefused(h) \/ BrokenPipe(h) \/ Unlock(h) \/ Remove(h) \/ Close(h)
      PROVE  UNCHANGED <<log, heard, mixed>>
    BY <1>4 DEF EnterRead, ReadMessage, ReadEnd, ReadError, WriteRefused, BrokenPipe, Unlock,
                Remove, Close, history
<1>5. CASE \E h \in Clients : HandlerStep(h) BY <1>1, <1>2, <1>3, <1>4, <1>5 DEF HandlerStep
<1>6. CASE \E c \in Clients : ClientWrite(c) \/ ClientRead(c) \/ Quit(c)
    BY <1>6 DEF ClientWrite, ClientRead, Quit, history
<1>7. CASE (\E f \in Fds \cup {-1} : Accept(f)) \/ Admit
    BY <1>7 DEF Accept, Admit, history
<1>8. CASE UNCHANGED vars BY <1>8 DEF vars, history
<1> QED BY <1>5, <1>6, <1>7, <1>8 DEF Next

(* For any number of clients and messages, and whatever descriptors are     *)
(* used again: the handlers and the mutex make one conversation.  Messages  *)
(* are said one at a time, none twice, those of a client in its order until *)
(* two handlers share a connection, and a client hears what was said last.  *)
THEOREM Conversation == Spec => OneConversation
<1>1. Init => Typed /\ Ordered BY TypeInit, OrderedInit
<1>2. Typed /\ Ordered /\ [Next]_vars => (Typed /\ Ordered)' BY TypeStep, OrderedStep
<1> QED BY <1>1, <1>2, RoomStart, RoomStep, PTL DEF Spec, OneConversation, Room!RoomSpec

------------------------------------------------------------------------------
(* What the removals lose.                                                  *)

Lost == {c \in Added \ Left : fd[c] > 0 /\ fd[c] \notin Entries}

\* Main adds the descriptor of the client it accepted, if that is still open.
LeaveInv ==
    /\ main = "add" => fd[accepted] \in {clnt_sock, None}
    /\ Alive => Cardinality(Lost) <= Cardinality(Left)

LEMMA ClientsFinite ==
    /\ IsFiniteSet(Lost) /\ IsFiniteSet(Left)
    /\ Cardinality(Lost) \in Nat /\ Cardinality(Left) \in Nat
<1>1. IsFiniteSet(Clients) BY FS_Interval, ChatAssumption DEF Clients
<1>2. Lost \in SUBSET Clients /\ Left \in SUBSET Clients BY DEF Lost, Left, Added
<1> QED BY <1>1, <1>2, FS_Subset, FS_CardinalityType

\* All values of s are in r, but for x.
KeepsBut(s, r, x) == \A k \in 1 .. Len(s) : s[k] = x \/ \E j \in 1 .. Len(r) : r[j] = s[k]

\* A removal drops one value from a table at most.
LEMMA RemovedKeeps ==
    ASSUME NEW S, NEW s \in Seq(S), NEW f
    PROVE  \E x : KeepsBut(s, Removed(s, f), x)
<1> DEFINE n == Len(s)
           front == SubSeq(s, 1, n - 1)
           found == {k \in 1 .. n : s[k] = f}
           first == CHOOSE k \in found : \A j \in found : k <= j
<1>1. n \in Nat OBVIOUS
<1>2. KeepsBut(s, front, s[n])
    <2>1. \A j \in 1 .. n - 1 : s[j] \in S BY ElementOfSeq
    <2>2. Len(front) = (IF 1 <= n - 1 THEN n - 1 ELSE 0)
          /\ \A j \in 1 .. n - 1 : front[j] = s[j]
        BY <1>1, <2>1, SubSeqProperties
    <2> HIDE DEF front, n
    <2>3. ASSUME NEW k \in 1 .. n PROVE s[k] = s[n] \/ \E j \in 1 .. Len(front) : front[j] = s[k]
        <3>1. CASE k = n BY <3>1
        <3>2. CASE k # n
            <4>1. k \in 1 .. n - 1 /\ k \in 1 .. Len(front) BY <1>1, <2>2, <3>2
            <4> QED BY <2>2, <4>1
        <3> QED BY <3>1, <3>2
    <2> QED BY <2>3 DEF KeepsBut, n
<1>3. ASSUME NEW k \in 1 .. n PROVE KeepsBut(s, RemovedAt(s, k), s[k + 1])
    <2> DEFINE a == SubSeq(s, 1, k)
               b == SubSeq(s, k + 2, n)
    <2>1. a \in Seq(S) /\ Len(a) = k /\ \A j \in 1 .. k : a[j] = s[j]
        <3>1. \A j \in 1 .. k : s[j] \in S BY ElementOfSeq
        <3> QED BY <3>1, SubSeqProperties
    <2>2. /\ b \in Seq(S) /\ Len(b) = (IF k + 2 <= n THEN n - k - 1 ELSE 0)
          /\ \A j \in 1 .. n - k - 1 : b[j] = s[k + 1 + j]
        <3>1. \A j \in k + 2 .. n : s[j] \in S BY ElementOfSeq
        <3>2. /\ b \in Seq(S) /\ Len(b) = (IF k + 2 <= n THEN n - (k + 2) + 1 ELSE 0)
              /\ \A j \in 1 .. n - (k + 2) + 1 : b[j] = s[k + 2 + j - 1]
            BY <1>1, <3>1, SubSeqProperties
        <3>3. n - (k + 2) + 1 = n - k - 1 /\ \A j \in Int : k + 2 + j - 1 = k + 1 + j BY <1>1
        <3> QED BY <3>2, <3>3
    <2> HIDE DEF a, b, n
    <2>3. RemovedAt(s, k) = a \o b BY DEF RemovedAt, a, b, n
    <2>4. /\ Len(a \o b) = Len(a) + Len(b)
          /\ \A j \in 1 .. Len(a) : (a \o b)[j] = a[j]
          /\ \A j \in 1 .. Len(b) : (a \o b)[Len(a) + j] = b[j]
        <3>1. a \in Seq(S) /\ b \in Seq(S) BY <2>1, <2>2
        <3>2. Len(a) \in Nat /\ Len(b) \in Nat BY <3>1
        <3>3. Len(a \o b) = Len(a) + Len(b) BY <3>1, ConcatProperties
        <3>4. \A j \in 1 .. Len(a) + Len(b) : (a \o b)[j] = IF j <= Len(a) THEN a[j] ELSE b[j - Len(a)]
            BY <3>1, ConcatProperties
        <3>5. ASSUME NEW j \in 1 .. Len(b) PROVE (a \o b)[Len(a) + j] = b[j]
            <4>1. Len(a) + j \in 1 .. Len(a) + Len(b) /\ ~ (Len(a) + j <= Len(a))
                  /\ Len(a) + j - Len(a) = j
                BY <3>2
            <4> QED BY <3>4, <4>1
        <3>6. \A j \in 1 .. Len(a) : (a \o b)[j] = a[j] BY <3>2, <3>4
        <3> QED BY <3>3, <3>5, <3>6
    <2>5. ASSUME NEW i \in 1 .. n
          PROVE  s[i] = s[k + 1] \/ \E j \in 1 .. Len(a \o b) : (a \o b)[j] = s[i]
        <3>1. CASE i <= k
            <4>1. i \in 1 .. Len(a) /\ i \in 1 .. Len(a \o b) BY <1>1, <2>1, <2>2, <2>4, <3>1
            <4> QED BY <2>1, <2>4, <4>1
        <3>2. CASE i = k + 1 BY <3>2
        <3>3. CASE i > k + 1
            <4>1. i - k - 1 \in 1 .. Len(b) /\ i - k - 1 \in 1 .. n - k - 1
                  /\ Len(a) + (i - k - 1) \in 1 .. Len(a \o b) /\ k + 1 + (i - k - 1) = i
                BY <1>1, <2>1, <2>2, <2>4, <3>3
            <4> QED BY <2>2, <2>4, <4>1
        <3> QED BY <1>1, <3>1, <3>2, <3>3
    <2> QED BY <2>3, <2>5 DEF KeepsBut, n
<1>4. CASE found = {}
    <2>1. Removed(s, f) = front BY <1>4 DEF Removed
    <2> QED BY <1>2, <2>1
<1>5. CASE found # {}
    <2>1. \E k \in found : \A j \in found : k <= j
        <3>1. found \in SUBSET Nat OBVIOUS
        <3> QED BY <1>5, <3>1, HasLeast
    <2>2. first \in 1 .. n BY <2>1
    <2>3. Removed(s, f) = IF first = n THEN front ELSE RemovedAt(s, first)
        BY <1>5 DEF Removed
    <2> HIDE DEF first, front
    <2> QED BY <1>2, <1>3, <2>2, <2>3
<1> QED BY <1>4, <1>5

\* The steps that lose nobody from the table.
LEMMA LeaveKept ==
    ASSUME LeaveInv, Alive' => Alive, Left' = Left, Lost' \subseteq Lost,
           main' = "add" => fd'[accepted'] \in {clnt_sock', None}
    PROVE  LeaveInv'
<1>1. Cardinality(Lost') <= Cardinality(Lost) /\ Cardinality(Lost') \in Nat
    BY ClientsFinite, FS_Subset, FS_CardinalityType
<1> QED BY <1>1, ClientsFinite DEF LeaveInv

LEMMA LeaveSame ==
    ASSUME Typed, LeaveInv, UNCHANGED <<main, accepted, clnt_sock, clnt_socks, fd>>, NEW h \in Clients,
           \A g \in Clients : g # h => pc'[g] = pc[g],
           pc[h] \in {"close", "done"} <=> pc'[h] \in {"close", "done"}
    PROVE  LeaveInv'
<1>1. Left' = Left BY DEF Left
<1>2. Lost' = Lost BY <1>1 DEF Lost, Added, Entries
<1> QED BY <1>1, <1>2, LeaveKept DEF LeaveInv, Alive

LEMMA LeaveMain ==
    ASSUME Typed, Ordered, LeaveInv, (\E f \in Fds \cup {-1} : Accept(f)) \/ Admit
    PROVE  LeaveInv'
<1> USE DEF Typed, TypeOK
<1>1. ASSUME NEW f \in Fds \cup {-1}, Accept(f) PROVE LeaveInv'
    <2>1. /\ main = "accept" /\ main' = "add" /\ accepted' = accepted + 1
          /\ accepted + 1 \in Clients /\ accepted \in Nat
          /\ fd' = [fd EXCEPT ![accepted + 1] = f] /\ clnt_sock' = f
          /\ UNCHANGED <<clnt_socks, pc>>
        BY <1>1, ChatAssumption DEF Accept, TableOK, Clients, handlerVars
    <2>2. Left' = Left BY <2>1 DEF Left
    <2>3. Added' = Added
        BY <2>1 DEF Added, Clients
    <2>4. accepted + 1 \notin Added BY <2>1 DEF Added
    <2>5. Lost' \subseteq Lost BY <2>1, <2>2, <2>3, <2>4 DEF Lost, Entries, NetOK, Added
    <2> QED BY <2>1, <2>2, <2>5, LeaveKept DEF Alive, NetOK
<1>2. CASE Admit
    <2>1. /\ main = "add" /\ main' = "accept" /\ accepted \in Clients /\ pc[accepted] = "none"
          /\ clnt_socks' = Append(clnt_socks, clnt_sock) /\ pc' = [pc EXCEPT ![accepted] = "start"]
          /\ UNCHANGED <<accepted, fd>>
        BY <1>2, ChatAssumption DEF Admit, Counted, TableOK, Clients, netVars
    <2>2. Left' = Left BY <2>1 DEF Left, HandlersOK
    <2>3. clnt_socks \in Seq(Fds \cup {-1}) /\ clnt_sock \in Fds \cup {-1}
        BY <2>1 DEF TableOK, Counted
    <2>4. Len(clnt_socks') = Len(clnt_socks) + 1 /\ clnt_socks'[Len(clnt_socks) + 1] = clnt_sock
          /\ Len(clnt_socks) \in Nat
          /\ \A k \in 1 .. Len(clnt_socks) : clnt_socks'[k] = clnt_socks[k]
        BY <2>1, <2>3
    <2>5. Entries \subseteq Entries' /\ clnt_sock \in Entries'
        BY <2>4 DEF Entries
    <2>6. \A c \in Clients : c \in Added' => c \in Added \/ c = accepted BY <2>1 DEF Added
    <2>7. Lost' \subseteq Lost
        <3>1. fd[accepted] > 0 => fd[accepted] = clnt_sock BY <2>1 DEF LeaveInv, None
        <3> QED BY <2>1, <2>2, <2>5, <2>6, <3>1 DEF Lost, Added
    <2> QED BY <2>1, <2>2, <2>7, LeaveKept DEF Alive
<1> QED BY <1>1, <1>2

\* One client more has left, and at most one more is lost.
LEMMA LeaveRemove ==
    ASSUME Typed, Ordered, LeaveInv, NEW h \in Clients, Remove(h)
    PROVE  LeaveInv'
<1> USE DEF Typed, TypeOK
<1>1. /\ pc[h] = "remove" /\ pc' = [pc EXCEPT ![h] = "close"]
      /\ clnt_socks' = Removed(clnt_socks, sock[h]) /\ Alive
      /\ UNCHANGED <<main, accepted, clnt_sock, fd>>
    BY DEF Remove, netVars
<1>2. Left' = Left \cup {h} /\ h \notin Left BY <1>1 DEF Left, HandlersOK
<1>3. PICK x : KeepsBut(clnt_socks, clnt_socks', x)
    <2>1. clnt_socks \in Seq(Fds \cup {-1}) BY DEF TableOK
    <2>2. \E x : KeepsBut(clnt_socks, Removed(clnt_socks, sock[h]), x) BY <2>1, RemovedKeeps
    <2> QED BY <1>1, <2>2
<1>4. \A f \in Entries : f = x \/ f \in Entries' BY <1>3 DEF Entries, KeepsBut
<1>5. Added' = Added BY <1>1 DEF Added
<1>6. \A c \in Lost' : c \in Lost \/ (fd[c] = x /\ fd[c] > 0 /\ c \in Clients)
    BY <1>1, <1>2, <1>4, <1>5 DEF Lost, Added
<1>7. \E d : Lost' \subseteq Lost \cup {d}
    <2>1. CASE \E d \in Clients : fd[d] = x /\ fd[d] > 0
        <3>1. PICK d \in Clients : fd[d] = x /\ fd[d] > 0 BY <2>1
        <3>2. Lost' \subseteq Lost \cup {d} BY <1>6, <3>1 DEF Ordered, OneEach
        <3> QED BY <3>2
    <2>2. CASE ~ \E d \in Clients : fd[d] = x /\ fd[d] > 0
        <3>1. Lost' \subseteq Lost \cup {h} BY <1>6, <2>2
        <3> QED BY <3>1
    <2> QED BY <2>1, <2>2
<1>8. PICK d : Lost' \subseteq Lost \cup {d} BY <1>7
<1>9. Cardinality(Lost') <= Cardinality(Lost) + 1 /\ Cardinality(Lost') \in Nat
    <2>1. IsFiniteSet(Lost \cup {d}) /\ Cardinality(Lost \cup {d}) \in Nat
          /\ Cardinality(Lost \cup {d}) <= Cardinality(Lost) + 1
        <3>1. IsFiniteSet(Lost \cup {d})
              /\ Cardinality(Lost \cup {d}) =
                    IF d \in Lost THEN Cardinality(Lost) ELSE Cardinality(Lost) + 1
            BY ClientsFinite, FS_AddElement
        <3> QED BY <3>1, ClientsFinite
    <2>2. IsFiniteSet(Lost') /\ Cardinality(Lost') <= Cardinality(Lost \cup {d})
        BY <1>8, <2>1, FS_Subset
    <2>3. Cardinality(Lost') \in Nat BY <2>2, FS_CardinalityType
    <2> QED BY <2>1, <2>2, <2>3, ClientsFinite
<1>10. Cardinality(Left') = Cardinality(Left) + 1 BY <1>2, ClientsFinite, FS_AddElement
<1> QED BY <1>1, <1>9, <1>10, ClientsFinite DEF LeaveInv, Alive

LEMMA LeaveClose ==
    ASSUME Typed, LeaveInv, NEW h \in Clients, Close(h)
    PROVE  LeaveInv'
<1> USE DEF Typed, TypeOK
<1> DEFINE c == Conn(sock[h])
<1>1. /\ pc[h] = "close" /\ pc' = [pc EXCEPT ![h] = "done"]
      /\ fd' = fd \/ fd' = [fd EXCEPT ![c] = None]
      /\ UNCHANGED <<main, accepted, clnt_sock, clnt_socks>>
    BY DEF Close
<1> HIDE DEF c
<1>2. Left' = Left BY <1>1 DEF Left, HandlersOK
<1>3. \A d \in Clients : fd'[d] = fd[d] \/ fd'[d] = None BY <1>1 DEF NetOK
<1>4. Lost' \subseteq Lost BY <1>1, <1>2, <1>3 DEF Lost, Added, Entries, None
<1>5. main = "add" => accepted \in Clients
    BY ChatAssumption DEF Counted, TableOK, Clients
<1> QED BY <1>1, <1>2, <1>3, <1>4, <1>5, LeaveKept DEF LeaveInv, Alive

LEMMA LeaveStep == Typed /\ Ordered /\ LeaveInv /\ [Next]_vars => LeaveInv'
<1> SUFFICES ASSUME Typed, Ordered, LeaveInv, [Next]_vars PROVE LeaveInv' OBVIOUS
<1> USE DEF Typed, TypeOK
<1>1. CASE UNCHANGED vars
    <2>1. UNCHANGED <<main, accepted, clnt_sock, clnt_socks, fd, pc>>
        BY <1>1 DEF vars, handlerVars, netVars
    <2> QED BY <2>1, LeaveKept DEF LeaveInv, Lost, Left, Added, Entries, Alive
<1>2. CASE \E c \in Clients : ClientWrite(c) \/ ClientRead(c) \/ Quit(c)
    <2>1. UNCHANGED <<main, accepted, clnt_sock, clnt_socks, fd, pc>>
        BY <1>2 DEF ClientWrite, ClientRead, Quit, handlerVars
    <2> QED BY <2>1, LeaveKept DEF LeaveInv, Lost, Left, Added, Entries, Alive
<1>3. CASE (\E f \in Fds \cup {-1} : Accept(f)) \/ Admit BY <1>3, LeaveMain
<1>4. ASSUME NEW h \in Clients, Start(h) \/ EnterRead(h) \/ ReadMessage(h) \/ ReadEnd(h)
                                \/ ReadError(h)
      PROVE  LeaveInv'
    <2>1. /\ UNCHANGED <<main, accepted, clnt_sock, clnt_socks, fd>>
          /\ \A g \in Clients : g # h => pc'[g] = pc[g]
          /\ pc[h] \notin {"close", "done"} /\ pc'[h] \notin {"close", "done"}
        BY <1>4 DEF Start, EnterRead, ReadMessage, ReadEnd, ReadError, HandlersOK, netVars
    <2> QED BY <2>1, LeaveSame
<1>5. ASSUME NEW h \in Clients, Lock(h) \/ Write(h) \/ WriteRefused(h) \/ Unlock(h)
      PROVE  LeaveInv'
    <2>1. /\ UNCHANGED <<main, accepted, clnt_sock, clnt_socks, fd>>
          /\ \A g \in Clients : g # h => pc'[g] = pc[g]
          /\ pc[h] \notin {"close", "done"} /\ pc'[h] \notin {"close", "done"}
        BY <1>5 DEF Lock, Write, WriteRefused, Unlock, HandlersOK, netVars
    <2> QED BY <2>1, LeaveSame
<1>6. ASSUME NEW h \in Clients, BrokenPipe(h) PROVE LeaveInv'
    BY <1>6 DEF BrokenPipe, LeaveInv, Alive
<1>7. CASE \E h \in Clients : HandlerStep(h)
    BY <1>4, <1>5, <1>6, <1>7, LeaveRemove, LeaveClose DEF HandlerStep
<1> QED BY <1>1, <1>2, <1>3, <1>7 DEF Next

LEMMA LeaveInit == Init => LeaveInv
<1> SUFFICES ASSUME Init PROVE LeaveInv OBVIOUS
<1>1. Lost = {} BY DEF Init, Lost, Added, None
<1>2. Cardinality(Lost) = 0 BY <1>1, FS_EmptySet
<1> QED BY <1>2, ClientsFinite DEF Init, LeaveInv

(* For any number of clients and messages: although each removal keeps the  *)
(* entry it should drop and drops another, no more clients are lost from    *)
(* the table than have left, whatever descriptors are used again.           *)
THEOREM LossIsBounded == Spec => []LostByLeaves
<1>1. Init => Typed /\ Ordered /\ LeaveInv BY TypeInit, OrderedInit, LeaveInit
<1>2. Typed /\ Ordered /\ LeaveInv /\ [Next]_vars => (Typed /\ Ordered /\ LeaveInv)'
    BY TypeStep, OrderedStep, LeaveStep
<1>3. LeaveInv => LostByLeaves BY DEF LeaveInv, LostByLeaves, Lost
<1> QED BY <1>1, <1>2, <1>3, PTL DEF Spec

------------------------------------------------------------------------------
(* Who hears what while nobody leaves.                                      *)

Present == \A c \in Clients : conn[c] \in {"none", "open", "bad"}

\* How much of the conversation the broadcast has brought to entry c.
Told(c) == IF mutx # None /\ msg[mutx] # Failed /\ at <= c THEN Len(log) - 1 ELSE Len(log)

\* While nobody leaves, the table holds the clients in the order of accept.
TableInOrder ==
    /\ main = "add" => fd[accepted] = clnt_sock
    /\ Len(clnt_socks) = IF main = "add" THEN accepted - 1 ELSE accepted
    /\ \A k \in 1 .. Len(clnt_socks) : clnt_socks[k] = fd[k]
    /\ \A c \in Clients : conn[c] = "open" => fd[c] > 0

HeardSoFar ==
    /\ mutx = None => at = 1
    /\ \A c \in Clients \ Added : heard[c] = << >>
    /\ \A c \in Added : conn[c] = "open" =>
            since[c] <= Told(c) /\ heard[c] = SubSeq(log, since[c] + 1, Told(c))

\* A client that has yet to be accepted has no connection and no descriptor.
Unconnected ==
    \A c \in Clients : (conn[c] = "none" <=> c > accepted) /\ (c > accepted => fd[c] = None)

HeardInv ==
    /\ Unconnected
    /\ \A h \in Clients : mutx = h => pc[h] = "send"
    /\ Present =>
        /\ Alive /\ TableInOrder /\ HeardSoFar
        /\ \A h \in Clients : pc[h] \notin {"remove", "close", "done"}

LEMMA HeardInit == Init => HeardInv
<1> SUFFICES ASSUME Init PROVE HeardInv OBVIOUS
<1>1. Len(clnt_socks) = 0 BY EmptySeq DEF Init
<1> QED BY <1>1, NoneIsNobody
        DEF Init, HeardInv, Unconnected, Present, TableInOrder, HeardSoFar, Added, Alive, Clients

\* What is added to the conversation is added to what was heard of it.
LEMMA SubSeqAppend ==
    ASSUME NEW S, NEW s \in Seq(S), NEW m \in S, NEW k \in Nat, k <= Len(s)
    PROVE  /\ SubSeq(Append(s, m), k + 1, Len(s)) = SubSeq(s, k + 1, Len(s))
           /\ s # << >> /\ k <= Len(s) - 1 =>
                SubSeq(s, k + 1, Len(s)) = Append(SubSeq(s, k + 1, Len(s) - 1), s[Len(s)])
<1> DEFINE n == Len(s)
           u == Append(s, m)
           a == SubSeq(s, k + 1, n)
           b == SubSeq(u, k + 1, n)
           c == SubSeq(s, k + 1, n - 1)
<1>1. n \in Nat /\ \A j \in 1 .. n : s[j] \in S /\ u[j] = s[j] BY ElementOfSeq
<1>2. /\ a \in Seq(S) /\ Len(a) = IF k + 1 <= n THEN n - (k + 1) + 1 ELSE 0
      /\ \A j \in 1 .. n - (k + 1) + 1 : a[j] = s[k + 1 + j - 1]
    <2>1. \A j \in k + 1 .. n : s[j] \in S BY <1>1
    <2> HIDE DEF n
    <2> QED BY <1>1, <2>1, SubSeqProperties
<1>3. /\ b \in Seq(S) /\ Len(b) = IF k + 1 <= n THEN n - (k + 1) + 1 ELSE 0
      /\ \A j \in 1 .. n - (k + 1) + 1 : b[j] = u[k + 1 + j - 1]
    <2>1. \A j \in k + 1 .. n : u[j] \in S BY <1>1
    <2> HIDE DEF n, u
    <2> QED BY <1>1, <2>1, SubSeqProperties
<1>4. b = a
    <2> HIDE DEF a, b, u
    <2>1. Len(b) = Len(a) BY <1>2, <1>3
    <2>2. \A j \in 1 .. Len(b) : b[j] = a[j]
        <3>1. SUFFICES ASSUME NEW j \in 1 .. Len(b) PROVE b[j] = a[j] OBVIOUS
        <3>2. j \in 1 .. n - (k + 1) + 1 /\ k + 1 + j - 1 \in 1 .. n BY <1>1, <1>3, <3>1
        <3> QED BY <1>1, <1>2, <1>3, <3>2
    <2> QED BY <1>2, <1>3, <2>1, <2>2, SeqEqual
<1>5. ASSUME s # << >>, k <= n - 1 PROVE a = Append(c, s[n])
    <2>1. k + 1 \in 1 .. n /\ n \in k + 1 .. n /\ s[n] \in S BY <1>1, <1>5
    <2>2. a = c \o <<s[n]>> BY <2>1, SubSeqRecursiveSecond
    <2>3. c \in Seq(S)
        <3>1. \A j \in k + 1 .. n - 1 : s[j] \in S BY <1>1
        <3> HIDE DEF n
        <3> QED BY <1>1, <3>1, SubSeqProperties
    <2> HIDE DEF c
    <2> QED BY <2>1, <2>2, <2>3, AppendIsConcat
<1> QED BY <1>4, <1>5

\* Steps that neither broadcast nor change the table, and make nobody leave.
LEMMA HeardAside ==
    ASSUME Typed, HeardInv, UNCHANGED <<main, accepted, clnt_sock, clnt_socks, conn, fd, at, mutx,
                                        log, heard, since>>,
           NEW h \in Clients, h # mutx,
           \A g \in Clients : g # h => pc'[g] = pc[g] /\ msg'[g] = msg[g],
           Present => pc'[h] \notin {"remove", "close", "done"}
    PROVE  HeardInv'
<1>1. mutx # None => mutx \in Clients /\ msg'[mutx] = msg[mutx] BY DEF Typed, TypeOK, TableOK
<1>2. \A c \in Clients : Told(c)' = Told(c) BY <1>1 DEF Told
<1>3. Present' = Present /\ Added' = Added /\ Alive' = Alive BY DEF Present, Added, Alive
<1>4. (TableInOrder => TableInOrder') /\ (Unconnected => Unconnected')
    BY DEF TableInOrder, Unconnected
<1>5. HeardSoFar => HeardSoFar' BY <1>2, <1>3 DEF HeardSoFar, Added
<1> QED BY <1>3, <1>4, <1>5 DEF HeardInv

LEMMA HeardMain ==
    ASSUME Typed, Ordered, HeardInv, (\E f \in Fds \cup {-1} : Accept(f)) \/ Admit
    PROVE  HeardInv'
<1> USE DEF Typed, TypeOK
<1>1. ASSUME NEW f \in Fds \cup {-1}, Accept(f) PROVE HeardInv'
    <2> DEFINE a == accepted + 1
    <2>1. /\ main = "accept" /\ main' = "add" /\ accepted' = a /\ a \in Clients /\ accepted \in Nat
          /\ fd' = [fd EXCEPT ![a] = f] /\ clnt_sock' = f
          /\ conn' = [conn EXCEPT ![a] = IF f = -1 THEN "bad" ELSE "open"]
          /\ UNCHANGED <<clnt_socks, pc, msg, mutx, at, log, heard, since>>
        BY <1>1, ChatAssumption DEF Accept, TableOK, Clients, handlerVars, history
    <2>2. conn[a] = "none" BY <2>1 DEF HeardInv, Unconnected
    <2>3. Present' => Present BY <2>1, <2>2 DEF Present, NetOK
    <2>4. Added' = Added /\ a \notin Added BY <2>1 DEF Added, Clients
    <2>5. TableInOrder => TableInOrder'
        <3>1. SUFFICES ASSUME TableInOrder PROVE TableInOrder' OBVIOUS
        <3>2. Len(clnt_socks) = accepted BY <2>1, <3>1 DEF TableInOrder
        <3>3. \A k \in 1 .. Len(clnt_socks) : k \in Clients /\ k # a
            BY <2>1, <3>2, ChatAssumption DEF Clients
        <3>4. f # -1 => f > 0 BY DEF Fds
        <3> QED BY <2>1, <3>1, <3>2, <3>3, <3>4 DEF TableInOrder, NetOK
    <2>6. \A c \in Clients : Told(c)' = Told(c) BY <2>1 DEF Told
    <2>7. HeardSoFar => HeardSoFar' BY <2>1, <2>4, <2>6 DEF HeardSoFar, NetOK, Added
    <2>8. Unconnected'
        <3>1. conn'[a] # "none" /\ ~ (a > accepted')
            BY <2>1 DEF NetOK, Clients
        <3>2. ASSUME NEW c \in Clients, c # a
              PROVE  conn'[c] = conn[c] /\ fd'[c] = fd[c] /\ (c > accepted' <=> c > accepted)
            BY <2>1, <3>2 DEF NetOK, Clients
        <3> HIDE DEF a
        <3> QED BY <3>1, <3>2 DEF HeardInv, Unconnected
    <2> QED BY <2>1, <2>3, <2>5, <2>7, <2>8 DEF HeardInv, Alive
<1>2. CASE Admit
    <2>1. /\ main = "add" /\ main' = "accept" /\ accepted \in Clients /\ pc[accepted] = "none"
          /\ clnt_socks' = Append(clnt_socks, clnt_sock) /\ pc' = [pc EXCEPT ![accepted] = "start"]
          /\ since' = [since EXCEPT ![accepted] = Len(log)] /\ mutx = None
          /\ UNCHANGED <<accepted, clnt_sock, fd, conn, msg, mutx, at, log, heard>>
        BY <1>2, ChatAssumption DEF Admit, MayLock, Counted, TableOK, Clients, netVars
    <2>2. Present' = Present BY <2>1 DEF Present
    <2>3. clnt_socks \in Seq(Fds \cup {-1}) /\ clnt_sock \in Fds \cup {-1}
        BY <2>1 DEF TableOK, Counted
    <2>4. Len(clnt_socks') = Len(clnt_socks) + 1 /\ clnt_socks'[Len(clnt_socks) + 1] = clnt_sock
          /\ Len(clnt_socks) \in Nat
          /\ \A k \in 1 .. Len(clnt_socks) : clnt_socks'[k] = clnt_socks[k]
        BY <2>1, <2>3
    <2>5. TableInOrder => TableInOrder'
        <3>1. SUFFICES ASSUME TableInOrder PROVE TableInOrder' OBVIOUS
        <3>2. Len(clnt_socks) = accepted - 1 /\ fd[accepted] = clnt_sock
            BY <2>1, <3>1 DEF TableInOrder
        <3>3. Len(clnt_socks') = accepted BY <2>1, <2>4, <3>2 DEF Clients
        <3>4. ASSUME NEW k \in 1 .. Len(clnt_socks') PROVE clnt_socks'[k] = fd[k]
            <4>1. k \in 1 .. Len(clnt_socks) \/ k = Len(clnt_socks) + 1 BY <2>4
            <4>2. Len(clnt_socks) + 1 = accepted BY <2>1, <3>2 DEF Clients
            <4> QED BY <2>4, <3>1, <3>2, <4>1, <4>2 DEF TableInOrder
        <3> QED BY <2>1, <3>1, <3>3, <3>4 DEF TableInOrder
    <2>6. Added' = Added \cup {accepted} /\ accepted \notin Added BY <2>1 DEF Added, Clients
    <2>7. HeardSoFar => HeardSoFar'
        <3>1. SUFFICES ASSUME HeardSoFar PROVE HeardSoFar' OBVIOUS
        <3>2. \A c \in Clients : Told(c)' = Len(log) /\ Told(c) = Len(log) BY <2>1 DEF Told
        <3>3. heard[accepted] = << >> BY <2>1, <2>6, <3>1 DEF HeardSoFar
        <3>4. Len(log) \in Nat BY DEF HistoryOK
        <3>5. SubSeq(log, Len(log) + 1, Len(log)) = << >> BY <3>4, SubSeqEmpty
        <3>6. since'[accepted] = Len(log) /\ \A c \in Clients : c # accepted => since'[c] = since[c]
            BY <2>1 DEF HistoryOK
        <3>7. ASSUME NEW c \in Added', conn[c] = "open"
              PROVE  since'[c] <= Len(log) /\ heard[c] = SubSeq(log, since'[c] + 1, Len(log))
            <4>1. CASE c = accepted
                <5>1. since'[c] = Len(log) /\ heard[c] = << >> BY <3>3, <3>6, <4>1
                <5>2. SubSeq(log, since'[c] + 1, Len(log)) = << >> BY <3>5, <5>1
                <5> QED BY <3>4, <5>1, <5>2
            <4>2. CASE c # accepted
                <5>1. c \in Added /\ c \in Clients BY <2>6, <3>7, <4>2 DEF Added
                <5> QED BY <3>1, <3>2, <3>6, <3>7, <4>2, <5>1 DEF HeardSoFar
            <4> QED BY <4>1, <4>2
        <3>8. \A c \in Added' : c \in Clients BY <2>1, <2>6 DEF Added
        <3> QED BY <2>1, <2>6, <3>1, <3>2, <3>7, <3>8 DEF HeardSoFar
    <2>8. \A h \in Clients : mutx # h BY <2>1, NoneIsNobody
    <2> QED BY <2>1, <2>2, <2>5, <2>7, <2>8 DEF HeardInv, Unconnected, Alive, HandlersOK
<1> QED BY <1>1, <1>2

\* A read is not the holder's, and while nobody leaves it ends no handler.
LEMMA HeardRead ==
    ASSUME Typed, HeardInv, NEW h \in Clients,
           Start(h) \/ EnterRead(h) \/ ReadMessage(h) \/ ReadEnd(h) \/ ReadError(h)
    PROVE  HeardInv'
<1> USE DEF Typed, TypeOK
<1>1. /\ UNCHANGED <<main, accepted, clnt_sock, clnt_socks, fd, at, mutx, log, heard, since>>
      /\ \A g \in Clients : g # h => pc'[g] = pc[g] /\ msg'[g] = msg[g]
      /\ pc[h] # "send"
    BY DEF Start, EnterRead, ReadMessage, ReadEnd, ReadError, HandlersOK, netVars, history
<1>2. h # mutx BY <1>1 DEF HeardInv
<1>3. CASE conn' = conn
    <2>1. ~ ReadEnd(h) => pc'[h] \notin {"remove", "close", "done"}
        BY DEF Start, EnterRead, ReadMessage, ReadError, HandlersOK
    <2>2. ReadEnd(h) => ~ Present BY DEF ReadEnd, EndOfStream, Present, HandlersOK
    <2> QED BY <1>1, <1>2, <1>3, <2>1, <2>2, HeardAside
<1>4. CASE conn' # conn
    <2>1. PICK c \in Clients : conn[c] = "reset" /\ conn' = [conn EXCEPT ![c] = "dead"]
        BY <1>4 DEF Start, EnterRead, ReadMessage, ReadEnd, ReadError, HandlersOK, netVars
    <2>2. ~ Present' BY <2>1 DEF Present, NetOK
    <2>3. \A g \in Clients : mutx' = g => pc'[g] = "send" BY <1>1, <1>2 DEF HeardInv
    <2>4. Unconnected' BY <1>1, <2>1 DEF HeardInv, Unconnected, NetOK
    <2> QED BY <2>2, <2>3, <2>4 DEF HeardInv
<1> QED BY <1>3, <1>4

LEMMA HeardLock ==
    ASSUME Typed, HeardInv, NEW h \in Clients, Lock(h)
    PROVE  HeardInv'
<1> USE DEF Typed, TypeOK
<1>1. /\ mutx = None /\ mutx' = h /\ pc[h] = "lock" /\ pc' = [pc EXCEPT ![h] = "send"]
      /\ log' = (IF msg[h] = Failed THEN log ELSE Append(log, msg[h]))
      /\ UNCHANGED <<main, accepted, clnt_sock, clnt_socks, conn, fd, msg, at, heard, since>>
    BY DEF Lock, MayLock, netVars
<1>2. Present' = Present /\ Added' = Added /\ Alive' = Alive BY <1>1 DEF Present, Added, Alive
<1>3. TableInOrder => TableInOrder' BY <1>1 DEF TableInOrder
<1>4. HeardSoFar => HeardSoFar'
    <2>1. SUFFICES ASSUME HeardSoFar PROVE HeardSoFar' OBVIOUS
    <2>2. at = 1 BY <1>1, <2>1 DEF HeardSoFar
    <2>3. log \in Seq(Messages) /\ Len(log) \in Nat /\ msg[h] \in Messages \cup {Failed}
        BY DEF HistoryOK, HandlersOK
    <2>4. \A c \in Clients : Told(c) = Len(log) /\ Told(c)' = Len(log)
        <3>1. \A c \in Clients : 1 <= c BY DEF Clients
        <3>2. msg[h] # Failed => Len(log') - 1 = Len(log) BY <1>1, <2>3
        <3> QED BY <1>1, <2>2, <3>1, <3>2, NoneIsNobody DEF Told
    <2>5. ASSUME NEW c \in Added, conn[c] = "open"
          PROVE  since[c] <= Len(log) /\ heard[c] = SubSeq(log', since[c] + 1, Len(log))
        <3>1. c \in Clients /\ since[c] \in Nat BY DEF Added, HistoryOK
        <3>2. since[c] <= Len(log) /\ heard[c] = SubSeq(log, since[c] + 1, Len(log))
            BY <2>1, <2>4, <2>5, <3>1 DEF HeardSoFar
        <3>3. SubSeq(log', since[c] + 1, Len(log)) = SubSeq(log, since[c] + 1, Len(log))
            BY <1>1, <2>3, <3>1, <3>2, SubSeqAppend
        <3> QED BY <3>2, <3>3
    <2>6. \A c \in Added : c \in Clients BY DEF Added
    <2> QED BY <1>1, <1>2, <2>1, <2>4, <2>5, <2>6, NoneIsNobody DEF HeardSoFar
<1> QED BY <1>1, <1>2, <1>3, <1>4 DEF HeardInv, Unconnected, HandlersOK

\* The next entry is the client of its index, and hears what was said last.
LEMMA HeardWrite ==
    ASSUME Typed, Ordered, HeardInv, NEW h \in Clients, Write(h) \/ WriteRefused(h)
    PROVE  HeardInv'
<1> USE DEF Typed, TypeOK
<1>1. /\ pc[h] = "send" /\ at \in 1 .. Len(clnt_socks) /\ at' = at + 1 /\ Alive
      /\ UNCHANGED <<main, accepted, clnt_sock, clnt_socks, pc, fd, msg, mutx, log, since>>
    BY DEF Write, WriteRefused, HandlersOK, netVars, history
<1>2. mutx = h BY <1>1 DEF Ordered, Excluded
<1>3. conn' = conn \/ ~ Present'
    BY DEF Write, WriteRefused, netVars, Present, NetOK, ConnIs
<1>4. Unconnected'
    BY <1>1 DEF Write, WriteRefused, netVars, HeardInv, Unconnected, NetOK
<1>5. CASE ~ Present' BY <1>1, <1>4, <1>5 DEF HeardInv
<1>6. CASE Present'
    <2>1. conn' = conn /\ Present BY <1>3, <1>6 DEF Present
    <2>2. TableInOrder /\ HeardSoFar BY <2>1 DEF HeardInv
    <2>3. at \in Added /\ at \in Clients /\ clnt_socks[at] = fd[at]
        BY <1>1, <2>2, ChatAssumption DEF TableInOrder, Added, Clients, TableOK
    <2>4. Added' = Added BY <1>1 DEF Added
    <2>5. conn[at] = "open" => Conn(clnt_socks[at]) = at
        <3>1. SUFFICES ASSUME conn[at] = "open" PROVE Conn(fd[at]) = at BY <2>3
        <3>2. fd[at] > 0 /\ fd[at] \in Int BY <2>2, <2>3, <3>1 DEF TableInOrder, NetOK, Fds, None
        <3> QED BY <2>3, <3>2, ConnIs DEF Ordered, OneEach
    <2>6. ASSUME NEW c \in Added, conn[c] = "open"
          PROVE  since[c] <= Told(c)' /\ heard'[c] = SubSeq(log, since[c] + 1, Told(c)')
        <3>1. c \in Clients /\ since[c] \in Nat /\ Len(log) \in Nat /\ log \in Seq(Messages)
            BY DEF Added, HistoryOK
        <3>2. since[c] <= Told(c) /\ heard[c] = SubSeq(log, since[c] + 1, Told(c))
            BY <2>2, <2>6 DEF HeardSoFar
        <3>3. CASE c # at
            <4>1. heard'[c] = heard[c]
                <5>1. CASE WriteRefused(h) BY <5>1 DEF WriteRefused, history
                <5>2. CASE Write(h)
                    <6>1. Conn(clnt_socks[at]) # c
                        <7>1. fd[at] \in Int BY <2>3 DEF NetOK, Fds, None
                        <7> QED BY <2>3, <3>1, <3>3, <7>1, ConnIs, NoneIsNobody
                                DEF Ordered, OneEach
                    <6> QED BY <5>2, <6>1, <3>1 DEF Write, HistoryOK
                <5> QED BY <5>1, <5>2
            <4>2. Told(c)' = Told(c)
                <5>1. at \in Nat /\ c \in Nat BY <2>3, <3>1 DEF Clients
                <5>2. at + 1 <= c <=> at <= c BY <3>3, <5>1
                <5> QED BY <1>1, <5>2 DEF Told
            <4> QED BY <3>2, <4>1, <4>2
        <3>4. CASE c = at
            <4>1. Told(c)' = Len(log)
                <5>1. ~ (at + 1 <= c) BY <2>3, <3>4 DEF Clients
                <5> QED BY <1>1, <5>1 DEF Told
            <4>2. Conn(clnt_socks[at]) = c BY <2>5, <2>6, <3>4
            <4>3. CASE msg[h] = Failed
                <5>1. ~ Write(h) BY <4>3 DEF Write, Refused
                <5>2. heard' = heard BY <5>1 DEF WriteRefused, history
                <5>3. Told(c) = Len(log) BY <1>2, <4>3 DEF Told
                <5> QED BY <3>2, <4>1, <5>2, <5>3
            <4>4. CASE msg[h] # Failed
                <5>1. Write(h)
                    <6>1. ~ Refused(h) BY <3>1, <4>2, <4>4, NoneIsNobody DEF Refused
                    <6> QED BY <6>1 DEF WriteRefused
                <5>2. heard' = [heard EXCEPT ![c] = Append(heard[c], msg[h])]
                    BY <2>6, <4>2, <5>1 DEF Write
                <5>3. heard'[c] = Append(heard[c], msg[h]) BY <3>1, <5>2 DEF HistoryOK
                <5>4. Told(c) = Len(log) - 1 BY <1>2, <2>3, <3>4, <4>4, NoneIsNobody DEF Told, Clients
                <5>5. log # << >> /\ log[Len(log)] = msg[h]
                    BY <1>1, <4>4 DEF Ordered, SaidLast
                <5>6. log[Len(log)] \in Messages BY <4>4, <5>5 DEF HandlersOK
                <5>7. SubSeq(log, since[c] + 1, Len(log)) = Append(heard[c], msg[h])
                    <6>1. since[c] <= Len(log) - 1 /\ since[c] <= Len(log) BY <3>1, <3>2, <5>4
                    <6>2. SubSeq(log, since[c] + 1, Len(log))
                            = Append(SubSeq(log, since[c] + 1, Len(log) - 1), log[Len(log)])
                        BY <3>1, <5>5, <5>6, <6>1, SubSeqAppend
                    <6>3. heard[c] = SubSeq(log, since[c] + 1, Len(log) - 1) BY <3>2, <5>4
                    <6> QED BY <5>5, <6>2, <6>3
                <5>8. since[c] <= Len(log) BY <3>1, <3>2, <5>4
                <5> QED BY <4>1, <5>3, <5>7, <5>8
            <4> QED BY <4>3, <4>4
        <3> QED BY <3>3, <3>4
    <2>7. \A c \in Clients \ Added : heard'[c] = << >>
        <3>1. SUFFICES ASSUME NEW c \in Clients, c \notin Added PROVE heard'[c] = heard[c]
            BY <2>2 DEF HeardSoFar
        <3>2. CASE WriteRefused(h) BY <3>2 DEF WriteRefused, history
        <3>3. CASE Write(h)
            <4>1. Conn(clnt_socks[at]) # c
                <5>1. fd[at] \in Int BY <2>3 DEF NetOK, Fds, None
                <5> QED BY <2>3, <3>1, <5>1, ConnIs, NoneIsNobody DEF Ordered, OneEach
            <4> QED BY <3>1, <3>3, <4>1 DEF Write, HistoryOK
        <3> QED BY <3>2, <3>3
    <2>8. mutx # None BY <1>2, NoneIsNobody
    <2>9. HeardSoFar' BY <1>1, <2>1, <2>4, <2>6, <2>7, <2>8 DEF HeardSoFar
    <2>10. TableInOrder' BY <1>1, <2>1, <2>2 DEF TableInOrder
    <2> QED BY <1>1, <1>4, <2>1, <2>9, <2>10 DEF HeardInv, Alive
<1> QED BY <1>5, <1>6

\* At the end of the table everybody has heard everything.
LEMMA HeardUnlock ==
    ASSUME Typed, Ordered, HeardInv, NEW h \in Clients, Unlock(h)
    PROVE  HeardInv'
<1> USE DEF Typed, TypeOK
<1>1. /\ pc[h] = "send" /\ at > Len(clnt_socks) /\ mutx' = None /\ at' = 1
      /\ pc' = [pc EXCEPT ![h] = "enter"] /\ at \in Nat /\ Len(clnt_socks) \in Nat
      /\ UNCHANGED <<main, accepted, clnt_sock, clnt_socks, conn, fd, log, heard, since>>
    BY DEF Unlock, HandlersOK, TableOK, netVars, history
<1>2. Present' = Present /\ Added' = Added /\ Alive' = Alive BY <1>1 DEF Present, Added, Alive
<1>3. TableInOrder => TableInOrder' BY <1>1 DEF TableInOrder
<1>4. ASSUME TableInOrder, HeardSoFar PROVE HeardSoFar'
    <2>1. \A c \in Added : ~ (at <= c) /\ c \in Clients
        <3>1. \A c \in Added : c \in Clients /\ c <= Len(clnt_socks)
            BY <1>4, ChatAssumption DEF TableInOrder, Added, Clients, TableOK
        <3> QED BY <1>1, <3>1, ChatAssumption DEF Clients
    <2>2. \A c \in Added : Told(c) = Len(log) /\ Told(c)' = Len(log) BY <1>1, <2>1 DEF Told
    <2> QED BY <1>1, <1>2, <1>4, <2>2 DEF HeardSoFar
<1> QED BY <1>1, <1>2, <1>3, <1>4, NoneIsNobody DEF HeardInv, Unconnected, HandlersOK

\* These are steps of somebody leaving, or of the end.
LEMMA HeardLeave ==
    ASSUME Typed, Ordered, HeardInv,
           \/ \E h \in Clients : BrokenPipe(h) \/ Remove(h) \/ Close(h)
           \/ \E c \in Clients : Quit(c)
    PROVE  HeardInv'
<1> USE DEF Typed, TypeOK
<1>1. ~ Present'
    <2>1. ASSUME NEW h \in Clients, BrokenPipe(h) PROVE ~ Present'
        <3>1. Conn(clnt_socks[at]) \in Clients
            BY <2>1, NoneIsNobody DEF BrokenPipe, Refused, Conn
        <3> QED BY <2>1, <3>1 DEF BrokenPipe, netVars, Present
    <2>2. ASSUME NEW h \in Clients, Remove(h) \/ Close(h) PROVE ~ Present'
        <3>1. ~ Present BY <2>2 DEF Remove, Close, HeardInv
        <3>2. \A c \in Clients : conn'[c] = conn[c] \/ conn'[c] = "closed"
            BY <2>2 DEF Remove, Close, netVars, NetOK
        <3> QED BY <3>1, <3>2 DEF Present
    <2>3. ASSUME NEW c \in Clients, Quit(c) PROVE ~ Present'
        BY <2>3 DEF Quit, Present, NetOK
    <2> QED BY <2>1, <2>2, <2>3
<1>2. Unconnected'
    <2>1. ASSUME NEW h \in Clients, BrokenPipe(h) \/ Remove(h) PROVE Unconnected'
        BY <2>1 DEF BrokenPipe, Remove, netVars, HeardInv, Unconnected
    <2>2. ASSUME NEW c \in Clients, Quit(c) PROVE Unconnected'
        BY <2>2 DEF Quit, HeardInv, Unconnected, NetOK
    <2>3. ASSUME NEW h \in Clients, Close(h) PROVE Unconnected'
        <3> DEFINE d == Conn(sock[h])
        <3>1. accepted' = accepted BY <2>3 DEF Close
        <3>2. CASE d = None
            <4>1. UNCHANGED <<fd, conn>> BY <2>3, <3>2 DEF Close
            <4> QED BY <3>1, <4>1 DEF HeardInv, Unconnected
        <3>3. CASE d # None
            <4>1. sock[h] \in Int BY DEF HandlersOK, Fds, None
            <4>2. d \in Clients /\ fd[d] # None BY <3>3, <4>1, ConnIs DEF None
            <4>3. /\ fd' = [fd EXCEPT ![d] = None]
                  /\ conn' = conn \/ conn' = [conn EXCEPT ![d] = "closed"]
                BY <2>3, <3>3 DEF Close
            <4> HIDE DEF d
            <4> QED BY <3>1, <4>2, <4>3 DEF HeardInv, Unconnected, NetOK
        <3> QED BY <3>2, <3>3
    <2> QED BY <2>1, <2>2, <2>3
<1>3. \A g \in Clients : mutx' = g => pc'[g] = "send"
    BY DEF BrokenPipe, Remove, Close, Quit, handlerVars, HeardInv, HandlersOK
<1> QED BY <1>1, <1>2, <1>3 DEF HeardInv

LEMMA HeardStep == Typed /\ Ordered /\ HeardInv /\ [Next]_vars => HeardInv'
<1> SUFFICES ASSUME Typed, Ordered, HeardInv, [Next]_vars PROVE HeardInv' OBVIOUS
<1> DEFINE Same == UNCHANGED <<main, accepted, clnt_sock, clnt_socks, conn, fd, pc, msg, at, mutx,
                               log, heard, since>>
<1>1. CASE Same
    <2>1. Present' = Present /\ Added' = Added /\ Alive' = Alive
        BY <1>1 DEF Present, Added, Alive
    <2>2. \A c \in Clients : Told(c)' = Told(c) BY <1>1 DEF Told
    <2>3. HeardSoFar => HeardSoFar' BY <1>1, <2>1, <2>2 DEF HeardSoFar, Added
    <2>4. TableInOrder => TableInOrder' BY <1>1 DEF TableInOrder
    <2> QED BY <1>1, <2>1, <2>3, <2>4 DEF HeardInv, Unconnected
<1>2. (\E c \in Clients : ClientWrite(c) \/ ClientRead(c)) => Same
    BY DEF ClientWrite, ClientRead, handlerVars, history
<1>3. UNCHANGED vars => Same BY DEF vars, handlerVars, netVars, history
<1> QED BY <1>1, <1>2, <1>3, HeardMain, HeardRead, HeardLock, HeardWrite, HeardUnlock, HeardLeave
        DEF Next, HandlerStep

(* For any number of clients and messages: as long as nobody has left, the  *)
(* server runs, and whenever the mutex is free every client has heard       *)
(* everything said since it was added, each message once and in order.      *)
THEOREM NobodyMisses == Spec => []HeardAll
<1>1. Init => Typed /\ Ordered /\ HeardInv BY TypeInit, OrderedInit, HeardInit
<1>2. Typed /\ Ordered /\ HeardInv /\ [Next]_vars => (Typed /\ Ordered /\ HeardInv)'
    BY TypeStep, OrderedStep, HeardStep
<1>3. HeardInv => HeardAll BY DEF HeardInv, HeardSoFar, HeardAll, Present, Told
<1> QED BY <1>1, <1>2, <1>3, PTL DEF Spec
===============================================================================
