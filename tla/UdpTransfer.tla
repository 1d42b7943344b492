------------------------------ MODULE UdpTransfer ------------------------------
(***************************************************************************)
(* The stop-and-wait file transfer over UDP: hw2_server.c, which polls a    *)
(* non-blocking socket and retransmits at every turn of its loops, and      *)
(* hw2_client.c, which acknowledges whatever packet it receives.            *)
(*                                                                          *)
(* Packet 1 opens the session, packet 2 carries the name and the size, and  *)
(* packet s >= 3 carries chunk s - 3 of the file.  The last chunk is the    *)
(* first one shorter than the buffer; it is empty when the size is a        *)
(* multiple of the buffer's.                                                *)
(*                                                                          *)
(* The network loses, duplicates and reorders datagrams: a datagram may be  *)
(* lost when it is sent, and may still be there after it was received.      *)
(***************************************************************************)
EXTENDS Integers, Sequences

CONSTANTS
    BufSize,    \* BUF_SIZE
    Sizes,      \* sizes the server's file may have
    Garbage,    \* values of the uninitialised seq_check
    StartTwice  \* whether the client's start datagram may be duplicated

ASSUME TransferAssumption ==
    /\ BufSize \in Nat \ {0}
    /\ Sizes \subseteq Nat
    /\ Garbage \subseteq Nat
    /\ StartTwice \in BOOLEAN

VARIABLES
    size,       \* sb.st_size, constant
    spc,        \* server: "start", "send", "poll" or "done"
    seq,        \* serv_pkt.seq
    chunk,      \* the chunk in serv_pkt.data, -1 when it holds none
    seq_check,  \* the server's seq_check
    cpc,        \* client: "sync", "meta", "data" or "closed"
    num,        \* the sequence number the client waits for
    file_size,  \* the size the client was told
    total,      \* bytes the client has written
    out,        \* the chunks it has written
    starts,     \* whether a start datagram is in the network
    pkts,       \* packets in the network
    acks,       \* acknowledgements in the network
    skipped     \* history: packet 1 was taken as acknowledged unanswered

vars == <<size, spc, seq, chunk, seq_check, cpc, num, file_size, total, out,
          starts, pkts, acks, skipped>>
serverVars == <<size, spc, seq, chunk, seq_check, skipped>>
clientVars == <<cpc, num, file_size, total, out>>

\* fread's count for chunk j.
ReadCnt(j) ==
    IF size >= (j + 1) * BufSize THEN BufSize
    ELSE IF size > j * BufSize THEN size - j * BufSize ELSE 0

\* The bytes of the first k chunks.
Written(k) == IF k * BufSize <= size THEN k * BufSize ELSE size

ChunkCnt == (size + BufSize - 1) \div BufSize   \* chunks with data
LastSeq == size \div BufSize + 3                \* the short packet

Seqs == 1 .. LastSeq
Packets == [seq : Seqs, chunk : -1 .. ChunkCnt]

\* The client has sent its only start datagram, which may be lost.
Init ==
    /\ size \in Sizes
    /\ spc = "start" /\ seq = 1 /\ chunk = -1 /\ seq_check \in Garbage
    /\ cpc = "sync" /\ num = 1 /\ file_size = 0 /\ total = 0 /\ out = << >>
    /\ starts \in BOOLEAN /\ pkts = {} /\ acks = {}
    /\ skipped = FALSE

------------------------------------------------------------------------------
(* The network.  Datagram m is sent into net, or lost; one that is received *)
(* leaves net, or is there once more.                                       *)

Sent(net, m) == {net, net \cup {m}}
Received(net, m) == {net, net \ {m}}

------------------------------------------------------------------------------
(* The server.                                                              *)

ReceiveStart ==
    /\ spc = "start"
    /\ starts
    /\ spc' = "send"
    /\ starts' \in {FALSE, StartTwice}
    /\ UNCHANGED <<size, seq, chunk, seq_check, clientVars, pkts, acks, skipped>>

Packet == [seq |-> seq, chunk |-> chunk]

Send ==
    /\ spc = "send"
    /\ pkts' \in Sent(pkts, Packet)
    /\ spc' = "poll"
    /\ UNCHANGED <<size, seq, chunk, seq_check, clientVars, starts, acks, skipped>>

\* Defect: the acknowledgement of the packet before will do.
AckedNext(v) == v >= seq - 1

Acked(v) == v = seq

\* Defect: the last packet is the first one without data.
IsLastEmpty == chunk >= 0 /\ ReadCnt(chunk) = 0

IsLast == chunk >= 0 /\ ReadCnt(chunk) < BufSize

\* Defect: fread is called at each turn of the retransmission loop.
LoadedAgain(v) == IF seq > 2 \/ (seq = 2 /\ Acked(v)) THEN chunk + 1 ELSE chunk

\* The first fread follows the acknowledgement of packet 2.
Loaded(v) == IF Acked(v) /\ seq >= 2 THEN chunk + 1 ELSE chunk

\* seq_check holds v after recvfrom: the loop turns again or is left.
Check(v) ==
    /\ seq_check' = v
    /\ IF Acked(v) /\ IsLast
       THEN spc' = "done" /\ UNCHANGED <<seq, chunk>>
       ELSE /\ spc' = "send"
            /\ seq' = IF Acked(v) THEN seq + 1 ELSE seq
            /\ chunk' = Loaded(v)
    /\ skipped' = (skipped \/ (Acked(v) /\ cpc = "sync"))

\* recvfrom finds acknowledgement v.
PollAck(v) ==
    /\ spc = "poll"
    /\ v \in acks
    /\ Check(v)
    /\ acks' \in Received(acks, v)
    /\ UNCHANGED <<size, clientVars, starts, pkts>>

\* A second start datagram has the bytes of acknowledgement 1.
PollStart ==
    /\ spc = "poll"
    /\ starts
    /\ Check(1)
    /\ starts' = FALSE
    /\ UNCHANGED <<size, clientVars, pkts, acks>>

\* recvfrom finds nothing, and seq_check keeps its value.
PollNothing ==
    /\ spc = "poll"
    /\ Check(seq_check)
    /\ UNCHANGED <<size, clientVars, starts, pkts, acks>>

Poll == (\E v \in Seqs : PollAck(v)) \/ PollStart \/ PollNothing

------------------------------------------------------------------------------
(* The client.                                                              *)

\* Packet p is received and its number sent back.
Answer(p) ==
    /\ p \in pkts
    /\ pkts' \in Received(pkts, p)
    /\ acks' \in Sent(acks, p.seq)

\* A packet it does not wait for is acknowledged and dropped.
Unexpected(p) ==
    /\ cpc # "closed"
    /\ p.seq # num
    /\ Answer(p)
    /\ UNCHANGED <<serverVars, clientVars, starts>>

\* Defect: num is not increased after the answer.
NextNumStays(p) == num

NextNum(p) == p.seq + 1

Sync(p) ==
    /\ cpc = "sync"
    /\ p.seq = num
    /\ Answer(p)
    /\ num' = NextNum(p)
    /\ cpc' = "meta"
    /\ UNCHANGED <<serverVars, file_size, total, out, starts>>

\* Defect: the loop ends with the first chunk that fits no full buffer more.
MoreThanBuf(t, n) == t + BufSize <= n

More(t, n) == t < n

\* A client that expects no data closes its file and ends.
Metadata(p) ==
    /\ cpc = "meta"
    /\ p.seq = num
    /\ Answer(p)
    /\ num' = NextNum(p)
    /\ file_size' = size
    /\ cpc' = IF More(0, size) THEN "data" ELSE "closed"
    /\ UNCHANGED <<serverVars, total, out, starts>>

Chunk(p) ==
    /\ cpc = "data"
    /\ p.seq = num
    /\ Answer(p)
    /\ num' = NextNum(p)
    /\ out' = Append(out, p.chunk)
    /\ total' = total + ReadCnt(p.chunk)
    /\ cpc' = IF More(total', file_size) THEN "data" ELSE "closed"
    /\ UNCHANGED <<serverVars, file_size, starts>>

Client(p) == Unexpected(p) \/ Sync(p) \/ Metadata(p) \/ Chunk(p)

------------------------------------------------------------------------------

Next ==
    \/ ReceiveStart \/ Send \/ Poll
    \/ \E p \in Packets : Client(p)

Spec == Init /\ [][Next]_vars

(* The server's loops run.  A packet that is sent again and again is not    *)
(* lost each time, nor is its acknowledgement, and what stays in the        *)
(* network is read in the end.                                              *)
Fairness ==
    /\ WF_vars(ReceiveStart) /\ WF_vars(Send) /\ WF_vars(Poll)
    /\ SF_vars(Send /\ Packet \in pkts')
    /\ SF_vars(\E p \in Packets : p.seq = seq /\ Client(p) /\ seq \in acks')
    /\ SF_vars(PollAck(seq))

FairSpec == Spec /\ Fairness

------------------------------------------------------------------------------

\* Types; neither side counts past the last packet.
TypeOK ==
    /\ size \in Sizes
    /\ spc \in {"start", "send", "poll", "done"}
    /\ seq \in Seqs /\ chunk \in -1 .. ChunkCnt
    /\ seq_check \in Garbage \cup Seqs
    /\ cpc \in {"sync", "meta", "data", "closed"}
    /\ num \in 1 .. LastSeq + 1
    /\ file_size \in {0, size} /\ total \in 0 .. size
    /\ out \in Seq(Nat)
    /\ starts \in BOOLEAN /\ skipped \in BOOLEAN
    /\ pkts \subseteq Packets /\ acks \subseteq Seqs

(* The client's file is always a beginning of the server's, chunk by chunk  *)
(* and without a gap or a repetition, however the packets were lost,        *)
(* repeated or reordered, and the bytes counted are the bytes written.      *)
FileIsPrefix ==
    /\ \A k \in 1 .. Len(out) : out[k] = k - 1
    /\ total = Written(Len(out))

\* The client closes a complete file, never a shorter one.
ClosedIsComplete == cpc = "closed" => total = size /\ Len(out) = ChunkCnt

(* Unless the server has skipped the client's first answer, it is at most   *)
(* one packet behind the client and never ahead of it.                      *)
InStep == ~ skipped => num - 1 <= seq /\ seq <= num

(* The server's end means that the client has the whole file, unless the    *)
(* first acknowledgement was not the client's.                              *)
EndMeansReceived == spc = "done" /\ ~ skipped => cpc = "closed"

\* The two programs do what FileDelivery promises.
Delivery == INSTANCE FileDelivery WITH
               chunkCnt <- ChunkCnt, received <- cpc = "closed", sent <- spc = "done"
Delivers == Delivery!DeliverySpec

(* A started session ends at the client with the complete file, whatever is *)
(* lost, unless the server has skipped the client's first answer.           *)
ClientFinishes == spc = "send" ~> (cpc = "closed" \/ skipped)
===============================================================================
