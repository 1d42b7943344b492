--------------------------- MODULE UdpTransferProofs ---------------------------
(***************************************************************************)
(* Proofs about the UDP transfer, for every size of the file and of the     *)
(* buffer and every history of losses, repetitions and reorderings.         *)
(*                                                                          *)
(* A packet's number determines its content (PacketsHold), and the client   *)
(* takes only the packet it waits for: its file is a prefix whatever the    *)
(* server believes.  That the server's end means anything rests on the      *)
(* acknowledgements: as long as none was skipped, those in the network and  *)
(* the one in seq_check are of packets the client has taken (AcksHold).     *)
(***************************************************************************)
EXTENDS UdpTransfer, TLAPS

------------------------------------------------------------------------------
(* Arithmetic: k full buffers fit in n bytes just when k <= n \div b.       *)

LEMMA MulMono ==
    ASSUME NEW a \in Nat, NEW c \in Nat, NEW b \in Nat, a <= c
    PROVE  a * b <= c * b
OBVIOUS

LEMMA DivBounds ==
    ASSUME NEW n \in Nat, NEW b \in Nat \ {0}
    PROVE  /\ n \div b \in Nat
           /\ (n \div b) * b <= n
           /\ n < (n \div b + 1) * b
OBVIOUS

LEMMA DivFits ==
    ASSUME NEW n \in Nat, NEW b \in Nat \ {0}, NEW k \in Nat
    PROVE  k * b <= n <=> k <= n \div b
<1> DEFINE q == n \div b
<1>1. q \in Nat /\ q * b <= n /\ n < (q + 1) * b BY DivBounds
<1> HIDE DEF q
<1>2. k * b \in Int /\ q * b \in Int /\ (q + 1) * b \in Int BY <1>1
<1>3. CASE k <= q
    <2>1. k * b <= q * b BY <1>1, <1>3, MulMono
    <2> QED BY <1>1, <1>2, <1>3, <2>1 DEF q
<1>4. CASE ~ (k <= q)
    <2>1. (q + 1) * b <= k * b BY <1>1, <1>4, MulMono
    <2> QED BY <1>1, <1>2, <1>4, <2>1 DEF q
<1> QED BY <1>3, <1>4

(* The chunks before LastSeq are full buffers, the one of LastSeq is short, *)
(* and there are at most ChunkCnt of them before it.                        *)
LEMMA FullChunks ==
    ASSUME size \in Nat, NEW j \in Nat
    PROVE  /\ LastSeq \in Nat /\ LastSeq >= 3 /\ ChunkCnt \in Nat
           /\ ReadCnt(j) \in 0 .. BufSize
           /\ ReadCnt(j) < BufSize <=> j + 3 >= LastSeq
           /\ LastSeq - 3 <= ChunkCnt
<1> USE TransferAssumption
<1>1. (j + 1) * BufSize <= size <=> j + 1 <= size \div BufSize BY DivFits
<1>2. size \div BufSize \in Nat BY DivBounds
<1>3. j * BufSize \in Nat /\ (j + 1) * BufSize \in Nat /\ (j + 1) * BufSize = j * BufSize + BufSize
    OBVIOUS
<1>4. size + BufSize - 1 \in Nat OBVIOUS
<1>5. (size + BufSize - 1) \div BufSize \in Nat BY <1>4, DivBounds
<1>6. (size \div BufSize) * BufSize <= size BY DivBounds
<1>7. (size \div BufSize) * BufSize <= size + BufSize - 1
    <2>1. (size \div BufSize) * BufSize \in Int BY <1>2
    <2> QED BY <1>6, <2>1
<1>8. size \div BufSize <= (size + BufSize - 1) \div BufSize BY <1>2, <1>4, <1>7, DivFits
<1>9. ReadCnt(j) \in 0 .. BufSize BY <1>3 DEF ReadCnt
<1>10. ReadCnt(j) < BufSize <=> j + 3 >= LastSeq
    <2>1. ReadCnt(j) < BufSize <=> ~ ((j + 1) * BufSize <= size) BY <1>3 DEF ReadCnt
    <2> QED BY <1>1, <1>2, <2>1 DEF LastSeq
<1> QED BY <1>2, <1>5, <1>8, <1>9, <1>10 DEF LastSeq, ChunkCnt

(* Writing chunk k after k chunks, of which some bytes were missing, makes  *)
(* k + 1 chunks; when no bytes are missing any more these are all chunks.   *)
LEMMA WriteChunk ==
    ASSUME size \in Nat, NEW k \in Nat, Written(k) < size
    PROVE  /\ Written(k) + ReadCnt(k) = Written(k + 1)
           /\ Written(k + 1) \in 0 .. size
           /\ k + 1 <= ChunkCnt
           /\ Written(k + 1) < size => k + 1 < ChunkCnt /\ k + 4 <= LastSeq
           /\ ~ (Written(k + 1) < size) => k + 1 = ChunkCnt /\ Written(k + 1) = size
<1> USE TransferAssumption
<1>1. k * BufSize \in Nat /\ (k + 1) * BufSize = k * BufSize + BufSize OBVIOUS
<1>2. k * BufSize < size BY <1>1 DEF Written
<1>3. Written(k) = k * BufSize BY <1>1, <1>2 DEF Written
<1>4. Written(k) + ReadCnt(k) = Written(k + 1) /\ Written(k + 1) \in 0 .. size
    BY <1>1, <1>2, <1>3 DEF Written, ReadCnt
<1>5. size + BufSize - 1 \in Nat /\ (size + BufSize - 1) \div BufSize \in Nat BY DivBounds
<1>6. (k + 2) * BufSize = k * BufSize + BufSize + BufSize OBVIOUS
<1>7. k + 1 <= ChunkCnt
    <2>1. (k + 1) * BufSize <= size + BufSize - 1 BY <1>1, <1>2
    <2> QED BY <1>5, <2>1, DivFits DEF ChunkCnt
<1>8. ASSUME Written(k + 1) < size PROVE k + 1 < ChunkCnt /\ k + 4 <= LastSeq
    <2>1. (k + 1) * BufSize < size BY <1>1, <1>8 DEF Written
    <2>2. (k + 2) * BufSize <= size + BufSize - 1 BY <1>1, <1>6, <2>1
    <2>3. k + 2 <= ChunkCnt BY <1>5, <2>2, DivFits DEF ChunkCnt
    <2>4. k + 1 <= size \div BufSize BY <1>1, <2>1, DivFits
    <2> QED BY <1>5, <2>3, <2>4, DivBounds DEF LastSeq, ChunkCnt
<1>9. ASSUME ~ (Written(k + 1) < size) PROVE k + 1 = ChunkCnt /\ Written(k + 1) = size
    <2>1. Written(k + 1) = size BY <1>4, <1>9
    <2>2. ~ ((k + 2) * BufSize <= size + BufSize - 1)
        BY <1>1, <1>6, <2>1 DEF Written
    <2>3. ~ (k + 2 <= ChunkCnt) BY <1>5, <2>2, DivFits DEF ChunkCnt
    <2> QED BY <1>5, <1>7, <2>1, <2>3 DEF ChunkCnt
<1> QED BY <1>4, <1>7, <1>8, <1>9

------------------------------------------------------------------------------
(* The invariant.                                                           *)

\* The chunk that packet s carries.
ChunkOf(s) == IF s >= 3 THEN s - 3 ELSE -1

PacketsHold ==
    /\ chunk = ChunkOf(seq)
    /\ \A p \in pkts : p.seq <= seq /\ p.chunk = ChunkOf(p.seq)

ClientHolds ==
    /\ cpc = "sync" => num = 1 /\ out = << >>
    /\ cpc = "meta" => num = 2 /\ out = << >>
    /\ cpc = "data" => /\ num \in 3 .. LastSeq /\ Len(out) = num - 3
                       /\ file_size = size /\ total < size
    /\ cpc = "closed" => num >= 3 /\ total = size /\ Len(out) = ChunkCnt

AcksHold ==
    ~ skipped => /\ \A v \in acks : v < num
                 /\ seq >= 2 => seq_check < num

Inv ==
    /\ TypeOK /\ PacketsHold /\ ClientHolds /\ FileIsPrefix /\ AcksHold
    /\ InStep /\ EndMeansReceived

LEMMA InvInit == Init => Inv
<1> SUFFICES ASSUME Init PROVE Inv OBVIOUS
<1> USE TransferAssumption DEF Init
<1>1. size \in Nat OBVIOUS
<1>2. LastSeq \in Nat /\ LastSeq >= 3 /\ ChunkCnt \in Nat BY <1>1, FullChunks
<1>3. Written(0) = 0 BY <1>1 DEF Written
<1>4. TypeOK
    <2>1. out \in Seq(Nat) /\ file_size \in {0, size} /\ total \in 0 .. size BY <1>1
    <2>2. seq \in Seqs /\ num \in 1 .. LastSeq + 1 /\ chunk \in -1 .. ChunkCnt
        BY <1>2 DEF Seqs
    <2> QED BY <2>1, <2>2 DEF TypeOK
<1>5. FileIsPrefix BY <1>3 DEF FileIsPrefix
<1> QED BY <1>4, <1>5 DEF Inv, PacketsHold, ClientHolds, AcksHold, InStep, EndMeansReceived, ChunkOf

\* What the types say once the constants are known to be numbers.
LEMMA Numbers ==
    ASSUME TypeOK
    PROVE  /\ size \in Nat /\ LastSeq \in Nat /\ LastSeq >= 3 /\ ChunkCnt \in Nat
           /\ seq \in Nat /\ num \in Nat /\ seq_check \in Nat /\ chunk \in Int
           /\ \A v \in Seqs : v \in Nat
           /\ \A p \in Packets : p.seq \in Seqs /\ p.chunk \in -1 .. ChunkCnt
<1>1. size \in Nat BY TransferAssumption DEF TypeOK
<1>2. LastSeq \in Nat /\ LastSeq >= 3 /\ ChunkCnt \in Nat BY <1>1, FullChunks
<1> QED BY <1>1, <1>2, TransferAssumption DEF TypeOK, Seqs, Packets

\* The derived values do not change: they depend on the size alone.
LEMMA SizeFixed ==
    ASSUME size' = size
    PROVE  /\ LastSeq' = LastSeq /\ ChunkCnt' = ChunkCnt
           /\ Seqs' = Seqs /\ Packets' = Packets
           /\ \A k : Written(k)' = Written(k)
BY DEF LastSeq, ChunkCnt, Seqs, Packets, Written

LEMMA InvStart == ASSUME Inv, ReceiveStart PROVE Inv'
<1> USE DEF Inv, ReceiveStart, clientVars
<1>1. size' = size OBVIOUS
<1>2. TypeOK' BY <1>1, SizeFixed, TransferAssumption DEF TypeOK
<1>3. FileIsPrefix' BY <1>1, SizeFixed DEF FileIsPrefix
<1>4. ClientHolds' BY <1>1, SizeFixed DEF ClientHolds
<1> QED BY <1>2, <1>3, <1>4 DEF PacketsHold, AcksHold, InStep, EndMeansReceived

LEMMA InvSend == ASSUME Inv, Send PROVE Inv'
<1> USE DEF Inv, Send, clientVars
<1>1. size' = size OBVIOUS
<1>2. pkts' \subseteq pkts \cup {Packet} BY DEF Sent
<1>3. Packet \in Packets /\ Packet.seq = seq /\ Packet.chunk = chunk
    BY DEF Packet, Packets, TypeOK
<1>4. TypeOK' BY <1>1, <1>2, <1>3, SizeFixed DEF TypeOK
<1>5. FileIsPrefix' BY <1>1, SizeFixed DEF FileIsPrefix
<1>6. ClientHolds' BY <1>1, SizeFixed DEF ClientHolds
<1>7. PacketsHold' BY <1>2, <1>3, Numbers DEF PacketsHold
<1> QED BY <1>4, <1>5, <1>6, <1>7 DEF AcksHold, InStep, EndMeansReceived

(* seq_check holds v: when nothing was skipped and the first packet is      *)
(* behind, v is of a packet the client has taken.                           *)
LEMMA InvCheck ==
    ASSUME Inv, NEW v \in Garbage \cup Seqs, Check(v), spc = "poll",
           seq >= 2 /\ ~ skipped => v < num,
           UNCHANGED <<size, clientVars, pkts>>,
           acks' \subseteq acks, starts' \in BOOLEAN
    PROVE  Inv'
<1> USE DEF Inv, Check, clientVars
<1>1. /\ size' = size /\ cpc' = cpc /\ num' = num /\ file_size' = file_size
      /\ total' = total /\ out' = out /\ pkts' = pkts
    OBVIOUS
<1>2. /\ size \in Nat /\ LastSeq >= 3 /\ LastSeq \in Nat /\ ChunkCnt \in Nat
      /\ seq \in 1 .. LastSeq /\ num \in Nat /\ v \in Nat
    BY Numbers, TransferAssumption DEF TypeOK, Seqs
<1>3. FileIsPrefix' BY <1>1, SizeFixed DEF FileIsPrefix
<1>4. ClientHolds' BY <1>1, SizeFixed DEF ClientHolds
<1>5. IsLast => seq = LastSeq
    BY <1>2, FullChunks DEF IsLast, PacketsHold, ChunkOf
<1>6. ~ IsLast => seq < LastSeq /\ (seq >= 3 => chunk + 1 <= ChunkCnt)
    <2>1. CASE seq < 3 BY <1>2, <2>1
    <2>2. CASE seq >= 3
        <3>1. chunk = seq - 3 /\ chunk \in Nat BY <1>2, <2>2 DEF PacketsHold, ChunkOf
        <3>2. ~ IsLast => ~ (seq >= LastSeq) BY <1>2, <3>1, FullChunks DEF IsLast
        <3>3. LastSeq - 3 <= ChunkCnt BY <1>2, FullChunks
        <3> QED BY <1>2, <3>1, <3>2, <3>3
    <2> QED BY <1>2, <2>1, <2>2
<1>7. /\ seq' \in Seqs /\ seq <= seq' /\ chunk' = ChunkOf(seq')
      /\ chunk' \in -1 .. ChunkCnt
    <2>1. CASE Acked(v) /\ ~ IsLast
        BY <1>2, <1>6, <2>1 DEF Loaded, PacketsHold, ChunkOf, Seqs, Acked
    <2>2. CASE ~ (Acked(v) /\ ~ IsLast)
        BY <1>2, <2>2 DEF Loaded, PacketsHold, TypeOK
    <2> QED BY <2>1, <2>2
<1>8. TypeOK'
    <2>1. pkts' \subseteq Packets' /\ acks' \subseteq Seqs' BY <1>1, SizeFixed DEF TypeOK
    <2>2. seq' \in Seqs' /\ chunk' \in -1 .. ChunkCnt' /\ seq_check' \in Garbage \cup Seqs'
        BY <1>1, <1>7, SizeFixed
    <2>3. spc' \in {"send", "done"} /\ skipped' \in BOOLEAN
        BY DEF TypeOK
    <2> QED BY <1>1, <2>1, <2>2, <2>3, SizeFixed DEF TypeOK
<1>9. PacketsHold'
    <2>1. \A p \in pkts : p.seq \in Nat BY Numbers DEF TypeOK
    <2> QED BY <1>1, <1>2, <1>7, <2>1 DEF PacketsHold, Seqs
<1>10. ASSUME ~ skipped'
       PROVE  /\ ~ skipped
              /\ Acked(v) => cpc # "sync" /\ seq < num /\ v < num
              /\ v >= num => seq' = 1
    <2>1. ~ skipped /\ (Acked(v) => cpc # "sync") BY <1>10 DEF TypeOK
    <2>2. cpc # "sync" => num >= 2 BY <1>2 DEF ClientHolds, TypeOK
    <2>3. ASSUME Acked(v) PROVE cpc # "sync" /\ seq < num /\ v < num
        BY <1>2, <2>1, <2>2, <2>3 DEF Acked
    <2>4. ~ Acked(v) => seq' = seq OBVIOUS
    <2>5. seq >= 2 => v < num BY <2>1
    <2> QED BY <1>2, <2>1, <2>3, <2>4, <2>5
<1>11. InStep'
    <2>1. seq' = seq \/ (Acked(v) /\ seq' = seq + 1) OBVIOUS
    <2> QED BY <1>1, <1>2, <1>10, <2>1 DEF InStep
<1>12. AcksHold'
    <2>1. \A w \in acks : w \in Nat BY Numbers DEF TypeOK
    <2> QED BY <1>1, <1>2, <1>10, <2>1 DEF AcksHold
<1>13. EndMeansReceived'
    <2> SUFFICES ASSUME spc' = "done", ~ skipped' PROVE cpc' = "closed"
        BY DEF EndMeansReceived
    <2>1. Acked(v) /\ IsLast OBVIOUS
    <2>2. seq = LastSeq /\ seq < num BY <1>5, <1>10, <2>1
    <2> QED BY <1>1, <1>2, <2>2 DEF ClientHolds, TypeOK
<1> QED BY <1>3, <1>4, <1>8, <1>9, <1>11, <1>12, <1>13

LEMMA InvPoll == ASSUME Inv, Poll PROVE Inv'
<1> USE DEF Inv
<1>1. ASSUME NEW v \in Seqs, PollAck(v) PROVE Inv'
    <2>1. acks' \subseteq acks BY <1>1 DEF PollAck, Received
    <2>2. starts' \in BOOLEAN BY <1>1 DEF PollAck, TypeOK
    <2>3. seq >= 2 /\ ~ skipped => v < num BY <1>1 DEF PollAck, AcksHold
    <2> QED BY <1>1, <2>1, <2>2, <2>3, InvCheck DEF PollAck
<1>2. ASSUME PollStart PROVE Inv'
    <2>1. 1 \in Seqs BY Numbers DEF Seqs
    <2>2. seq >= 2 /\ ~ skipped => 1 < num BY Numbers DEF InStep
    <2> QED BY <1>2, <2>1, <2>2, InvCheck DEF PollStart
<1>3. ASSUME PollNothing PROVE Inv'
    <2>1. seq_check \in Garbage \cup Seqs BY DEF TypeOK
    <2>2. seq >= 2 /\ ~ skipped => seq_check < num BY DEF AcksHold
    <2>3. starts' \in BOOLEAN BY <1>3 DEF PollNothing, TypeOK
    <2> QED BY <1>3, <2>1, <2>2, <2>3, InvCheck DEF PollNothing
<1> QED BY <1>1, <1>2, <1>3 DEF Poll

------------------------------------------------------------------------------
(* The client's steps.                                                      *)

(* A client step that keeps its own facts and increases num by one at most, *)
(* when packet num has arrived, keeps the others.                           *)
LEMMA InvAnswer ==
    ASSUME Inv, NEW p \in Packets, Answer(p), UNCHANGED <<serverVars, starts>>,
           \/ p.seq # num /\ num' = num
           \/ p.seq = num /\ num' = num + 1,
           cpc = "closed" => cpc' = "closed",
           cpc' \in {"sync", "meta", "data", "closed"},
           file_size' \in {0, size}, total' \in 0 .. size, out' \in Seq(Nat),
           num' \in 1 .. LastSeq + 1,
           ClientHolds', FileIsPrefix'
    PROVE  Inv'
<1> USE DEF Inv, serverVars
<1>1. /\ size' = size /\ spc' = spc /\ seq' = seq /\ chunk' = chunk
      /\ seq_check' = seq_check /\ skipped' = skipped /\ starts' = starts
    OBVIOUS
<1>2. pkts' \subseteq pkts /\ acks' \subseteq acks \cup {p.seq} /\ p \in pkts
    BY DEF Answer, Sent, Received
<1>3. p.seq \in Seqs /\ p.seq <= seq /\ p.seq \in Nat /\ num \in Nat /\ seq \in Nat
    BY <1>2, Numbers DEF PacketsHold
<1>4. TypeOK' BY <1>1, <1>2, <1>3, SizeFixed DEF TypeOK
<1>5. PacketsHold' BY <1>1, <1>2 DEF PacketsHold
<1>6. \A v \in acks : v \in Nat BY Numbers DEF TypeOK
<1>7. seq_check \in Nat BY Numbers
<1>8. AcksHold' BY <1>1, <1>2, <1>3, <1>6, <1>7 DEF AcksHold, InStep
<1>9. InStep'
    <2> SUFFICES ASSUME ~ skipped' PROVE num' - 1 <= seq' /\ seq' <= num' BY DEF InStep
    <2>1. num - 1 <= seq /\ seq <= num
        <3>1. ~ skipped BY <1>1
        <3> QED BY <3>1 DEF InStep
    <2>2. num' = num \/ (num' = num + 1 /\ num <= seq) BY <1>3
    <2>3. CASE num' = num BY <1>1, <2>1, <2>3
    <2>4. CASE num' = num + 1 /\ num <= seq
        <3>1. num' - 1 = num BY <1>3, <2>4
        <3>2. seq <= num + 1 BY <1>3, <2>1
        <3> QED BY <1>1, <2>4, <3>1, <3>2
    <2> QED BY <2>2, <2>3, <2>4
<1>10. EndMeansReceived' BY <1>1 DEF EndMeansReceived
<1> QED BY <1>4, <1>5, <1>8, <1>9, <1>10

LEMMA InvClient == ASSUME Inv, NEW p \in Packets, Client(p) PROVE Inv'
<1> USE DEF Inv, clientVars
<1>1. /\ size \in Nat /\ LastSeq \in Nat /\ LastSeq >= 3 /\ ChunkCnt \in Nat
      /\ num \in Nat /\ p.seq \in 1 .. LastSeq
    BY Numbers DEF Seqs
<1>2. CASE Unexpected(p)
    <2>1. size' = size BY <1>2 DEF Unexpected, serverVars
    <2>2. ClientHolds' BY <1>2, <2>1, SizeFixed DEF Unexpected, ClientHolds
    <2>3. FileIsPrefix' BY <1>2, <2>1, SizeFixed DEF Unexpected, FileIsPrefix
    <2> QED BY <1>2, <2>2, <2>3, InvAnswer DEF Unexpected, TypeOK
<1>3. CASE Sync(p)
    <2>1. size' = size BY <1>3 DEF Sync, serverVars
    <2>2. num' = num + 1 /\ num' = 2 /\ out = << >>
        BY <1>3 DEF Sync, NextNum, ClientHolds
    <2>3. ClientHolds' BY <1>3, <2>1, <2>2, SizeFixed DEF Sync, ClientHolds
    <2>4. FileIsPrefix' BY <1>3, <2>1, SizeFixed DEF Sync, FileIsPrefix
    <2> QED BY <1>1, <1>3, <2>2, <2>3, <2>4, InvAnswer DEF Sync, TypeOK
<1>4. CASE Metadata(p)
    <2>1. size' = size BY <1>4 DEF Metadata, serverVars
    <2>2. num' = num + 1 /\ num' = 3 /\ out = << >>
        BY <1>4 DEF Metadata, NextNum, ClientHolds
    <2>3. Written(0) = 0 /\ total = 0
        BY <1>1, <2>2, TransferAssumption DEF Written, FileIsPrefix
    <2>4. size = 0 => ChunkCnt = 0 BY TransferAssumption DEF ChunkCnt
    <2>5. ClientHolds'
        BY <1>1, <1>4, <2>1, <2>2, <2>3, <2>4, SizeFixed DEF Metadata, ClientHolds, More
    <2>6. FileIsPrefix' BY <1>4, <2>1, SizeFixed DEF Metadata, FileIsPrefix
    <2> QED BY <1>1, <1>4, <2>2, <2>5, <2>6, InvAnswer DEF Metadata, TypeOK, More
<1>5. CASE Chunk(p)
    <2> DEFINE k == Len(out)
    <2>1. size' = size BY <1>5 DEF Chunk, serverVars
    <2>2. /\ num' = num + 1 /\ num = k + 3 /\ k \in Nat /\ num \in 3 .. LastSeq
          /\ file_size = size /\ total < size /\ total = Written(k)
        BY <1>5 DEF Chunk, NextNum, ClientHolds, FileIsPrefix, TypeOK
    <2>3. p \in pkts /\ p.chunk = k
        BY <1>1, <1>5, <2>2 DEF Chunk, Answer, PacketsHold, ChunkOf
    <2>4. out' = Append(out, k) /\ out \in Seq(Nat) BY <1>5, <2>3 DEF Chunk, TypeOK
    <2>5. out' \in Seq(Nat) /\ Len(out') = k + 1 BY <2>2, <2>4
    <2>6. total' = Written(k + 1) /\ Written(k + 1) \in 0 .. size
        BY <1>1, <1>5, <2>2, <2>3, WriteChunk DEF Chunk
    <2>7. /\ Written(k + 1) < size => k + 1 < ChunkCnt /\ k + 4 <= LastSeq
          /\ ~ (Written(k + 1) < size) => k + 1 = ChunkCnt /\ Written(k + 1) = size
        BY <1>1, <2>2, WriteChunk
    <2>8. cpc' = IF Written(k + 1) < size THEN "data" ELSE "closed"
        BY <1>5, <2>2, <2>6 DEF Chunk, More
    <2>9. ClientHolds'
        <3>1. file_size' = size BY <1>5, <2>2 DEF Chunk
        <3> HIDE DEF k
        <3> QED BY <1>1, <2>1, <2>2, <2>5, <2>6, <2>7, <2>8, <3>1, SizeFixed DEF ClientHolds
    <2>10. FileIsPrefix'
        <3>1. \A j \in 1 .. k + 1 : out'[j] = j - 1
            BY <2>2, <2>4 DEF FileIsPrefix
        <3> QED BY <2>1, <2>5, <2>6, <3>1, SizeFixed DEF FileIsPrefix
    <2>11. cpc' \in {"sync", "meta", "data", "closed"} BY <2>8
    <2>12. num' \in 1 .. LastSeq + 1 BY <1>1, <2>2
    <2> QED BY <1>5, <2>1, <2>2, <2>5, <2>6, <2>9, <2>10, <2>11, <2>12, InvAnswer DEF Chunk, TypeOK
<1> QED BY <1>2, <1>3, <1>4, <1>5 DEF Client

LEMMA InvNext == Inv /\ [Next]_vars => Inv'
<1> SUFFICES ASSUME Inv, [Next]_vars PROVE Inv' OBVIOUS
<1>1. CASE Next BY <1>1, InvStart, InvSend, InvPoll, InvClient DEF Next
<1>2. CASE UNCHANGED vars
    <2>1. size' = size BY <1>2 DEF vars
    <2> QED BY <1>2, <2>1, SizeFixed
            DEF vars, Inv, TypeOK, PacketsHold, ClientHolds, FileIsPrefix, AcksHold,
                InStep, EndMeansReceived
<1> QED BY <1>1, <1>2

LEMMA Invariance == Spec => []Inv
BY InvInit, InvNext, PTL DEF Spec

(* For every size of file and buffer the counters, the packets under way    *)
(* and the bytes written stay in the ranges their declarations give them.   *)
THEOREM TypeCorrect == Spec => []TypeOK
<1>1. Inv => TypeOK BY DEF Inv
<1> QED BY <1>1, Invariance, PTL

(* For every size of file and buffer the client's file is a prefix of the   *)
(* server's, and neither side counts past the last packet.                  *)
THEOREM PrefixAlways == Spec => [](TypeOK /\ FileIsPrefix)
<1>1. Inv => TypeOK /\ FileIsPrefix BY DEF Inv
<1> QED BY <1>1, Invariance, PTL

(* A closed file is complete: the size the client counts to and the packet  *)
(* it ends with agree for every size, multiples of the buffer included.     *)
THEOREM CompleteWhenClosed == Spec => []ClosedIsComplete
<1>1. Inv => ClosedIsComplete BY DEF Inv, ClientHolds, ClosedIsComplete
<1> QED BY <1>1, Invariance, PTL

(* Server and client stay in step, and the server's end means that the file *)
(* was received, unless it skipped the client's first answer.               *)
THEOREM EndIsEarned == Spec => [](InStep /\ EndMeansReceived)
<1>1. Inv => InStep /\ EndMeansReceived BY DEF Inv
<1> QED BY <1>1, Invariance, PTL

------------------------------------------------------------------------------
(* Every step is one of FileDelivery's or changes nothing it sees.          *)

LEMMA RefineInit == Init => Delivery!DeliveryInit
<1> SUFFICES ASSUME Init PROVE Delivery!DeliveryInit OBVIOUS
<1>1. ChunkCnt \in Nat BY TransferAssumption, FullChunks DEF Init
<1> QED BY <1>1 DEF Init, Delivery!DeliveryInit

\* The steps FileDelivery does not see.
LEMMA RefineStutter ==
    ASSUME size' = size, out' = out, skipped' = skipped,
           cpc' = "closed" <=> cpc = "closed", spc' = "done" <=> spc = "done"
    PROVE  UNCHANGED Delivery!deliveryVars
<1>1. ChunkCnt' = ChunkCnt BY SizeFixed
<1>2. (cpc = "closed")' = (cpc = "closed") /\ (spc = "done")' = (spc = "done") OBVIOUS
<1> QED BY <1>1, <1>2 DEF Delivery!deliveryVars

LEMMA RefinePoll ==
    ASSUME Inv, Inv', Poll
    PROVE  [Delivery!DeliveryNext]_Delivery!deliveryVars
<1>1. PICK v : Check(v) BY DEF Poll, PollAck, PollStart, PollNothing
<1>2. /\ size' = size /\ out' = out /\ cpc' = cpc /\ spc = "poll"
    BY DEF Poll, PollAck, PollStart, PollNothing, clientVars
<1>3. ChunkCnt' = ChunkCnt BY <1>2, SizeFixed
<1>4. CASE spc' = "done"
    <2>1. Acked(v) /\ IsLast /\ seq' = seq BY <1>1, <1>4 DEF Check
    <2>2. seq >= 3 BY <2>1, Numbers DEF IsLast, Inv, PacketsHold, ChunkOf
    <2>3. cpc = "sync" => skipped BY <2>2, Numbers DEF Inv, InStep, ClientHolds
    <2>4. skipped' = skipped BY <1>1, <2>3 DEF Check, Inv, TypeOK
    <2>5. cpc = "closed" \/ skipped BY <1>2, <1>4, <2>4 DEF Inv, EndMeansReceived
    <2>6. Delivery!End BY <1>2, <1>3, <1>4, <2>4, <2>5 DEF Delivery!End
    <2> QED BY <2>6 DEF Delivery!DeliveryNext
<1>5. CASE spc' # "done" /\ skipped' = skipped
    BY <1>2, <1>5, RefineStutter
<1>6. CASE spc' # "done" /\ skipped' # skipped
    <2>1. skipped' = TRUE /\ cpc = "sync" BY <1>1, <1>6 DEF Check, Inv, TypeOK
    <2>2. Delivery!Skip
        BY <1>2, <1>3, <1>6, <2>1 DEF Delivery!Skip, Inv, ClientHolds
    <2> QED BY <2>2 DEF Delivery!DeliveryNext
<1> QED BY <1>4, <1>5, <1>6

LEMMA RefineClient ==
    ASSUME Inv, Inv', NEW p \in Packets, Client(p)
    PROVE  [Delivery!DeliveryNext]_Delivery!deliveryVars
<1>1. size' = size /\ spc' = spc /\ skipped' = skipped
    BY DEF Client, Unexpected, Sync, Metadata, Chunk, serverVars
<1>2. ChunkCnt' = ChunkCnt BY <1>1, SizeFixed
<1>3. CASE Unexpected(p) BY <1>1, <1>3, RefineStutter DEF Unexpected, clientVars
<1>4. CASE Sync(p) BY <1>1, <1>4, RefineStutter DEF Sync
<1>5. CASE Metadata(p)
    <2>1. CASE More(0, size) BY <1>1, <1>5, <2>1, RefineStutter DEF Metadata
    <2>2. CASE ~ More(0, size)
        <3>1. size = 0 BY <2>2, Numbers DEF More, Inv
        <3>2. ChunkCnt = 0 BY <3>1, TransferAssumption DEF ChunkCnt
        <3>3. out' = out /\ cpc = "meta" /\ cpc' = "closed" BY <1>5, <2>2 DEF Metadata
        <3>4. Delivery!Empty BY <1>1, <1>2, <3>2, <3>3 DEF Delivery!Empty
        <3> QED BY <3>4 DEF Delivery!DeliveryNext
    <2> QED BY <2>1, <2>2
<1>6. CASE Chunk(p)
    <2> DEFINE k == Len(out)
    <2>1. /\ cpc = "data" /\ num = k + 3 /\ k \in Nat /\ p.seq = num /\ num >= 3
          /\ file_size = size /\ total < size /\ total = Written(k)
        BY <1>6 DEF Chunk, Inv, ClientHolds, FileIsPrefix, TypeOK
    <2>2. p.chunk = k
        BY <1>6, <2>1 DEF Chunk, Answer, Inv, PacketsHold, ChunkOf
    <2>3. out' = Append(out, k) /\ Len(out') = k + 1
        BY <1>6, <2>1, <2>2 DEF Chunk, Inv, TypeOK
    <2>4. size \in Nat BY Numbers DEF Inv
    <2>5. total' = Written(k + 1)
        BY <1>6, <2>1, <2>2, <2>4, WriteChunk DEF Chunk
    <2>6. k + 1 <= ChunkCnt /\ (Written(k + 1) < size <=> k + 1 # ChunkCnt)
        BY <2>1, <2>4, WriteChunk, Numbers DEF Inv
    <2>7. cpc' = IF Written(k + 1) < size THEN "data" ELSE "closed"
        BY <1>6, <2>1, <2>5 DEF Chunk, More
    <2>8. (cpc' = "closed") = (Len(out') = ChunkCnt) BY <2>3, <2>6, <2>7
    <2>9. k < ChunkCnt BY <2>1, <2>6, Numbers DEF Inv
    <2>10. Delivery!Write
        BY <1>1, <1>2, <2>1, <2>3, <2>8, <2>9 DEF Delivery!Write
    <2> QED BY <2>10 DEF Delivery!DeliveryNext
<1> QED BY <1>3, <1>4, <1>5, <1>6 DEF Client

LEMMA RefineNext ==
    Inv /\ Inv' /\ [Next]_vars => [Delivery!DeliveryNext]_Delivery!deliveryVars
<1> SUFFICES ASSUME Inv, Inv', [Next]_vars
             PROVE  [Delivery!DeliveryNext]_Delivery!deliveryVars
    OBVIOUS
<1>1. CASE ReceiveStart BY <1>1, RefineStutter DEF ReceiveStart, clientVars
<1>2. CASE Send BY <1>2, RefineStutter DEF Send, clientVars
<1>3. CASE Poll BY <1>3, RefinePoll
<1>4. CASE \E p \in Packets : Client(p) BY <1>4, RefineClient
<1>5. CASE UNCHANGED vars BY <1>5, RefineStutter DEF vars
<1> QED BY <1>1, <1>2, <1>3, <1>4, <1>5 DEF Next

(* For every size of file and buffer the two programs and the network       *)
(* between them implement FileDelivery.                                     *)
THEOREM TransferDelivers == Spec => Delivers
BY RefineInit, RefineNext, Invariance, PTL DEF Spec, Delivers, Delivery!DeliverySpec
===============================================================================
