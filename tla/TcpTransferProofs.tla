-------------------------- MODULE TcpTransferProofs --------------------------
(***************************************************************************)
(* Proofs about TcpTransfer: its types, that a timeout sends what was not  *)
(* acknowledged unless an earlier one came too early, and that the pair is *)
(* a windowed transfer with a window of one packet.                        *)
(***************************************************************************)
EXTENDS TcpTransfer, SequenceTheorems, TLAPS

(* The two programs are at most one packet apart. *)
Positions ==
    /\ nextSeq = Len(written)
    /\ state = 0 => nextSeq = Sent
    /\ state = 1 => lastseq + 1 = Sent /\ nextSeq \in {lastseq, Sent}

(* A packet the server may still take has the data of its place.  *)
Genuine(p) ==
    /\ p.seq_no < Sent
    /\ p.seq_no >= nextSeq => p.payload = Chunk(p.seq_no + 1)

InTransit ==
    /\ \A i \in 1..Len(dataQ) : Genuine(dataQ[i])
    /\ \A i \in 1..Len(ackQ) : ackQ[i].seq_no < nextSeq

(* *pkt of a waiting client may have been overwritten, but not with the    *)
(* acknowledgement it waits for; *pkt of the server names no packet that   *)
(* was not sent, unless nothing was.                                       *)
Memory ==
    /\ state = 1 => /\ pkt.seq_no < Sent
                    /\ pkt.seq_no = lastseq => pkt.payload = Chunk(lastseq + 1)
    /\ lastPkt.seq_no < Sent \/ lastPkt.seq_no = 0

(* The client does not end before it has sent something, nor while it      *)
(* waits, and only its end closes the connection.                          *)
Ending ==
    /\ fp = "NULL" => Sent >= 1
    /\ client = "ended" => state = 0 /\ Sent >= 1
    /\ connection # "open" => client = "ended"

Agreement == Positions /\ InTransit /\ Memory /\ Ending

(* In step, one packet or one acknowledgement is under way at a time.  *)
InStep ==
    ~early =>
        /\ state = 0 => dataQ = <<>> /\ ackQ = <<>>
        /\ state = 1 => /\ pkt = DataPacket(lastseq)
                        /\ \/ dataQ = <<>> /\ Len(ackQ) <= 1
                           \/ ackQ = <<>> /\ Len(dataQ) <= 1
        /\ \A i \in 1..Len(dataQ) : dataQ[i].seq_no = lastseq
        /\ \A i \in 1..Len(ackQ) : ackQ[i].seq_no = lastseq

-----------------------------------------------------------------------------
(* What recv() does to a queue. *)
LEMMA QueueTail ==
    ASSUME NEW q \in Seq(Packet), q # <<>>
    PROVE  /\ Head(q) \in Packet /\ Head(q) = q[1] /\ 1 \in 1..Len(q)
           /\ Tail(q) \in Seq(Packet) /\ Len(Tail(q)) = Len(q) - 1
           /\ \A i \in 1..Len(Tail(q)) : i + 1 \in 1..Len(q) /\ Tail(q)[i] = q[i + 1]
  OBVIOUS

(* What send() does to a queue. *)
LEMMA QueueAppend ==
    ASSUME NEW q \in Seq(Packet), NEW p \in Packet
    PROVE  /\ Append(q, p) \in Seq(Packet)
           /\ Len(Append(q, p)) = Len(q) + 1
           /\ \A i \in 1..Len(Append(q, p)) :
                 (i \in 1..Len(q) /\ Append(q, p)[i] = q[i])
                 \/ (i = Len(q) + 1 /\ Append(q, p)[i] = p)
  OBVIOUS

(* The data of a packet is a chunk of the file or nothing. *)
LEMMA ChunkType == \A i \in Nat : Chunk(i) \in 0..NumChunks /\ Chunk(i) \in 0..Unassigned
  BY InputAssumption DEF Chunk, Empty, Unassigned

(* A packet with the data of its place is a packet. *)
LEMMA DataPacketType ==
    \A n \in Nat : /\ DataPacket(n) \in Packet
                   /\ DataPacket(n).seq_no = n
                   /\ DataPacket(n).payload = Chunk(n + 1)
  BY ChunkType DEF DataPacket, Packet

(* What a packet's fields hold. *)
LEMMA PacketFields ==
    ASSUME NEW p \in Packet
    PROVE  p.seq_no \in Nat /\ p.payload \in 0..Unassigned
  BY DEF Packet

(* A packet is made of its two fields. *)
LEMMA PacketIsDataPacket ==
    ASSUME NEW p \in Packet, NEW n \in Nat, p.seq_no = n, p.payload = Chunk(n + 1)
    PROVE  p = DataPacket(n)
  BY DEF Packet, DataPacket

(* compute() advances the position in the file by one packet.  *)
LEMMA ReadInputFacts ==
    ASSUME TypeOK, ReadInput
    PROVE  /\ bufFirst' \in Nat /\ currseq' \in 0 .. PacketsPerBuffer - 1
           /\ fp' \in {"open", "NULL"}
           /\ Sent \in Nat /\ Sent' = Sent + 1
<1>1. /\ bufFirst \in Nat /\ currseq \in 0 .. PacketsPerBuffer - 1
      /\ fp \in {"open", "NULL"} /\ PacketsPerBuffer \in Nat \ {0}
  BY PacketsAssumption DEF TypeOK
<1>2. CASE EndOfBuffer
  BY <1>1, <1>2 DEF ReadInput, EndOfBuffer, Sent
<1>3. CASE ~EndOfBuffer
  BY <1>1, <1>3 DEF ReadInput, EndOfBuffer, Sent
<1> QED
  BY <1>2, <1>3

(* SendNext sends the packet that is next in the file. *)
LEMMA NextPacketFacts ==
    TypeOK => Sent \in Nat /\ NextPacket = DataPacket(Sent) /\ NextPacket \in Packet
<1> SUFFICES ASSUME TypeOK
             PROVE  Sent \in Nat /\ NextPacket = DataPacket(Sent) /\ NextPacket \in Packet
  OBVIOUS
<1>1. Sent \in Nat
  BY PacketsAssumption DEF TypeOK, Sent
<1>2. NextPacket = DataPacket(Sent)
  BY DEF NextPacket, DataPacket, Sent
<1> QED
  BY <1>1, <1>2, DataPacketType

(* What the server takes up is a packet. *)
LEMMA ReceivingType ==
    ASSUME TypeOK, Receiving
    PROVE  /\ lastPkt' \in Packet
           /\ dataQ' \in Seq(Packet) /\ Len(dataQ') <= Cap
<1>1. dataQ \in Seq(Packet) /\ Len(dataQ) <= Cap /\ lastPkt \in Packet /\ Cap \in Nat
  BY CapAssumption DEF TypeOK
<1>2. CASE dataQ # <<>> /\ dataQ' = Tail(dataQ) /\ lastPkt' = Head(dataQ)
  BY <1>1, <1>2, QueueTail
<1>3. CASE UNCHANGED <<dataQ, lastPkt>>
  BY <1>1, <1>3
<1> QED
  BY <1>2, <1>3 DEF Receiving

(* An acknowledgement is put behind the others, or nothing is any more,    *)
(* and only the client's end can have closed the connection.               *)
LEMMA SendAckFacts ==
    ASSUME TypeOK, SendAck, lastPkt' \in Packet, server = "running"
    PROVE  /\ ackQ' \in Seq(Packet) /\ Len(ackQ') <= Cap
           /\ \A i \in 1..Len(ackQ') :
                 \/ i \in 1..Len(ackQ) /\ ackQ'[i] = ackQ[i]
                 \/ ackQ'[i].seq_no = lastPkt'.seq_no
           /\ connection = "open" => Len(ackQ') = Len(ackQ) + 1
           /\ connection # "open" => ackQ' = ackQ
           /\ connection' \in Connection
           /\ connection' # "open" => connection # "open"
           /\ server' \in {"running", "send_failed"}
<1> DEFINE ack == [seq_no |-> lastPkt'.seq_no, payload |-> Unassigned]
<1>1. ack \in Packet /\ ack.seq_no = lastPkt'.seq_no
  BY PacketFields, InputAssumption DEF Packet, Unassigned
<1>2. ackQ \in Seq(Packet) /\ Len(ackQ) <= Cap /\ Cap \in Nat /\ connection \in Connection
  BY CapAssumption DEF TypeOK
<1>3. /\ connection' \in Connection
      /\ connection' # "open" => connection # "open"
  BY <1>2 DEF SendAck, AfterSend, Connection
<1>4. server' \in {"running", "send_failed"}
  BY DEF SendAck
<1> HIDE DEF ack
<1>5. CASE connection = "open"
  <2>1. Len(ackQ) < Cap /\ ackQ' = Append(ackQ, ack)
    BY <1>5 DEF SendAck, Arrives, AckNumber, ack
  <2> QED
    BY <1>1, <1>2, <1>3, <1>4, <1>5, <2>1, QueueAppend
<1>6. CASE connection # "open"
  <2>1. ackQ' = ackQ
    BY <1>6 DEF SendAck, Arrives
  <2> QED
    BY <1>2, <1>3, <1>4, <1>6, <2>1
<1> QED
  BY <1>5, <1>6

-----------------------------------------------------------------------------
(* Every step keeps the types. *)
LEMMA TypeStep == TypeOK /\ [Next]_vars => TypeOK'
<1> SUFFICES ASSUME TypeOK, [Next]_vars
             PROVE  TypeOK'
  OBVIOUS
<1>1. CASE SendNext
  <2>1. /\ ReadInput /\ pkt' = NextPacket /\ lastseq' = NextPacket.seq_no
        /\ dataQ' = Append(dataQ, NextPacket) /\ state' = 1 /\ Len(dataQ) < Cap
        /\ UNCHANGED <<client, early, serverVars, ackQ, connection>>
    BY <1>1 DEF SendNext
  <2>2. NextPacket \in Packet
    BY NextPacketFacts
  <2>3. dataQ' \in Seq(Packet) /\ Len(dataQ') <= Cap
    BY <2>1, <2>2, QueueAppend, CapAssumption DEF TypeOK
  <2>4. lastseq' \in Nat
    BY <2>1, <2>2, PacketFields
  <2> QED
    BY <2>1, <2>2, <2>3, <2>4, ReadInputFacts DEF TypeOK, serverVars
<1>2. CASE EndOfInput
  BY <1>2 DEF EndOfInput, TypeOK, serverVars, inputVars, AfterClose, Connection
<1>3. CASE Timeout
  <2>1. dataQ' \in Seq(Packet) /\ Len(dataQ') <= Cap
    BY <1>3, QueueAppend, CapAssumption DEF TypeOK, Timeout
  <2> QED
    BY <1>3, <2>1 DEF Timeout, TypeOK, serverVars, inputVars
<1>4. CASE ReceiveAck
  <2>1. ackQ # <<>> /\ pkt' = Head(ackQ) /\ ackQ' = Tail(ackQ)
    BY <1>4 DEF ReceiveAck
  <2>2. pkt' \in Packet /\ ackQ' \in Seq(Packet) /\ Len(ackQ') <= Cap
    BY <2>1, QueueTail, CapAssumption DEF TypeOK
  <2> QED
    BY <1>4, <2>2 DEF ReceiveAck, AfterAck, TypeOK, serverVars, inputVars
<1>5. CASE ReceiveFails
  BY <1>5 DEF ReceiveFails, TypeOK, clientVars, inputVars
<1>6. CASE DropPacket
  BY <1>6, ReceivingType DEF DropPacket, TypeOK, clientVars, inputVars
<1>7. CASE AcceptPacket
  <2>1. Receiving /\ SendAck /\ server = "running"
    BY <1>7 DEF AcceptPacket, Receiving
  <2>2. lastPkt' \in Packet
    BY <2>1, ReceivingType
  <2>3. written' \in Seq(0..Unassigned) /\ nextSeq' \in Nat
    <3>1. lastPkt'.payload \in 0..Unassigned
      BY <2>2, PacketFields
    <3> QED
      BY <1>7, <3>1 DEF AcceptPacket, TypeOK
  <2> QED
    BY <1>7, <2>1, <2>2, <2>3, ReceivingType, SendAckFacts
    DEF AcceptPacket, TypeOK, clientVars, inputVars
<1>8. CASE Reacknowledge
  <2>1. Receiving /\ SendAck /\ server = "running"
    BY <1>8 DEF Reacknowledge, Receiving
  <2>2. lastPkt' \in Packet
    BY <2>1, ReceivingType
  <2> QED
    BY <1>8, <2>1, <2>2, ReceivingType, SendAckFacts
    DEF Reacknowledge, TypeOK, clientVars, inputVars
<1>9. CASE UNCHANGED vars
  BY <1>9 DEF vars, clientVars, serverVars, inputVars, TypeOK
<1> QED
  BY <1>1, <1>2, <1>3, <1>4, <1>5, <1>6, <1>7, <1>8, <1>9 DEF Next, Client, Server

(* The variables always have their types (every field of packet.h and the  *)
(* state of both programs).                                                *)
THEOREM TypeCorrect == Spec => []TypeOK
<1>1. ASSUME Init
      PROVE  TypeOK
  <2>1. DataPacket(0) \in Packet
    BY DataPacketType
  <2>2. [seq_no |-> 0, payload |-> Unassigned] \in Packet
    BY InputAssumption DEF Packet, Unassigned
  <2>3. 0 \in 0 .. PacketsPerBuffer - 1 /\ Cap \in Nat
    BY PacketsAssumption, CapAssumption
  <2>4. <<>> \in Seq(Packet) /\ <<>> \in Seq(0..Unassigned) /\ Len(<<>>) <= Cap
    BY <2>3
  <2>5. /\ client = "running" /\ state = 0 /\ early = FALSE
        /\ pkt \in Packet /\ lastseq = 0 /\ lastPkt \in Packet
        /\ bufFirst = 0 /\ currseq = 0 /\ fp = "open"
        /\ server = "running" /\ nextSeq = 0
        /\ dataQ = <<>> /\ ackQ = <<>> /\ connection \in Connection
        /\ written = <<>>
    BY <1>1, <2>1, <2>2 DEF Init, Connection
  <2> QED
    BY <2>3, <2>4, <2>5 DEF TypeOK
<1> QED
  BY <1>1, TypeStep, PTL DEF Spec

-----------------------------------------------------------------------------
(* SendNext sends a packet the server has not, and it is the one it waits  *)
(* for.                                                                    *)
LEMMA SendNextStep == TypeOK /\ Agreement /\ SendNext => Agreement'
<1> SUFFICES ASSUME TypeOK, Agreement, SendNext
             PROVE  Agreement'
  OBVIOUS
<1>1. /\ client = "running" /\ state = 0 /\ state' = 1
      /\ pkt' = NextPacket /\ lastseq' = NextPacket.seq_no
      /\ dataQ' = Append(dataQ, NextPacket)
      /\ UNCHANGED <<client, server, lastPkt, nextSeq, written, ackQ, connection>>
  BY DEF SendNext, serverVars
<1>2. Sent \in Nat /\ Sent' = Sent + 1
  BY ReadInputFacts DEF SendNext
<1>3. /\ NextPacket \in Packet /\ NextPacket.seq_no = Sent
      /\ NextPacket.payload = Chunk(Sent + 1)
  BY <1>2, NextPacketFacts, DataPacketType
<1>4. nextSeq = Sent /\ lastseq' = Sent
  BY <1>1, <1>3 DEF Agreement, Positions
<1>5. Positions'
  BY <1>1, <1>2, <1>4 DEF Agreement, Positions
<1>6. InTransit'
  <2>1. ASSUME NEW i \in 1..Len(dataQ')
        PROVE  Genuine(dataQ[i])'
    <3>1. CASE i \in 1..Len(dataQ) /\ dataQ'[i] = dataQ[i]
      <4>1. dataQ[i] \in Packet /\ dataQ[i].seq_no < Sent
        BY <3>1 DEF TypeOK, Agreement, InTransit, Genuine
      <4>2. dataQ[i].seq_no \in Nat
        BY <4>1, PacketFields
      <4> QED
        BY <1>1, <1>2, <1>4, <3>1, <4>1, <4>2 DEF Genuine
    <3>2. CASE dataQ'[i] = NextPacket
      BY <1>1, <1>2, <1>3, <3>2 DEF Genuine
    <3> QED
      BY <1>1, <1>3, <2>1, <3>1, <3>2, QueueAppend DEF TypeOK
  <2>2. \A i \in 1..Len(ackQ') : ackQ'[i].seq_no < nextSeq'
    BY <1>1 DEF Agreement, InTransit
  <2> QED
    BY <2>1, <2>2 DEF InTransit
<1>7. Memory'
  <2>1. lastPkt.seq_no \in Nat
    BY PacketFields DEF TypeOK
  <2> QED
    BY <1>1, <1>2, <1>3, <1>4, <2>1 DEF Agreement, Memory
<1>8. Ending'
  BY <1>1, <1>2 DEF Agreement, Ending
<1> QED
  BY <1>5, <1>6, <1>7, <1>8 DEF Agreement

(* The end of the client, behind at least one packet.  *)
LEMMA EndOfInputStep == TypeOK /\ Agreement /\ EndOfInput => Agreement'
<1> SUFFICES ASSUME TypeOK, Agreement, EndOfInput
             PROVE  Agreement'
  OBVIOUS
<1>1. /\ state = 0 /\ fp = "NULL" /\ client' = "ended"
      /\ UNCHANGED <<state, pkt, lastseq, bufFirst, currseq, fp, lastPkt, nextSeq,
                     written, dataQ, ackQ>>
  BY DEF EndOfInput, InputUsedUp, inputVars, serverVars
<1>2. Sent' = Sent
  BY <1>1 DEF Sent
<1>3. Positions'
  BY <1>1, <1>2 DEF Agreement, Positions
<1>4. InTransit'
  BY <1>1, <1>2 DEF Agreement, InTransit, Genuine
<1>5. Memory'
  BY <1>1, <1>2 DEF Agreement, Memory
<1>6. Ending'
  BY <1>1, <1>2 DEF Agreement, Ending
<1> QED
  BY <1>3, <1>4, <1>5, <1>6 DEF Agreement

(* What a timeout sends is the packet not acknowledged, or an old          *)
(* acknowledgement, which the server does not take for new data.           *)
LEMMA TimeoutStep == TypeOK /\ Agreement /\ Timeout => Agreement'
<1> SUFFICES ASSUME TypeOK, Agreement, Timeout
             PROVE  Agreement'
  OBVIOUS
<1>1. /\ state = 1 /\ dataQ' = Append(dataQ, pkt)
      /\ UNCHANGED <<client, state, pkt, lastseq, bufFirst, currseq, fp, lastPkt,
                     nextSeq, written, ackQ, connection>>
  BY DEF Timeout, Waiting, inputVars, serverVars
<1>2. Sent' = Sent
  BY <1>1 DEF Sent
<1>3. /\ pkt \in Packet /\ pkt.seq_no \in Nat /\ lastseq \in Nat
      /\ lastseq + 1 = Sent /\ nextSeq \in {lastseq, Sent}
  BY <1>1, PacketFields DEF TypeOK, Agreement, Positions
<1>4. Genuine(pkt)
  BY <1>1, <1>3 DEF Agreement, Memory, Genuine
<1>5. InTransit'
  <2>1. ASSUME NEW i \in 1..Len(dataQ')
        PROVE  Genuine(dataQ'[i])
    <3>1. (i \in 1..Len(dataQ) /\ dataQ'[i] = dataQ[i]) \/ dataQ'[i] = pkt
      BY <1>1, <1>3, <2>1, QueueAppend DEF TypeOK
    <3> QED
      BY <1>4, <3>1 DEF Agreement, InTransit
  <2> QED
    BY <1>1, <1>2, <2>1 DEF Agreement, InTransit, Genuine
<1>6. Positions' /\ Memory' /\ Ending'
  BY <1>1, <1>2 DEF Agreement, Positions, Memory, Ending
<1> QED
  BY <1>5, <1>6 DEF Agreement

(* An acknowledgement names a packet the server has; one that ends the     *)
(* wait names the last packet sent.                                        *)
LEMMA ReceiveAckStep == TypeOK /\ Agreement /\ ReceiveAck => Agreement'
<1> SUFFICES ASSUME TypeOK, Agreement, ReceiveAck
             PROVE  Agreement'
  OBVIOUS
<1>1. /\ state = 1 /\ client = "running" /\ ackQ # <<>>
      /\ pkt' = Head(ackQ) /\ ackQ' = Tail(ackQ)
      /\ state' = IF pkt'.seq_no = lastseq THEN 0 ELSE 1
      /\ UNCHANGED <<client, lastseq, bufFirst, currseq, fp, lastPkt, nextSeq,
                     written, dataQ, connection>>
  BY DEF ReceiveAck, Waiting, AfterAck, inputVars, serverVars
<1>2. Sent' = Sent
  BY <1>1 DEF Sent
<1>3. /\ pkt' = ackQ[1] /\ 1 \in 1..Len(ackQ) /\ pkt' \in Packet
      /\ \A i \in 1..Len(ackQ') : i + 1 \in 1..Len(ackQ) /\ ackQ'[i] = ackQ[i + 1]
  BY <1>1, QueueTail DEF TypeOK
<1>4. /\ pkt'.seq_no \in Nat /\ pkt'.seq_no < nextSeq
      /\ lastseq \in Nat /\ lastseq + 1 = Sent /\ nextSeq \in {lastseq, Sent}
  BY <1>1, <1>3, PacketFields DEF TypeOK, Agreement, Positions, InTransit
<1>5. pkt'.seq_no = lastseq => nextSeq = Sent
  BY <1>4
<1>6. Positions'
  BY <1>1, <1>2, <1>5 DEF Agreement, Positions
<1>7. InTransit'
  BY <1>1, <1>2, <1>3 DEF Agreement, InTransit, Genuine
<1>8. Memory'
  BY <1>1, <1>2, <1>4 DEF Agreement, Memory
<1>9. Ending'
  BY <1>1, <1>2 DEF Agreement, Ending
<1> QED
  BY <1>6, <1>7, <1>8, <1>9 DEF Agreement

(* What the server takes up is a packet that was sent: the oldest under    *)
(* way, or, when the client has gone, the one it took up before.           *)
LEMMA ReceivingFacts ==
    ASSUME TypeOK, Agreement, Receiving
    PROVE  /\ lastPkt' \in Packet /\ Genuine(lastPkt')
           /\ \A i \in 1..Len(dataQ') :
                 \E j \in 1..Len(dataQ) : dataQ'[i] = dataQ[j]
<1>1. CASE dataQ # <<>> /\ dataQ' = Tail(dataQ) /\ lastPkt' = Head(dataQ)
  <2>1. /\ lastPkt' \in Packet /\ lastPkt' = dataQ[1] /\ 1 \in 1..Len(dataQ)
        /\ \A i \in 1..Len(dataQ') :
              i + 1 \in 1..Len(dataQ) /\ dataQ'[i] = dataQ[i + 1]
    BY <1>1, QueueTail DEF TypeOK
  <2> QED
    BY <2>1 DEF Agreement, InTransit
<1>2. CASE ReturnsZero(dataQ, connection) /\ UNCHANGED <<dataQ, lastPkt>>
  <2>1. connection # "open"
    BY <1>2 DEF ReturnsZero
  <2>2. nextSeq = Sent /\ Sent >= 1
    BY <2>1 DEF Agreement, Ending, Positions
  <2>3. Sent \in Nat /\ lastPkt \in Packet /\ lastPkt.seq_no \in Nat
    BY PacketFields, NextPacketFacts DEF TypeOK
  <2>4. lastPkt.seq_no < Sent
    BY <2>2, <2>3 DEF Agreement, Memory
  <2>5. Genuine(lastPkt)
    BY <2>2, <2>3, <2>4 DEF Genuine
  <2> QED
    BY <1>2, <2>3, <2>5
<1> QED
  BY <1>1, <1>2 DEF Receiving

(* A packet taken from the queue changes nothing else.  *)
LEMMA DropPacketStep == TypeOK /\ Agreement /\ DropPacket => Agreement'
<1> SUFFICES ASSUME TypeOK, Agreement, DropPacket
             PROVE  Agreement'
  OBVIOUS
<1>1. /\ Receiving
      /\ UNCHANGED <<client, state, pkt, lastseq, bufFirst, currseq, fp, nextSeq,
                     written, ackQ, connection>>
  BY DEF DropPacket, clientVars, inputVars
<1>2. Sent' = Sent
  BY <1>1 DEF Sent
<1>3. InTransit'
  BY <1>1, <1>2, ReceivingFacts DEF Agreement, InTransit, Genuine
<1>4. Memory'
  BY <1>1, <1>2, ReceivingFacts DEF Agreement, Memory, Genuine
<1>5. Positions' /\ Ending'
  BY <1>1, <1>2 DEF Agreement, Positions, Ending
<1> QED
  BY <1>3, <1>4, <1>5 DEF Agreement

(* The packet the server waits for is the last one sent, by a client that  *)
(* waits.                                                                  *)
LEMMA AcceptPacketFacts ==
    ASSUME TypeOK, Agreement, AcceptPacket
    PROVE  /\ state = 1 /\ nextSeq + 1 = Sent /\ nextSeq = lastseq
           /\ lastPkt'.seq_no = nextSeq /\ lastPkt'.payload = Chunk(nextSeq + 1)
<1>1. lastPkt' \in Packet /\ Genuine(lastPkt') /\ lastPkt'.seq_no = nextSeq
  BY ReceivingFacts DEF AcceptPacket, IsExpected
<1>2. Sent \in Nat /\ nextSeq \in Nat /\ lastseq \in Nat /\ state \in {0, 1}
  BY NextPacketFacts DEF TypeOK
<1>3. nextSeq < Sent /\ lastPkt'.payload = Chunk(nextSeq + 1)
  BY <1>1, <1>2 DEF Genuine
<1>4. state = 1
  BY <1>2, <1>3 DEF Agreement, Positions
<1> QED
  BY <1>1, <1>2, <1>3, <1>4 DEF Agreement, Positions

LEMMA AcceptPacketStep == TypeOK /\ Agreement /\ AcceptPacket => Agreement'
<1> SUFFICES ASSUME TypeOK, Agreement, AcceptPacket
             PROVE  Agreement'
  OBVIOUS
<1>1. /\ Receiving /\ SendAck /\ server = "running"
      /\ nextSeq' = nextSeq + 1 /\ written' = Append(written, lastPkt'.payload)
      /\ UNCHANGED <<client, state, pkt, lastseq, bufFirst, currseq, fp>>
  BY DEF AcceptPacket, Receiving, clientVars, inputVars
<1>2. Sent' = Sent
  BY <1>1 DEF Sent
<1>3. /\ state = 1 /\ nextSeq + 1 = Sent /\ nextSeq = lastseq
      /\ lastPkt'.seq_no = nextSeq
  BY AcceptPacketFacts
<1>4. nextSeq \in Nat /\ Sent \in Nat /\ lastPkt' \in Packet
  BY <1>1, NextPacketFacts, ReceivingType DEF TypeOK
<1>5. Positions'
  <2>1. nextSeq = Len(written) /\ Len(written') = Len(written) + 1
    BY <1>1 DEF Agreement, Positions, TypeOK
  <2> QED
    BY <1>1, <1>2, <1>3, <1>4, <2>1 DEF Positions
<1>6. InTransit'
  <2>1. ASSUME NEW i \in 1..Len(dataQ')
        PROVE  Genuine(dataQ[i])'
    <3>1. PICK j \in 1..Len(dataQ) : dataQ'[i] = dataQ[j]
      BY <1>1, <2>1, ReceivingFacts
    <3>2. Genuine(dataQ[j]) /\ dataQ[j].seq_no \in Nat
      BY PacketFields DEF Agreement, InTransit, TypeOK
    <3> QED
      BY <1>1, <1>2, <1>4, <3>1, <3>2 DEF Genuine
  <2>2. ASSUME NEW i \in 1..Len(ackQ')
        PROVE  ackQ'[i].seq_no < nextSeq'
    <3>1. \/ i \in 1..Len(ackQ) /\ ackQ'[i] = ackQ[i]
          \/ ackQ'[i].seq_no = nextSeq
      BY <1>1, <1>3, <1>4, <2>2, SendAckFacts
    <3>2. CASE i \in 1..Len(ackQ) /\ ackQ'[i] = ackQ[i]
      <4>1. ackQ[i].seq_no \in Nat /\ ackQ[i].seq_no < nextSeq
        BY <3>2, PacketFields DEF Agreement, InTransit, TypeOK
      <4> QED
        BY <1>1, <1>4, <3>2, <4>1
    <3> QED
      BY <1>1, <1>4, <3>1, <3>2
  <2> QED
    BY <2>1, <2>2 DEF InTransit
<1>7. Memory'
  BY <1>1, <1>2, <1>3, <1>4 DEF Agreement, Memory
<1>8. Ending'
  BY <1>1, <1>2, <1>4, SendAckFacts DEF Agreement, Ending
<1> QED
  BY <1>5, <1>6, <1>7, <1>8 DEF Agreement

(* Any other packet is an old one. *)
LEMMA ReacknowledgeStep == TypeOK /\ Agreement /\ Reacknowledge => Agreement'
<1> SUFFICES ASSUME TypeOK, Agreement, Reacknowledge
             PROVE  Agreement'
  OBVIOUS
<1>1. /\ Receiving /\ SendAck /\ server = "running" /\ lastPkt'.seq_no # nextSeq
      /\ UNCHANGED <<client, state, pkt, lastseq, bufFirst, currseq, fp, nextSeq,
                     written>>
  BY DEF Reacknowledge, IsExpected, Receiving, clientVars, inputVars
<1>2. Sent' = Sent
  BY <1>1 DEF Sent
<1>3. /\ lastPkt' \in Packet /\ lastPkt'.seq_no \in Nat /\ lastPkt'.seq_no < Sent
      /\ nextSeq \in Nat /\ Sent \in Nat /\ lastseq \in Nat /\ state \in {0, 1}
  BY <1>1, ReceivingFacts, PacketFields, NextPacketFacts DEF TypeOK, Genuine
<1>4. lastPkt'.seq_no < nextSeq
  BY <1>1, <1>3 DEF Agreement, Positions
<1>5. InTransit'
  <2>1. ASSUME NEW i \in 1..Len(ackQ')
        PROVE  ackQ'[i].seq_no < nextSeq'
    <3>1. \/ i \in 1..Len(ackQ) /\ ackQ'[i] = ackQ[i]
          \/ ackQ'[i].seq_no = lastPkt'.seq_no
      BY <1>1, <1>3, <2>1, SendAckFacts
    <3> QED
      BY <1>1, <1>4, <3>1 DEF Agreement, InTransit
  <2>2. \A i \in 1..Len(dataQ') : Genuine(dataQ[i])'
    BY <1>1, <1>2, ReceivingFacts DEF Agreement, InTransit, Genuine
  <2> QED
    BY <2>1, <2>2 DEF InTransit
<1>6. Memory'
  BY <1>1, <1>2, <1>3 DEF Agreement, Memory
<1>7. Positions'
  BY <1>1, <1>2 DEF Agreement, Positions
<1>8. Ending'
  BY <1>1, <1>2, <1>3, SendAckFacts DEF Agreement, Ending
<1> QED
  BY <1>5, <1>6, <1>7, <1>8 DEF Agreement

(* Every step keeps the two programs in agreement. *)
LEMMA AgreementStep == TypeOK /\ Agreement /\ [Next]_vars => Agreement'
<1> SUFFICES ASSUME TypeOK, Agreement, [Next]_vars
             PROVE  Agreement'
  OBVIOUS
<1>1. CASE ReceiveFails \/ UNCHANGED vars
  <2>1. UNCHANGED <<client, state, pkt, lastseq, bufFirst, currseq, fp, lastPkt,
                    nextSeq, written, dataQ, ackQ, connection>>
    BY <1>1 DEF ReceiveFails, vars, clientVars, serverVars, inputVars
  <2>2. Sent' = Sent
    BY <2>1 DEF Sent
  <2> QED
    BY <2>1, <2>2 DEF Agreement, Positions, InTransit, Genuine, Memory, Ending
<1> QED
  BY <1>1, SendNextStep, EndOfInputStep, TimeoutStep, ReceiveAckStep,
     DropPacketStep, AcceptPacketStep, ReacknowledgeStep DEF Next, Client, Server

(* The programs agree at the start. *)
LEMMA InitAgreement == Init => Agreement
<1> SUFFICES ASSUME Init
             PROVE  Agreement
  OBVIOUS
<1>1. /\ state = 0 /\ lastseq = 0 /\ nextSeq = 0 /\ written = <<>>
      /\ dataQ = <<>> /\ ackQ = <<>> /\ client = "running" /\ fp = "open"
      /\ connection = "open" /\ bufFirst = 0 /\ currseq = 0
      /\ lastPkt = [seq_no |-> 0, payload |-> Unassigned]
  BY DEF Init
<1>2. Sent = 0 /\ lastPkt.seq_no = 0
  BY <1>1 DEF Sent
<1>3. Positions
  BY <1>1, <1>2 DEF Positions
<1>4. InTransit
  BY <1>1 DEF InTransit
<1>5. Memory /\ Ending
  BY <1>1, <1>2 DEF Memory, Ending
<1> QED
  BY <1>3, <1>4, <1>5 DEF Agreement

(* The inductive invariant of TCP_Transfer: with types, positions, packets *)
(* in transit and memory agree, whatever was dropped or sent too early.    *)
THEOREM AlwaysAgreement == Spec => [](TypeOK /\ Agreement)
<1>1. TypeOK /\ Agreement /\ [Next]_vars => (TypeOK /\ Agreement)'
  BY TypeStep, AgreementStep
<1> QED
  BY <1>1, InitAgreement, TypeCorrect, PTL DEF Spec

-----------------------------------------------------------------------------
(* A queue without elements is the empty one. *)
LEMMA EmptyQueue ==
    ASSUME NEW q \in Seq(Packet)
    PROVE  q = <<>> <=> Len(q) = 0
  BY EmptySeq

(* The server's turn, in step: the one packet under way becomes the one    *)
(* acknowledgement; when nothing is under way, nothing is sent.            *)
LEMMA AnswerInStep ==
    ASSUME TypeOK, Agreement, InStep, Receiving, SendAck, server = "running",
           UNCHANGED <<state, pkt, lastseq, early>>
    PROVE  InStep'
<1> SUFFICES ASSUME ~early
             PROVE  InStep'
  BY DEF InStep
<1>1. /\ dataQ \in Seq(Packet) /\ ackQ \in Seq(Packet) /\ state \in {0, 1}
      /\ lastPkt' \in Packet /\ ackQ' \in Seq(Packet)
  BY ReceivingType, SendAckFacts DEF TypeOK
<1>2. CASE dataQ # <<>> /\ dataQ' = Tail(dataQ) /\ lastPkt' = Head(dataQ)
  <2>1. /\ Len(dataQ') = Len(dataQ) - 1 /\ dataQ' \in Seq(Packet)
        /\ lastPkt' = dataQ[1] /\ 1 \in 1..Len(dataQ)
    BY <1>1, <1>2, QueueTail
  <2>2. /\ state = 1 /\ ackQ = <<>> /\ Len(dataQ) <= 1
        /\ pkt = DataPacket(lastseq) /\ lastPkt'.seq_no = lastseq
    BY <1>1, <1>2, <2>1 DEF InStep
  <2>3. Len(dataQ') = 0
    BY <1>1, <2>1, <2>2
  <2>4. dataQ' = <<>>
    BY <2>1, <2>3, EmptyQueue
  <2>5. /\ Len(ackQ') \in {0, 1}
        /\ \A i \in 1..Len(ackQ') : ackQ'[i].seq_no = lastseq
    <3>1. Len(ackQ) = 0
      BY <2>2
    <3>2. Len(ackQ') = 1 \/ ackQ' = ackQ
      BY <1>1, <3>1, SendAckFacts
    <3>3. \A i \in 1..Len(ackQ') : i \in 1..Len(ackQ) \/ ackQ'[i].seq_no = lastseq
      BY <1>1, <2>2, SendAckFacts
    <3> QED
      BY <3>1, <3>2, <3>3
  <2> QED
    BY <2>2, <2>3, <2>4, <2>5 DEF InStep, DataPacket
<1>3. CASE ReturnsZero(dataQ, connection) /\ UNCHANGED <<dataQ, lastPkt>>
  <2>1. ackQ' = ackQ
    BY <1>1, <1>3, SendAckFacts DEF ReturnsZero
  <2> QED
    BY <1>3, <2>1 DEF InStep, DataPacket
<1> QED
  BY <1>2, <1>3 DEF Receiving

(* Every step leaves the two programs in step, until a timeout comes while *)
(* something is under way.                                                 *)
LEMMA InStepStep == TypeOK /\ Agreement /\ InStep /\ [Next]_vars => InStep'
<1> SUFFICES ASSUME TypeOK, Agreement, InStep, [Next]_vars
             PROVE  InStep'
  OBVIOUS
<1> USE DEF DataPacket
<1>0. dataQ \in Seq(Packet) /\ ackQ \in Seq(Packet) /\ state \in {0, 1}
  BY DEF TypeOK
<1>1. CASE SendNext
  <2>1. /\ state = 0 /\ state' = 1 /\ pkt' = NextPacket
        /\ lastseq' = NextPacket.seq_no /\ dataQ' = Append(dataQ, NextPacket)
        /\ UNCHANGED <<early, ackQ>>
    BY <1>1 DEF SendNext
  <2>2. NextPacket \in Packet /\ NextPacket = DataPacket(NextPacket.seq_no)
    BY NextPacketFacts, DataPacketType
  <2>3. ~early => dataQ' = <<NextPacket>> /\ ackQ' = <<>>
    BY <2>1 DEF InStep
  <2> QED
    BY <2>1, <2>2, <2>3 DEF InStep
<1>2. CASE Timeout
  <2>1. /\ state = 1 /\ ackQ = <<>> /\ dataQ' = Append(dataQ, pkt)
        /\ ~early' => ~early /\ dataQ = <<>>
        /\ UNCHANGED <<state, pkt, lastseq, ackQ>>
    BY <1>2 DEF Timeout, Waiting
  <2>2. ~early' => dataQ' = <<pkt>> /\ pkt.seq_no = lastseq
    BY <2>1 DEF InStep
  <2> QED
    BY <2>1, <2>2 DEF InStep
<1>3. CASE ReceiveAck
  <2>1. /\ state = 1 /\ ackQ # <<>> /\ pkt' = Head(ackQ) /\ ackQ' = Tail(ackQ)
        /\ state' = IF pkt'.seq_no = lastseq THEN 0 ELSE 1
        /\ UNCHANGED <<lastseq, early, dataQ>>
    BY <1>3 DEF ReceiveAck, Waiting, AfterAck
  <2>2. /\ pkt' = ackQ[1] /\ 1 \in 1..Len(ackQ)
        /\ Len(ackQ') = Len(ackQ) - 1 /\ ackQ' \in Seq(Packet)
    BY <1>0, <2>1, QueueTail
  <2>3. ~early => dataQ = <<>> /\ Len(ackQ) <= 1 /\ pkt'.seq_no = lastseq
    BY <2>1, <2>2 DEF InStep
  <2>4. ~early => ackQ' = <<>>
    BY <1>0, <2>2, <2>3, EmptyQueue
  <2> QED
    BY <2>1, <2>3, <2>4 DEF InStep
<1>4. CASE DropPacket
  <2>1. /\ Receiving /\ UNCHANGED <<state, pkt, lastseq, early, ackQ>>
    BY <1>4 DEF DropPacket, clientVars
  <2>2. CASE UNCHANGED dataQ
    BY <2>1, <2>2 DEF InStep
  <2>3. CASE dataQ # <<>> /\ dataQ' = Tail(dataQ)
    <3>1. Len(dataQ') = Len(dataQ) - 1 /\ dataQ' \in Seq(Packet) /\ Len(dataQ) >= 1
      BY <1>0, <2>3, QueueTail
    <3>2. ~early => /\ state = 1 /\ ackQ = <<>> /\ Len(dataQ) <= 1
                    /\ pkt = DataPacket(lastseq)
      BY <1>0, <2>3 DEF InStep
    <3>3. ~early => dataQ' = <<>>
      BY <1>0, <3>1, <3>2, EmptyQueue
    <3> QED
      BY <2>1, <3>2, <3>3 DEF InStep
  <2> QED
    BY <2>1, <2>2, <2>3 DEF Receiving
<1>5. CASE AcceptPacket \/ Reacknowledge
  BY <1>5, AnswerInStep DEF AcceptPacket, Reacknowledge, Receiving, clientVars
<1>6. CASE EndOfInput \/ ReceiveFails \/ UNCHANGED vars
  <2>1. UNCHANGED <<state, pkt, lastseq, early, dataQ, ackQ>>
    BY <1>6 DEF EndOfInput, ReceiveFails, vars, clientVars
  <2> QED
    BY <2>1 DEF InStep
<1> QED
  BY <1>1, <1>2, <1>3, <1>4, <1>5, <1>6 DEF Next, Client, Server

(* Unless a timeout came too early, what the client sends again is the     *)
(* packet that was not acknowledged, although acknowledgements are         *)
(* received over it (client.c:102,136-147).                                *)
THEOREM ResendsTheUnacknowledged == Spec => []ResendsUnacknowledged
<1>1. Init => InStep
  <2>1. ASSUME Init
        PROVE  state = 0 /\ dataQ = <<>> /\ ackQ = <<>>
    BY <2>1 DEF Init
  <2> QED
    BY <2>1 DEF InStep
<1>2. InStep => ResendsUnacknowledged
  BY DEF InStep, ResendsUnacknowledged, Waiting
<1> QED
  BY <1>1, <1>2, InStepStep, AlwaysAgreement, PTL DEF Spec

-----------------------------------------------------------------------------
(* The items handed to the transfer so far, as the refinement reads them.  *)
Submitted(n) == [i \in 1..n |-> Chunk(i)]

(* They are a sequence that grows by the chunk of the next packet.         *)
LEMMA SubmittedFacts ==
    ASSUME NEW n \in Nat
    PROVE  /\ Submitted(n) \in Seq(0..NumChunks)
           /\ Len(Submitted(n)) = n
           /\ \A i \in 1..n : Submitted(n)[i] = Chunk(i)
           /\ Submitted(n + 1) = Append(Submitted(n), Chunk(n + 1))
<1>1. \A i \in 1 .. n + 1 : Chunk(i) \in 0..NumChunks
  BY ChunkType
<1>2. /\ Submitted(n) \in Seq(0..NumChunks) /\ Len(Submitted(n)) = n
      /\ \A i \in 1..n : Submitted(n)[i] = Chunk(i)
  BY <1>1 DEF Submitted
<1>3. /\ Submitted(n + 1) \in Seq(0..NumChunks) /\ Len(Submitted(n + 1)) = n + 1
      /\ \A i \in 1 .. n + 1 : Submitted(n + 1)[i] = Chunk(i)
  BY <1>1 DEF Submitted
<1>4. /\ Append(Submitted(n), Chunk(n + 1)) \in Seq(0..NumChunks)
      /\ Len(Append(Submitted(n), Chunk(n + 1))) = n + 1
      /\ \A i \in 1 .. n + 1 : Append(Submitted(n), Chunk(n + 1))[i] = Chunk(i)
  BY <1>1, <1>2
<1>5. Submitted(n + 1) = Append(Submitted(n), Chunk(n + 1))
  BY <1>3, <1>4, SeqEqual
<1> QED
  BY <1>2, <1>5

(* Each step of TCP_Transfer is a step of the windowed transfer: a packet  *)
(* sent for the first time is a Submit, one written a Deliver, the         *)
(* acknowledgement that ends a wait a Confirm; all else is a stutter.      *)
LEMMA StepImplementsTransfer ==
    TypeOK /\ Agreement /\ (TypeOK /\ Agreement)' /\ [Next]_vars =>
        [Transfer!Next]_(Transfer!absVars)
<1> SUFFICES ASSUME TypeOK, Agreement, (TypeOK /\ Agreement)', [Next]_vars
             PROVE  [Transfer!Next]_(Transfer!absVars)
  OBVIOUS
<1>1. /\ Sent \in Nat /\ nextSeq \in Nat /\ lastseq \in Nat /\ state \in {0, 1}
      /\ nextSeq = Len(written)
  BY NextPacketFacts DEF TypeOK, Agreement, Positions
<1>2. CASE SendNext
  <2>1. state = 0 /\ state' = 1 /\ Sent' = Sent + 1 /\ UNCHANGED written
    BY <1>2, ReadInputFacts DEF SendNext, serverVars
  <2>2. Len(Submitted(Sent)) < Sent - state + 1
    BY <1>1, <2>1, SubmittedFacts
  <2>3. /\ Submitted(Sent') = Append(Submitted(Sent), Chunk(Sent + 1))
        /\ Chunk(Sent + 1) \in 0..NumChunks
    <3>1. Submitted(Sent + 1) = Append(Submitted(Sent), Chunk(Sent + 1))
      BY <1>1, SubmittedFacts
    <3>2. Sent + 1 \in Nat
      BY <1>1
    <3> QED
      BY <2>1, <3>1, <3>2, ChunkType
  <2>4. Sent' - state' = Sent - state
    BY <1>1, <2>1
  <2>5. Transfer!Submit
    BY <2>1, <2>2, <2>3, <2>4 DEF Transfer!Submit, Submitted
  <2> QED
    BY <2>5 DEF Transfer!Next
<1>3. CASE ReceiveAck
  <2>1. /\ state = 1 /\ UNCHANGED <<bufFirst, currseq, written>>
        /\ state' \in {0, 1}
    BY <1>3 DEF ReceiveAck, Waiting, AfterAck, inputVars, serverVars
  <2>2. Sent' = Sent
    BY <2>1 DEF Sent
  <2>3. CASE state' = 1
    BY <2>1, <2>2, <2>3 DEF Transfer!absVars
  <2>4. CASE state' = 0
    <3>1. Len(written) = Sent
      BY <1>1, <2>1, <2>2, <2>4 DEF Agreement, Positions
    <3>2. Sent - state' \in Sent - state + 1 .. Len(written)
      BY <1>1, <2>1, <2>4, <3>1
    <3>3. Transfer!Confirm
      BY <2>1, <2>2, <3>2 DEF Transfer!Confirm
    <3> QED
      BY <3>3 DEF Transfer!Next
  <2> QED
    BY <2>1, <2>3, <2>4
<1>4. CASE AcceptPacket
  <2>1. /\ UNCHANGED <<bufFirst, currseq, state>>
        /\ written' = Append(written, lastPkt'.payload)
    BY <1>4 DEF AcceptPacket, clientVars, inputVars
  <2>2. Sent' = Sent
    BY <2>1 DEF Sent
  <2>3. nextSeq + 1 = Sent /\ lastPkt'.payload = Chunk(nextSeq + 1)
    BY <1>4, AcceptPacketFacts
  <2>4. /\ Len(written) < Len(Submitted(Sent))
        /\ Submitted(Sent)[Len(written) + 1] = lastPkt'.payload
    <3>1. /\ Len(Submitted(Sent)) = Sent
          /\ \A i \in 1..Sent : Submitted(Sent)[i] = Chunk(i)
      BY <1>1, SubmittedFacts
    <3>2. Len(written) + 1 = Sent /\ Sent \in 1..Sent
      BY <1>1, <2>3
    <3>3. Len(written) < Sent
      BY <1>1, <2>3
    <3> QED
      BY <1>1, <2>3, <3>1, <3>2, <3>3
  <2>5. Transfer!Deliver
    BY <2>1, <2>2, <2>4 DEF Transfer!Deliver, Submitted
  <2> QED
    BY <2>5 DEF Transfer!Next
<1>5. CASE \/ EndOfInput \/ Timeout \/ ReceiveFails \/ DropPacket \/ Reacknowledge
           \/ UNCHANGED vars
  <2>1. UNCHANGED <<bufFirst, currseq, state, written>>
    BY <1>5 DEF EndOfInput, Timeout, ReceiveFails, DropPacket, Reacknowledge, vars,
                clientVars, serverVars, inputVars
  <2>2. Sent' = Sent
    BY <2>1 DEF Sent
  <2> QED
    BY <2>1, <2>2 DEF Transfer!absVars
<1> QED
  BY <1>2, <1>3, <1>4, <1>5 DEF Next, Client, Server

(* The pair of TCP_Transfer implements the windowed transfer with a window *)
(* of one packet, also when the client has overwritten what it sends.      *)
THEOREM TcpTransferImplementsTransfer == Spec => ImplementsTransfer
<1>1. Init => Transfer!Init
  <2> SUFFICES ASSUME Init
               PROVE  Transfer!Init
    OBVIOUS
  <2>1. Sent = 0 /\ state = 0 /\ written = <<>>
    BY DEF Init, Sent
  <2>2. Submitted(0) = <<>>
    BY SubmittedFacts, EmptySeq
  <2> QED
    BY <2>1, <2>2 DEF Transfer!Init, Submitted
<1> QED
  BY <1>1, StepImplementsTransfer, AlwaysAgreement, PTL
  DEF Spec, ImplementsTransfer, Transfer!Spec
=============================================================================
