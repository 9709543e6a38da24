---------------------------- MODULE GoBackNProofs ----------------------------
(***************************************************************************)
(* Proofs about GoBackN and, behind them, about GoBackNTcp, for every      *)
(* window, buffer and input size, every capacity of the socket buffers,    *)
(* and both outcomes of each undefined behaviour of the programs.          *)
(***************************************************************************)
EXTENDS GoBackNTcp, UdpSocketProofs

(* A packet number has a slot.                                             *)
LEMMA SlotFacts ==
    ASSUME NEW n \in Nat
    PROVE  n % WINDOW_SIZE \in Slots
  BY WindowAssumption DEF Slots

(* Packet numbers less than a window apart have different slots.           *)
LEMMA SlotsDistinct ==
    ASSUME NEW i \in Nat, NEW j \in Nat, i < j, j < i + WINDOW_SIZE
    PROVE  i % WINDOW_SIZE # j % WINDOW_SIZE
<1> DEFINE W == WINDOW_SIZE
<1>1. W \in Nat \ {0}
  BY WindowAssumption
<1> HIDE DEF W
<1>2. i = W * (i \div W) + (i % W) /\ j = W * (j \div W) + (j % W)
  BY <1>1
<1>3. ASSUME i % W = j % W
      PROVE  FALSE
  <2>1. j - i = W * ((j \div W) - (i \div W))
    BY <1>1, <1>2, <1>3
  <2>2. (j \div W) - (i \div W) > 0
    BY <1>1, <2>1
  <2>3. W * ((j \div W) - (i \div W)) >= W
    BY <1>1, <2>2
  <2> QED
    BY <1>1, <2>1, <2>3 DEF W
<1> QED
  BY <1>3 DEF W

(* Every position of the file holds a chunk or is behind its end.          *)
LEMMA ChunkType == \A i \in Nat : Chunk(i) \in 0..NumChunks
  BY InputAssumption DEF Chunk, Empty

(* A data packet of any number is a packet.                                *)
LEMMA DataPacketType == \A n \in Nat : DataPacket(n, 0) \in Packet
  BY ChunkType DEF DataPacket, Packet

-----------------------------------------------------------------------------
(* What a packet contains, and what is a packet.                           *)
LEMMA PacketFields ==
    ASSUME NEW p \in Packet
    PROVE  /\ p.seqNo \in Nat /\ p.isAck \in {0, 1}
           /\ p.finalPacket \in {0, 1} /\ p.payload \in 0..NumChunks
  BY DEF Packet

(* The packet the client sends next is a packet.                           *)
LEMMA NextPacketType ==
    ASSUME nextseqnum \in Nat, bufFirst \in Nat, currseq \in Nat
    PROVE  NextPacket \in Packet
<1>1. Chunk(bufFirst + currseq + 1) \in 0..NumChunks
  BY ChunkType
<1> QED
  BY <1>1 DEF NextPacket, FinalFlag, Packet

(* The acknowledgement of a packet is a packet.                            *)
LEMMA AckForType ==
    ASSUME snd_pkt \in Packet, NEW p \in Packet, expectedSeqNo \in Nat
    PROVE  AckFor(p) \in Packet
  BY PacketFields DEF AckFor, Packet

(* The position in the buffer stays inside the buffer.                     *)
LEMMA ReadInputType ==
    ASSUME bufFirst \in Nat, currseq \in 0 .. PacketsPerBuffer - 1,
           fp \in {"open", "NULL"}, ReadInput
    PROVE  /\ bufFirst' \in Nat /\ currseq' \in 0 .. PacketsPerBuffer - 1
           /\ fp' \in {"open", "NULL"}
<1>1. PacketsPerBuffer \in Nat
  BY BufferAssumption
<1> QED
  BY <1>1 DEF ReadInput, EndOfBuffer

(* What a timeout sends: one packet for each number of the window.         *)
LEMMA ResendWindowType ==
    ASSUME base \in Nat, nextseqnum \in Nat, base <= nextseqnum,
           sent_packets \in [Slots -> Packet]
    PROVE  /\ ResendWindow \in Seq(Packet)
           /\ Len(ResendWindow) = nextseqnum - base
<1>1. ASSUME NEW i \in 1 .. nextseqnum - base
      PROVE  sent_packets[(base + i - 1) % WINDOW_SIZE] \in Packet
  <2>1. base + i - 1 \in Nat
    OBVIOUS
  <2>2. (base + i - 1) % WINDOW_SIZE \in Slots
    BY <2>1, SlotFacts
  <2> QED
    BY <2>2
<1>2. nextseqnum - base \in Nat
  OBVIOUS
<1> QED
  BY <1>1, <1>2 DEF ResendWindow

(* No step of either program takes a value out of its type.  The window    *)
(* never holds a negative number of packets.                               *)
LEMMA TypeStep ==
    TypeOK /\ base <= nextseqnum /\ [Next]_vars => TypeOK'
<1> SUFFICES ASSUME TypeOK, base <= nextseqnum, [Next]_vars
             PROVE  TypeOK'
  OBVIOUS
<1>1. /\ base \in Nat /\ nextseqnum \in Nat
      /\ bufFirst \in Nat /\ currseq \in 0 .. PacketsPerBuffer - 1
      /\ fp \in {"open", "NULL"}
      /\ expectedSeqNo \in Nat /\ snd_pkt \in Packet
      /\ sent_packets \in [Slots -> Packet]
  BY DEF TypeOK
<1>2. currseq \in Nat
  BY <1>1, BufferAssumption
<1>3. /\ dataQ \in Seq(Packet) /\ Len(dataQ) <= Cap
      /\ ackQ \in Seq(Packet) /\ Len(ackQ) <= Cap
      /\ written \in Seq(0..NumChunks)
  BY DEF TypeOK
<1>4. ASSUME Readable(dataQ)
      PROVE  /\ Head(dataQ) \in Packet
             /\ Tail(dataQ) \in Seq(Packet) /\ Len(Tail(dataQ)) <= Cap
  <2>1. /\ Head(dataQ) \in Packet /\ Tail(dataQ) \in Seq(Packet)
        /\ Len(Tail(dataQ)) = Len(dataQ) - 1 /\ Len(dataQ) >= 1
    BY <1>3, <1>4, RecvFromFacts
  <2> QED
    BY <1>3, <2>1, CapAssumption
<1>5. ASSUME Readable(ackQ)
      PROVE  /\ Head(ackQ) \in Packet
             /\ Tail(ackQ) \in Seq(Packet) /\ Len(Tail(ackQ)) <= Cap
  <2>1. /\ Head(ackQ) \in Packet /\ Tail(ackQ) \in Seq(Packet)
        /\ Len(Tail(ackQ)) = Len(ackQ) - 1 /\ Len(ackQ) >= 1
    BY <1>3, <1>5, RecvFromFacts
  <2> QED
    BY <1>3, <2>1, CapAssumption
<1>6. CASE SendNext
  <2>1. NextPacket \in Packet
    BY <1>1, <1>2, NextPacketType
  <2>2. dataQ' \in Seq(Packet) /\ Len(dataQ') <= Cap
    BY <1>3, <1>6, <2>1, SendToFacts DEF SendNext
  <2>3. sent_packets' \in [Slots -> Packet]
    BY <1>1, <1>6, <2>1 DEF SendNext
  <2>4. /\ bufFirst' \in Nat /\ currseq' \in 0 .. PacketsPerBuffer - 1
        /\ fp' \in {"open", "NULL"}
    BY <1>1, <1>6, ReadInputType DEF SendNext
  <2>5. nextseqnum' \in Nat
    BY <1>1, <1>6 DEF SendNext
  <2> QED
    BY <1>6, <2>2, <2>3, <2>4, <2>5 DEF TypeOK, SendNext, serverVars
<1>7. CASE DieAtEndOfInput
  BY <1>7 DEF TypeOK, DieAtEndOfInput, inputVars, serverVars
<1>8. CASE Timeout
  <2>1. dataQ' \in Seq(Packet) /\ Len(dataQ') <= Cap
    BY <1>1, <1>3, <1>8, ResendWindowType, SendAllFacts DEF Timeout
  <2> QED
    BY <1>8, <2>1 DEF TypeOK, Timeout, inputVars, serverVars
<1>9. CASE NewAck
  <2>1. /\ Head(ackQ) \in Packet
        /\ ackQ' \in Seq(Packet) /\ Len(ackQ') <= Cap
    BY <1>5, <1>9 DEF NewAck
  <2>2. base' \in Nat
    BY <1>9, <2>1, PacketFields DEF NewAck, AckedUpTo
  <2>3. dataQ' \in Seq(Packet) /\ Len(dataQ') <= Cap
    <3>1. dataQ' = SendTo(dataQ, Head(ackQ)) \/ dataQ' = dataQ
      BY <1>9 DEF NewAck
    <3>2. /\ SendTo(dataQ, Head(ackQ)) \in Seq(Packet)
          /\ Len(SendTo(dataQ, Head(ackQ))) <= Cap
      BY <1>3, <2>1, SendToFacts
    <3> QED
      BY <1>3, <3>1, <3>2
  <2>4. client' \in {"running", "no_input", "select_failed", "finished"}
    BY <1>9 DEF NewAck, TypeOK
  <2> QED
    BY <1>9, <2>1, <2>2, <2>3, <2>4 DEF TypeOK, NewAck, inputVars, serverVars
<1>10. CASE OldAck
  <2>1. ackQ' \in Seq(Packet) /\ Len(ackQ') <= Cap
    BY <1>5, <1>10 DEF OldAck
  <2>2. tv' \in {"valid", "negative"}
    BY <1>10 DEF OldAck
  <2> QED
    BY <1>10, <2>1, <2>2 DEF TypeOK, OldAck, inputVars, serverVars
<1>11. CASE SelectFails
  BY <1>11 DEF TypeOK, SelectFails, inputVars, serverVars
<1>12. CASE ReceiveFails
  <2>1. dataQ' \in Seq(Packet) /\ Len(dataQ') <= Cap
    BY <1>4, <1>12 DEF ReceiveFails
  <2> QED
    BY <1>12, <2>1 DEF TypeOK, ReceiveFails, inputVars
<1>13. CASE DropPacket
  <2>1. dataQ' \in Seq(Packet) /\ Len(dataQ') <= Cap
    BY <1>4, <1>13 DEF DropPacket, Receiving
  <2> QED
    BY <1>13, <2>1 DEF TypeOK, DropPacket, inputVars, serverVars
<1>14. CASE AcceptPacket
  <2> DEFINE pkt == Head(dataQ)
  <2>1. /\ pkt \in Packet
        /\ dataQ' \in Seq(Packet) /\ Len(dataQ') <= Cap
    BY <1>4, <1>14 DEF AcceptPacket, Receiving
  <2>2. UNCHANGED <<client, base, nextseqnum, sent_packets, bufFirst, currseq, fp, tv>>
    BY <1>14 DEF AcceptPacket, inputVars
  <2>3. CASE pkt.isAck = 1 /\ pkt.finalPacket = 1
    <3>1. server' = "finished" /\ UNCHANGED <<expectedSeqNo, snd_pkt, written, ackQ>>
      BY <1>14, <2>3 DEF AcceptPacket
    <3> QED
      BY <2>1, <2>2, <3>1 DEF TypeOK
  <2>4. CASE ~(pkt.isAck = 1 /\ pkt.finalPacket = 1)
    <3>1. /\ written' = Append(written, pkt.payload)
          /\ snd_pkt' = AckFor(pkt)
          /\ expectedSeqNo' = expectedSeqNo + 1
          /\ ackQ' = SendTo(ackQ, snd_pkt')
          /\ UNCHANGED server
      BY <1>14, <2>4 DEF AcceptPacket
    <3>2. snd_pkt' \in Packet
      BY <1>1, <2>1, <3>1, AckForType
    <3>3. ackQ' \in Seq(Packet) /\ Len(ackQ') <= Cap
      BY <1>3, <3>1, <3>2, SendToFacts
    <3>4. written' \in Seq(0..NumChunks)
      BY <1>3, <2>1, <3>1, PacketFields
    <3>5. expectedSeqNo' \in Nat
      BY <1>1, <3>1
    <3> QED
      BY <2>1, <2>2, <3>1, <3>2, <3>3, <3>4, <3>5 DEF TypeOK
  <2> QED
    BY <2>3, <2>4
<1>15. CASE RepeatAck
  <2>1. dataQ' \in Seq(Packet) /\ Len(dataQ') <= Cap
    BY <1>4, <1>15 DEF RepeatAck, Receiving
  <2>2. ackQ' \in Seq(Packet) /\ Len(ackQ') <= Cap
    BY <1>1, <1>3, <1>15, SendToFacts DEF RepeatAck
  <2> QED
    BY <1>15, <2>1, <2>2 DEF TypeOK, RepeatAck, inputVars, serverVars
<1>16. CASE UNCHANGED vars
  BY <1>16 DEF TypeOK, vars, inputVars, serverVars
<1> QED
  BY <1>6, <1>7, <1>8, <1>9, <1>10, <1>11, <1>12, <1>13, <1>14, <1>15, <1>16
  DEF Next, Client, Server

-----------------------------------------------------------------------------
(* Sending the next packet: it carries the chunk its number says, its slot *)
(* is that of a packet already acknowledged, and the position in the file  *)
(* advances with the number.                                               *)
LEMMA SendNextStep ==
    ASSUME TypeOK, Agreement, SendNext
    PROVE  Agreement'
<1>1. /\ base \in Nat /\ nextseqnum \in Nat /\ expectedSeqNo \in Nat
      /\ bufFirst \in Nat /\ currseq \in 0 .. PacketsPerBuffer - 1
      /\ dataQ \in Seq(Packet) /\ Len(dataQ) <= Cap
      /\ sent_packets \in [Slots -> Packet]
  BY DEF TypeOK
<1>2. PacketsPerBuffer \in Nat /\ WINDOW_SIZE \in Nat \ {0}
  BY BufferAssumption, WindowAssumption
<1>3. /\ nextseqnum < base + WINDOW_SIZE
      /\ dataQ' = SendTo(dataQ, NextPacket)
      /\ sent_packets' =
            [sent_packets EXCEPT ![nextseqnum % WINDOW_SIZE] = NextPacket]
      /\ nextseqnum' = nextseqnum + 1
      /\ UNCHANGED <<client, base, ackQ, server, expectedSeqNo, snd_pkt, written>>
      /\ client = "running"
  BY DEF SendNext, WindowNotFull, serverVars
<1>4. NextPacket = DataPacket(nextseqnum, 0)
  <2>1. bufFirst + currseq + 1 = nextseqnum
    BY DEF Agreement, InputPosition
  <2> QED
    BY <2>1 DEF NextPacket, DataPacket, FinalFlag
<1>5. NextPacket \in Packet /\ NextPacket.seqNo = nextseqnum
  BY <1>1, <1>4, DataPacketType DEF DataPacket
<1>6. \A i \in 1..Len(dataQ') :
         \/ i \in 1..Len(dataQ) /\ dataQ'[i] = dataQ[i]
         \/ dataQ'[i] = NextPacket
  BY <1>1, <1>3, <1>5, SendToFacts
<1>7. OutputIsPrefix' /\ ServerPosition' /\ (base >= 1)'
  BY <1>3 DEF Agreement, OutputIsPrefix, ServerPosition
<1>8. WindowsAgree'
  <2>1. \A i \in 1..Len(dataQ) : dataQ[i].seqNo \in Nat
    BY <1>1, PacketFields
  <2>2. \A i \in 1..Len(dataQ') : dataQ'[i].seqNo < nextseqnum'
    BY <1>1, <1>3, <1>5, <1>6, <2>1 DEF Agreement, WindowsAgree
  <2>3. \A i \in 1..Len(ackQ) : ackQ[i].seqNo < expectedSeqNo
    BY DEF Agreement, WindowsAgree
  <2>4. /\ base <= expectedSeqNo /\ expectedSeqNo <= nextseqnum
    BY DEF Agreement, WindowsAgree
  <2> QED
    BY <1>1, <1>2, <1>3, <2>2, <2>3, <2>4 DEF WindowsAgree
<1>9. ResendsWhatWasSent'
  <2> SUFFICES ASSUME NEW n \in base .. nextseqnum
               PROVE  sent_packets'[n % WINDOW_SIZE] = DataPacket(n, 0)
    BY <1>1, <1>3 DEF ResendsWhatWasSent
  <2>1. n \in Nat /\ n % WINDOW_SIZE \in Slots /\ nextseqnum % WINDOW_SIZE \in Slots
    BY <1>1, SlotFacts
  <2>2. CASE n = nextseqnum
    BY <1>1, <1>3, <1>4, <2>1, <2>2
  <2>3. CASE n < nextseqnum
    <3>0. nextseqnum < n + WINDOW_SIZE
      BY <1>1, <1>2, <1>3
    <3>1. n % WINDOW_SIZE # nextseqnum % WINDOW_SIZE
      BY <1>1, <2>1, <2>3, <3>0, SlotsDistinct
    <3>2. sent_packets[n % WINDOW_SIZE] = DataPacket(n, 0)
      BY <1>1, <2>1, <2>3 DEF Agreement, ResendsWhatWasSent
    <3> QED
      BY <1>1, <1>3, <2>1, <3>1, <3>2
  <2> QED
    BY <1>1, <2>1, <2>2, <2>3
<1>10. InputPosition'
  <2>1. ReadInput /\ nextseqnum = bufFirst + currseq + 1
        /\ (fp = "NULL" => bufFirst >= NumChunks)
    BY DEF SendNext, Agreement, InputPosition
  <2>2. NumChunks \in Nat
    BY InputAssumption
  <2>3. CASE EndOfBuffer
    <3>1. currseq = PacketsPerBuffer - 1
      BY <1>1, <1>2, <2>3 DEF EndOfBuffer
    <3>2. /\ bufFirst' = bufFirst + PacketsPerBuffer /\ currseq' = 0
          /\ fp' = IF bufFirst + PacketsPerBuffer < NumChunks THEN "open" ELSE "NULL"
      BY <2>1, <2>3 DEF ReadInput
    <3>3. nextseqnum' = bufFirst' + currseq' + 1
      BY <1>1, <1>2, <1>3, <2>1, <3>1, <3>2
    <3>4. fp' = "NULL" => bufFirst' >= NumChunks
      BY <1>1, <1>2, <2>2, <3>2
    <3> QED
      BY <3>3, <3>4 DEF InputPosition
  <2>4. CASE ~EndOfBuffer
    BY <1>1, <1>2, <1>3, <2>1, <2>2, <2>4 DEF ReadInput, InputPosition
  <2> QED
    BY <2>3, <2>4
<1>11. PacketsGenuine'
  <2>1. \A i \in 1..Len(dataQ') : dataQ'[i] = DataPacket(dataQ'[i].seqNo, 0)
    BY <1>4, <1>5, <1>6 DEF Agreement, PacketsGenuine
  <2> QED
    BY <1>3, <2>1 DEF Agreement, PacketsGenuine
<1>12. DeathPosition'
  BY <1>3 DEF DeathPosition
<1> QED
  BY <1>7, <1>8, <1>9, <1>10, <1>11, <1>12 DEF Agreement

(* The end of the input: nothing but the client's fate changes.            *)
LEMMA DieAtEndOfInputStep ==
    ASSUME TypeOK, Agreement, DieAtEndOfInput
    PROVE  Agreement'
<1>1. /\ UNCHANGED <<base, nextseqnum, sent_packets, bufFirst, currseq, fp, server,
                     expectedSeqNo, snd_pkt, written, dataQ, ackQ>>
      /\ EndOfBuffer /\ fp = "NULL" /\ nextseqnum < base + WINDOW_SIZE
  BY DEF DieAtEndOfInput, InputUsedUp, inputVars, serverVars, WindowNotFull
<1>2. DeathPosition'
  BY <1>1 DEF DeathPosition, EndOfBuffer
<1> QED
  BY <1>1, <1>2 DEF Agreement, OutputIsPrefix, WindowsAgree, ResendsWhatWasSent,
                    InputPosition, PacketsGenuine, ServerPosition

(* A timeout puts only packets of the window in transit, as they were.     *)
LEMMA TimeoutStep ==
    ASSUME TypeOK, Agreement, Timeout
    PROVE  Agreement'
<1>1. /\ base \in Nat /\ nextseqnum \in Nat /\ base <= nextseqnum
      /\ dataQ \in Seq(Packet) /\ Len(dataQ) <= Cap
      /\ sent_packets \in [Slots -> Packet]
      /\ expectedSeqNo \in Nat
  <2>1. base <= expectedSeqNo /\ expectedSeqNo <= nextseqnum
    BY DEF Agreement, WindowsAgree
  <2>2. base \in Nat /\ nextseqnum \in Nat /\ expectedSeqNo \in Nat
    BY DEF TypeOK
  <2>3. base <= nextseqnum
    BY <2>1, <2>2
  <2> QED
    BY <2>3 DEF TypeOK
<1>2. /\ dataQ' = SendAll(dataQ, ResendWindow)
      /\ UNCHANGED <<client, base, nextseqnum, sent_packets, bufFirst, currseq, fp,
                     server, expectedSeqNo, snd_pkt, written, ackQ>>
  BY DEF Timeout, inputVars, serverVars
<1>3. ASSUME NEW k \in 1..Len(ResendWindow)
      PROVE  /\ ResendWindow[k] = DataPacket(ResendWindow[k].seqNo, 0)
             /\ ResendWindow[k].seqNo < nextseqnum
  <2>1. k \in 1 .. nextseqnum - base
    BY <1>1, ResendWindowType
  <2>2. base + k - 1 \in base .. nextseqnum - 1
    BY <1>1, <2>1
  <2>3. ResendWindow[k] = DataPacket(base + k - 1, 0)
    BY <2>1, <2>2 DEF ResendWindow, Agreement, ResendsWhatWasSent
  <2>4. ResendWindow[k].seqNo = base + k - 1
    BY <2>3 DEF DataPacket
  <2> QED
    BY <1>1, <2>2, <2>3, <2>4
<1>4. \A i \in 1..Len(dataQ') :
         \/ i \in 1..Len(dataQ) /\ dataQ'[i] = dataQ[i]
         \/ \E k \in 1..Len(ResendWindow) : dataQ'[i] = ResendWindow[k]
  <2>1. ResendWindow \in Seq(Packet)
    BY <1>1, ResendWindowType
  <2> QED
    BY <1>1, <1>2, <2>1, SendAllFacts
<1>5. \A i \in 1..Len(dataQ') : /\ dataQ'[i] = DataPacket(dataQ'[i].seqNo, 0)
                                /\ dataQ'[i].seqNo < nextseqnum
  BY <1>3, <1>4 DEF Agreement, PacketsGenuine, WindowsAgree
<1>6. OutputIsPrefix' /\ ServerPosition' /\ InputPosition' /\ (base >= 1)'
  BY <1>2 DEF Agreement, OutputIsPrefix, ServerPosition, InputPosition
<1>7. ResendsWhatWasSent' /\ DeathPosition'
  BY <1>2 DEF Agreement, ResendsWhatWasSent, DeathPosition, EndOfBuffer
<1>8. WindowsAgree' /\ PacketsGenuine'
  BY <1>2, <1>5 DEF Agreement, WindowsAgree, PacketsGenuine
<1> QED
  BY <1>6, <1>7, <1>8 DEF Agreement

(* The oldest packet in transit was in transit, and so was what is left    *)
(* when it is taken.                                                       *)
LEMMA QueueTail ==
    ASSUME NEW q \in Seq(Packet), Readable(q)
    PROVE  /\ Head(q) \in Packet
           /\ \E k \in 1..Len(q) : Head(q) = q[k]
           /\ \A i \in 1..Len(Tail(q)) : \E k \in 1..Len(q) : Tail(q)[i] = q[k]
<1>1. Head(q) \in Packet /\ Head(q) = q[1] /\ Len(q) >= 1
  BY RecvFromFacts
<1>2. ASSUME NEW i \in 1..Len(Tail(q))
      PROVE  \E k \in 1..Len(q) : Tail(q)[i] = q[k]
  <2>1. i + 1 \in 1..Len(q) /\ Tail(q)[i] = q[i + 1]
    BY RecvFromFacts
  <2> QED
    BY <2>1
<1>3. Len(q) \in Nat
  OBVIOUS
<1>4. 1 \in 1..Len(q)
  BY <1>1, <1>3
<1> QED
  BY <1>1, <1>2, <1>4

(* The same of the two buffers: reading takes a packet out and adds none.  *)
LEMMA QueueTails ==
    ASSUME TypeOK
    PROVE  /\ Readable(dataQ) =>
                 /\ Head(dataQ) \in Packet
                 /\ \E k \in 1..Len(dataQ) : Head(dataQ) = dataQ[k]
                 /\ \A i \in 1..Len(Tail(dataQ)) :
                       \E k \in 1..Len(dataQ) : Tail(dataQ)[i] = dataQ[k]
           /\ Readable(ackQ) =>
                 /\ Head(ackQ) \in Packet
                 /\ \E k \in 1..Len(ackQ) : Head(ackQ) = ackQ[k]
                 /\ \A i \in 1..Len(Tail(ackQ)) :
                       \E k \in 1..Len(ackQ) : Tail(ackQ)[i] = ackQ[k]
<1>1. dataQ \in Seq(Packet) /\ ackQ \in Seq(Packet)
  BY DEF TypeOK
<1> QED
  BY <1>1, QueueTail

(* The window only moves forward.                                          *)
LEMMA WindowSlides ==
    ASSUME NEW old \in Nat, NEW new \in Nat, NEW n \in Nat,
           new > old, n <= old + WINDOW_SIZE
    PROVE  n <= new + WINDOW_SIZE
  BY WindowAssumption

(* A new acknowledgement names a packet the server has, so the window does *)
(* not slide past the server, and it carries no FIN.                       *)
LEMMA NewAckStep ==
    ASSUME TypeOK, Agreement, NewAck
    PROVE  Agreement'
<1> DEFINE ack == Head(ackQ)
<1>1. /\ base \in Nat /\ nextseqnum \in Nat /\ expectedSeqNo \in Nat
      /\ WINDOW_SIZE \in Nat \ {0}
      /\ base >= 1
  BY WindowAssumption DEF TypeOK, Agreement
<1>2. /\ Readable(ackQ) /\ ackQ' = Tail(ackQ)
      /\ ack.seqNo >= base /\ base' = ack.seqNo + 1
      /\ UNCHANGED <<nextseqnum, sent_packets, bufFirst, currseq, fp,
                     server, expectedSeqNo, snd_pkt, written>>
      /\ client = "running"
  BY DEF NewAck, inputVars, serverVars, AckedUpTo, Selecting
<1>3. ack.seqNo \in Nat /\ ack.seqNo < expectedSeqNo
  BY <1>2, QueueTails, PacketFields DEF Agreement, WindowsAgree
<1>4. ack.finalPacket = 0
  <2>1. ack.seqNo > 0
    BY <1>1, <1>2, <1>3
  <2> QED
    BY <1>2, <2>1, QueueTails DEF Agreement, PacketsGenuine
<1>5. client' = client /\ dataQ' = dataQ
  BY <1>4 DEF NewAck
<1>6. base' \in Nat /\ base' > base /\ base' <= expectedSeqNo
  BY <1>1, <1>2, <1>3
<1>7. \A i \in 1..Len(ackQ') : \E k \in 1..Len(ackQ) : ackQ'[i] = ackQ[k]
  BY <1>2, QueueTails
<1>8. OutputIsPrefix' /\ ServerPosition' /\ InputPosition'
  BY <1>2 DEF Agreement, OutputIsPrefix, ServerPosition, InputPosition
<1>9. WindowsAgree'
  <2>1. /\ expectedSeqNo <= nextseqnum /\ nextseqnum <= base + WINDOW_SIZE
        /\ \A i \in 1..Len(ackQ) : ackQ[i].seqNo < expectedSeqNo
        /\ \A i \in 1..Len(dataQ) : dataQ[i].seqNo < nextseqnum
    BY DEF Agreement, WindowsAgree
  <2>2. nextseqnum <= base' + WINDOW_SIZE
    BY <1>1, <1>6, <2>1, WindowSlides
  <2> QED
    BY <1>2, <1>5, <1>6, <1>7, <2>1, <2>2 DEF WindowsAgree
<1>10. ResendsWhatWasSent'
  <2>1. \A n \in base' .. nextseqnum - 1 : n \in base .. nextseqnum - 1
    BY <1>1, <1>6
  <2> QED
    BY <1>2, <2>1 DEF Agreement, ResendsWhatWasSent
<1>11. PacketsGenuine'
  BY <1>2, <1>5, <1>7 DEF Agreement, PacketsGenuine
<1>12. DeathPosition'
  BY <1>2, <1>5 DEF DeathPosition
<1>13. base' >= 1
  BY <1>1, <1>6
<1> QED
  BY <1>8, <1>9, <1>10, <1>11, <1>12, <1>13 DEF Agreement

(* A packet or an old acknowledgement is gone, or a program has died:      *)
(* nothing the two windows depend on has changed.                          *)
LEMMA LossStep ==
    ASSUME TypeOK, Agreement,
           \/ OldAck \/ SelectFails \/ ReceiveFails \/ DropPacket
           \/ UNCHANGED vars
    PROVE  Agreement'
<1>1. UNCHANGED <<base, nextseqnum, sent_packets, bufFirst, currseq, fp,
                  expectedSeqNo, snd_pkt, written>>
  BY DEF OldAck, SelectFails, ReceiveFails, DropPacket, vars, inputVars, serverVars
<1>2. client' = client \/ client' = "select_failed"
  BY DEF OldAck, SelectFails, ReceiveFails, DropPacket, vars
<1>3. /\ dataQ' = dataQ \/ (Readable(dataQ) /\ dataQ' = Tail(dataQ))
      /\ ackQ' = ackQ \/ (Readable(ackQ) /\ ackQ' = Tail(ackQ))
  BY DEF OldAck, SelectFails, ReceiveFails, DropPacket, Receiving, vars
<1>4. /\ \A i \in 1..Len(dataQ') : \E k \in 1..Len(dataQ) : dataQ'[i] = dataQ[k]
      /\ \A i \in 1..Len(ackQ') : \E k \in 1..Len(ackQ) : ackQ'[i] = ackQ[k]
  <2>1. \A i \in 1..Len(dataQ') : \E k \in 1..Len(dataQ) : dataQ'[i] = dataQ[k]
    <3>1. CASE dataQ' = dataQ
      BY <3>1
    <3>2. CASE Readable(dataQ) /\ dataQ' = Tail(dataQ)
      BY <3>2, QueueTails
    <3> QED
      BY <1>3, <3>1, <3>2
  <2>2. \A i \in 1..Len(ackQ') : \E k \in 1..Len(ackQ) : ackQ'[i] = ackQ[k]
    <3>1. CASE ackQ' = ackQ
      BY <3>1
    <3>2. CASE Readable(ackQ) /\ ackQ' = Tail(ackQ)
      BY <3>2, QueueTails
    <3> QED
      BY <1>3, <3>1, <3>2
  <2> QED
    BY <2>1, <2>2
<1>5. OutputIsPrefix' /\ ServerPosition' /\ InputPosition' /\ (base >= 1)'
  BY <1>1 DEF Agreement, OutputIsPrefix, ServerPosition, InputPosition
<1>6. ResendsWhatWasSent' /\ DeathPosition'
  BY <1>1, <1>2 DEF Agreement, ResendsWhatWasSent, DeathPosition, EndOfBuffer
<1>7. WindowsAgree' /\ PacketsGenuine'
  BY <1>1, <1>4 DEF Agreement, WindowsAgree, PacketsGenuine
<1> QED
  BY <1>5, <1>6, <1>7 DEF Agreement

(* The server writes a packet: the one behind the last it wrote, with the  *)
(* chunk its number says; its acknowledgement names it.                    *)
LEMMA AcceptPacketStep ==
    ASSUME TypeOK, Agreement, AcceptPacket
    PROVE  Agreement'
<1> DEFINE pkt == Head(dataQ)
<1>1. /\ base \in Nat /\ nextseqnum \in Nat /\ expectedSeqNo \in Nat
      /\ written \in Seq(0..NumChunks)
      /\ ackQ \in Seq(Packet) /\ Len(ackQ) <= Cap
      /\ snd_pkt \in Packet
  BY DEF TypeOK
<1>2. /\ Readable(dataQ) /\ dataQ' = Tail(dataQ)
      /\ pkt.seqNo = expectedSeqNo
      /\ UNCHANGED <<client, base, nextseqnum, sent_packets, bufFirst, currseq, fp>>
  BY DEF AcceptPacket, Receiving, IsExpected, inputVars
<1>3. pkt \in Packet /\ pkt = DataPacket(expectedSeqNo, 0) /\ expectedSeqNo < nextseqnum
  BY <1>2, QueueTails DEF Agreement, PacketsGenuine, WindowsAgree
<1>4. /\ pkt.isAck = 0 /\ pkt.finalPacket = 0
      /\ pkt.payload = Chunk(expectedSeqNo) /\ pkt.payload \in 0..NumChunks
  BY <1>3, PacketFields DEF DataPacket
<1>5. /\ written' = Append(written, Chunk(expectedSeqNo))
      /\ snd_pkt' = AckFor(pkt)
      /\ expectedSeqNo' = expectedSeqNo + 1
      /\ ackQ' = SendTo(ackQ, snd_pkt')
  BY <1>4 DEF AcceptPacket
<1>6. /\ snd_pkt' \in Packet /\ snd_pkt'.seqNo = expectedSeqNo
      /\ snd_pkt'.finalPacket = 0 /\ snd_pkt'.isAck = 1
  <2>1. snd_pkt'.isAck = snd_pkt.isAck
    BY <1>1, <1>5 DEF AckFor, Packet
  <2>2. snd_pkt.isAck = 1
    BY DEF Agreement, PacketsGenuine
  <2>3. snd_pkt'.seqNo = expectedSeqNo /\ snd_pkt'.finalPacket = 0
    BY <1>1, <1>4, <1>5 DEF AckFor, Packet
  <2> QED
    BY <1>1, <1>3, <1>5, <2>1, <2>2, <2>3, AckForType
<1>7. \A i \in 1..Len(dataQ') : \E k \in 1..Len(dataQ) : dataQ'[i] = dataQ[k]
  BY <1>2, QueueTails
<1>8. \A i \in 1..Len(ackQ') :
         \/ i \in 1..Len(ackQ) /\ ackQ'[i] = ackQ[i]
         \/ ackQ'[i] = snd_pkt'
  <2> DEFINE reply == snd_pkt'
  <2>1. reply \in Packet /\ ackQ' = SendTo(ackQ, reply)
    BY <1>5, <1>6
  <2> HIDE DEF reply
  <2>2. \A i \in 1..Len(ackQ') :
           \/ i \in 1..Len(ackQ) /\ ackQ'[i] = ackQ[i]
           \/ ackQ'[i] = reply
    BY <1>1, <2>1, SendToFacts
  <2> QED
    BY <2>2 DEF reply
<1>9. expectedSeqNo = Len(written) + 1
  BY DEF Agreement, ServerPosition
<1>10. OutputIsPrefix' /\ ServerPosition'
  <2>1. /\ Len(written') = Len(written) + 1
        /\ \A i \in 1..Len(written) : written'[i] = written[i]
        /\ written'[Len(written) + 1] = Chunk(expectedSeqNo)
    BY <1>1, <1>4, <1>5
  <2>2. Len(written) \in Nat
    BY <1>1
  <2>3. ServerPosition'
    BY <1>5, <1>9, <2>1 DEF ServerPosition
  <2>4. OutputIsPrefix'
    BY <1>9, <2>1, <2>2 DEF Agreement, OutputIsPrefix
  <2> QED
    BY <2>3, <2>4
<1>11. WindowsAgree'
  <2>1. /\ base <= expectedSeqNo /\ nextseqnum <= base + WINDOW_SIZE
        /\ \A i \in 1..Len(ackQ) : ackQ[i].seqNo < expectedSeqNo
        /\ \A i \in 1..Len(dataQ) : dataQ[i].seqNo < nextseqnum
    BY DEF Agreement, WindowsAgree
  <2>2. \A i \in 1..Len(ackQ) : ackQ[i].seqNo \in Nat
    BY <1>1, PacketFields
  <2>3. \A i \in 1..Len(ackQ') : ackQ'[i].seqNo < expectedSeqNo + 1
    BY <1>1, <1>6, <1>8, <2>1, <2>2
  <2>4. base <= expectedSeqNo + 1 /\ expectedSeqNo + 1 <= nextseqnum
    BY <1>1, <1>3, <2>1
  <2> QED
    BY <1>2, <1>5, <1>7, <2>1, <2>3, <2>4 DEF WindowsAgree
<1>12. PacketsGenuine'
  <2>1. \A i \in 1..Len(ackQ') :
           ackQ'[i].isAck = 1 /\ (ackQ'[i].seqNo > 0 => ackQ'[i].finalPacket = 0)
    BY <1>6, <1>8 DEF Agreement, PacketsGenuine
  <2>2. snd_pkt'.seqNo = expectedSeqNo' - 1
    BY <1>1, <1>5, <1>6
  <2> QED
    BY <1>6, <1>7, <2>1, <2>2 DEF Agreement, PacketsGenuine
<1>13. InputPosition' /\ ResendsWhatWasSent' /\ DeathPosition' /\ (base >= 1)'
  BY <1>2 DEF Agreement, InputPosition, ResendsWhatWasSent, DeathPosition, EndOfBuffer
<1> QED
  BY <1>10, <1>11, <1>12, <1>13 DEF Agreement

(* A packet out of order: the acknowledgement repeated is the last one.    *)
LEMMA RepeatAckStep ==
    ASSUME TypeOK, Agreement, RepeatAck
    PROVE  Agreement'
<1>1. /\ ackQ \in Seq(Packet) /\ Len(ackQ) <= Cap
      /\ snd_pkt \in Packet /\ expectedSeqNo \in Nat
  BY DEF TypeOK
<1>2. /\ Readable(dataQ) /\ dataQ' = Tail(dataQ)
      /\ ackQ' = SendTo(ackQ, snd_pkt)
      /\ UNCHANGED <<client, base, nextseqnum, sent_packets, bufFirst, currseq, fp,
                     server, expectedSeqNo, snd_pkt, written>>
  BY DEF RepeatAck, Receiving, inputVars, serverVars
<1>3. \A i \in 1..Len(dataQ') : \E k \in 1..Len(dataQ) : dataQ'[i] = dataQ[k]
  BY <1>2, QueueTails
<1>4. \A i \in 1..Len(ackQ') :
         \/ i \in 1..Len(ackQ) /\ ackQ'[i] = ackQ[i]
         \/ ackQ'[i] = snd_pkt
  BY <1>1, <1>2, SendToFacts
<1>5. snd_pkt.seqNo < expectedSeqNo
  BY <1>1 DEF Agreement, PacketsGenuine
<1>6. WindowsAgree'
  BY <1>2, <1>3, <1>4, <1>5 DEF Agreement, WindowsAgree
<1>7. PacketsGenuine'
  BY <1>2, <1>3, <1>4 DEF Agreement, PacketsGenuine
<1>8. OutputIsPrefix' /\ ServerPosition' /\ InputPosition' /\ (base >= 1)'
  BY <1>2 DEF Agreement, OutputIsPrefix, ServerPosition, InputPosition
<1>9. ResendsWhatWasSent' /\ DeathPosition'
  BY <1>2 DEF Agreement, ResendsWhatWasSent, DeathPosition, EndOfBuffer
<1> QED
  BY <1>6, <1>7, <1>8, <1>9 DEF Agreement

-----------------------------------------------------------------------------
(* Both windows, both sockets and the file stay in agreement.              *)
LEMMA AgreementStep == TypeOK /\ Agreement /\ [Next]_vars => Agreement'
  BY SendNextStep, DieAtEndOfInputStep, TimeoutStep, NewAckStep, LossStep,
     AcceptPacketStep, RepeatAckStep DEF Next, Client, Server

(* The window does not begin behind its end.                               *)
LEMMA AgreementOrdersWindow == TypeOK /\ Agreement => base <= nextseqnum
<1>1. TypeOK => base \in Nat /\ expectedSeqNo \in Nat /\ nextseqnum \in Nat
  BY DEF TypeOK
<1>2. Agreement => base <= expectedSeqNo /\ expectedSeqNo <= nextseqnum
  BY DEF Agreement, WindowsAgree
<1> QED
  BY <1>1, <1>2

(* Both programs start in agreement.                                       *)
LEMMA InitTypeAndAgreement == Init => TypeOK /\ Agreement
<1> SUFFICES ASSUME Init
             PROVE  TypeOK /\ Agreement
  OBVIOUS
<1>1. WINDOW_SIZE \in Nat /\ NumChunks \in Nat /\ 0 \in 0 .. PacketsPerBuffer - 1
  <2>1. PacketsPerBuffer \in Nat /\ PacketsPerBuffer >= WINDOW_SIZE
    BY BufferAssumption
  <2>2. WINDOW_SIZE \in Nat /\ WINDOW_SIZE >= 1
    BY WindowAssumption
  <2>3. PacketsPerBuffer >= 1
    BY <2>1, <2>2
  <2> QED
    BY <2>1, <2>2, <2>3, InputAssumption
<1>2. /\ snd_pkt \in Packet /\ snd_pkt.isAck = 1 /\ snd_pkt.seqNo = 0
  <2>1. PICK f \in {0, 1} :
           snd_pkt = [seqNo |-> 0, isAck |-> 1, finalPacket |-> f, payload |-> 0]
    BY DEF Init, Empty
  <2>2. 0 \in 0..NumChunks
    BY <1>1
  <2> QED
    BY <2>1, <2>2 DEF Packet
<1>3. TypeOK
  <2>1. sent_packets \in [Slots -> Packet]
    BY DataPacketType DEF Init
  <2>2. /\ dataQ = <<>> /\ ackQ = <<>> /\ written = <<>>
        /\ <<>> \in Seq(Packet) /\ <<>> \in Seq(0..NumChunks) /\ Len(<<>>) = 0
    BY DEF Init
  <2>3. 0 <= Cap
    BY CapAssumption
  <2> QED
    BY <1>1, <1>2, <2>1, <2>2, <2>3 DEF Init, TypeOK
<1>4. OutputIsPrefix /\ ServerPosition
  BY DEF Init, OutputIsPrefix, ServerPosition
<1>5. WindowsAgree /\ ResendsWhatWasSent
  BY <1>1 DEF Init, WindowsAgree, ResendsWhatWasSent
<1>6. InputPosition /\ DeathPosition
  BY DEF Init, InputPosition, DeathPosition
<1>7. PacketsGenuine
  BY <1>2 DEF Init, PacketsGenuine
<1>8. Agreement
  BY <1>4, <1>5, <1>6, <1>7 DEF Init, Agreement
<1> QED
  BY <1>3, <1>8

(* The agreement holds in every reachable state, for every window, buffer  *)
(* and input, whatever the socket buffers hold and whatever is dropped.    *)
THEOREM AlwaysAgreement == Spec => [](TypeOK /\ Agreement)
<1>1. TypeOK /\ Agreement /\ [Next]_vars => (TypeOK /\ Agreement)'
  BY TypeStep, AgreementStep, AgreementOrdersWindow
<1> QED
  BY <1>1, InitTypeAndAgreement, PTL DEF Spec

(* Every value stays in its type; in particular sent_packets is only ever  *)
(* indexed inside its slots.                                               *)
THEOREM TypeCorrect == Spec => []TypeOK
  BY AlwaysAgreement, PTL

(* output.txt is at all times the beginning of input.txt: nothing lost,    *)
(* repeated or reordered by client.c and server.c of GBN/UDP.              *)
THEOREM OutputAlwaysPrefix == Spec => []OutputIsPrefix
<1>1. Agreement => OutputIsPrefix
  BY DEF Agreement
<1> QED
  BY <1>1, AlwaysAgreement, PTL

(* base, expectedSeqNo and nextseqnum stay ordered, within one window, and *)
(* nothing in transit is ahead of them.                                    *)
THEOREM WindowsAlwaysAgree == Spec => []WindowsAgree
<1>1. Agreement => WindowsAgree
  BY DEF Agreement
<1> QED
  BY <1>1, AlwaysAgreement, PTL

(* The WINDOW_SIZE slots of sent_packets are enough: an unacknowledged     *)
(* packet is never overwritten by a newer one.                             *)
THEOREM SlotsNeverOverwritten == Spec => []ResendsWhatWasSent
<1>1. Agreement => ResendsWhatWasSent
  BY DEF Agreement
<1> QED
  BY <1>1, AlwaysAgreement, PTL

(* A window that does not reach back behind the last buffer.               *)
LEMMA WindowInLastBuffer ==
    ASSUME NEW first \in Nat, NEW pos \in Nat, NEW size \in Nat, NEW win \in Nat,
           NEW low \in Nat, NEW next \in Nat, NEW exp \in Nat,
           NEW done \in Nat, NEW data \in Nat,
           pos + 1 >= size, size >= win, next = first + pos + 1,
           next < low + win, low <= exp, exp = done + 1, first >= data
    PROVE  done >= data
  OBVIOUS

(* When the client dies at the end of its input the file has been written  *)
(* completely.  This rests on the buffer holding at least a window of      *)
(* packets (BufferAssumption): the client dies with the last packet of a   *)
(* buffer of empty ones, and the window reaches back no further than that  *)
(* buffer.                                                                 *)
THEOREM ClientDiesAfterDelivery == Spec => []DeathAfterDelivery
<1>1. ASSUME TypeOK, Agreement
      PROVE  DeathAfterDelivery
  <2> SUFFICES ASSUME client = "no_input"
               PROVE  Len(written) >= NumChunks
    BY DEF DeathAfterDelivery
  <2>1. /\ base \in Nat /\ nextseqnum \in Nat /\ expectedSeqNo \in Nat
        /\ bufFirst \in Nat /\ currseq \in 0 .. PacketsPerBuffer - 1
    BY <1>1 DEF TypeOK
  <2>2. Len(written) \in Nat
    <3>1. written \in Seq(0..NumChunks)
      BY <1>1 DEF TypeOK
    <3> QED
      BY <3>1
  <2>3. WINDOW_SIZE \in Nat /\ NumChunks \in Nat
    BY WindowAssumption, InputAssumption
  <2>4. /\ PacketsPerBuffer \in Nat /\ currseq \in Nat
        /\ PacketsPerBuffer >= WINDOW_SIZE
    BY <2>1, BufferAssumption
  <2>5. /\ currseq + 1 >= PacketsPerBuffer
        /\ fp = "NULL" /\ nextseqnum < base + WINDOW_SIZE
    BY <1>1 DEF Agreement, DeathPosition, EndOfBuffer
  <2>6. bufFirst >= NumChunks /\ nextseqnum = bufFirst + currseq + 1
    BY <1>1, <2>5 DEF Agreement, InputPosition
  <2>7. base <= expectedSeqNo /\ expectedSeqNo = Len(written) + 1
    BY <1>1 DEF Agreement, WindowsAgree, ServerPosition
  <2> QED
    BY <2>1, <2>2, <2>3, <2>4, <2>5, <2>6, <2>7, WindowInLastBuffer
<1> QED
  BY <1>1, AlwaysAgreement, PTL

-----------------------------------------------------------------------------
(* The items handed to the transfer so far, as the refinement reads them.  *)
Submitted(n) == [i \in 1 .. n - 1 |-> Chunk(i)]

(* They are a sequence that grows by the chunk of the next packet.         *)
LEMMA SubmittedFacts ==
    ASSUME NEW n \in Nat, n >= 1
    PROVE  /\ Submitted(n) \in Seq(0..NumChunks)
           /\ Len(Submitted(n)) = n - 1
           /\ \A i \in 1 .. n - 1 : Submitted(n)[i] = Chunk(i)
           /\ Chunk(n) \in 0..NumChunks
           /\ Submitted(n + 1) = Append(Submitted(n), Chunk(n))
<1>1. \A i \in 1..n : Chunk(i) \in 0..NumChunks
  BY ChunkType
<1>2. n - 1 \in Nat /\ \A i \in 1 .. n - 1 : i \in 1..n
  OBVIOUS
<1>3. /\ Submitted(n) \in Seq(0..NumChunks) /\ Len(Submitted(n)) = n - 1
      /\ \A i \in 1 .. n - 1 : Submitted(n)[i] = Chunk(i)
  BY <1>1, <1>2 DEF Submitted
<1>4. Chunk(n) \in 0..NumChunks
  BY ChunkType
<1>5. Submitted(n + 1) = [i \in 1..n |-> Chunk(i)]
  <2>1. n + 1 - 1 = n
    OBVIOUS
  <2> QED
    BY <2>1 DEF Submitted
<1>6. /\ Submitted(n + 1) \in Seq(0..NumChunks) /\ Len(Submitted(n + 1)) = n
      /\ \A i \in 1..n : Submitted(n + 1)[i] = Chunk(i)
  <2> DEFINE whole == [i \in 1..n |-> Chunk(i)]
  <2>1. whole \in Seq(0..NumChunks) /\ Len(whole) = n
    BY <1>1
  <2>2. \A i \in 1..n : whole[i] = Chunk(i)
    OBVIOUS
  <2> QED
    BY <1>5, <2>1, <2>2
<1>7. /\ Append(Submitted(n), Chunk(n)) \in Seq(0..NumChunks)
      /\ Len(Append(Submitted(n), Chunk(n))) = n
      /\ \A i \in 1..n : Append(Submitted(n), Chunk(n))[i] = Chunk(i)
  BY <1>2, <1>3, <1>4
<1>8. Submitted(n + 1) = Append(Submitted(n), Chunk(n))
  BY <1>6, <1>7, SeqEqual
<1> QED
  BY <1>3, <1>4, <1>8

(* Each step of GBN/UDP is a step of the windowed transfer: a packet sent  *)
(* for the first time is a Submit, one written a Deliver, an               *)
(* acknowledgement that slides the window a Confirm; all else is a stutter.*)
LEMMA StepImplementsTransfer ==
    TypeOK /\ Agreement /\ (TypeOK /\ Agreement)' /\ [Next]_vars =>
        [Transfer!Next]_(Transfer!absVars)
<1> SUFFICES ASSUME TypeOK, Agreement, (TypeOK /\ Agreement)', [Next]_vars
             PROVE  [Transfer!Next]_(Transfer!absVars)
  OBVIOUS
<1>1. /\ base \in Nat /\ nextseqnum \in Nat /\ expectedSeqNo \in Nat
      /\ base >= 1 /\ base <= nextseqnum /\ nextseqnum >= 1
  <2>1. base \in Nat /\ nextseqnum \in Nat /\ expectedSeqNo \in Nat /\ base >= 1
    BY DEF TypeOK, Agreement
  <2>2. base <= nextseqnum
    BY AgreementOrdersWindow
  <2>3. nextseqnum >= 1
    BY <2>1, <2>2
  <2> QED
    BY <2>1, <2>2, <2>3
<1>2. WINDOW_SIZE \in Nat
  BY WindowAssumption
<1>3. CASE SendNext
  <2>1. /\ nextseqnum < base + WINDOW_SIZE
        /\ nextseqnum' = nextseqnum + 1
        /\ UNCHANGED <<base, written>>
    BY <1>3 DEF SendNext, WindowNotFull, serverVars
  <2>2. Len(Submitted(nextseqnum)) = nextseqnum - 1
    BY <1>1, SubmittedFacts
  <2>3. Len(Submitted(nextseqnum)) < base - 1 + WINDOW_SIZE
    BY <1>1, <1>2, <2>1, <2>2
  <2>4. /\ Submitted(nextseqnum') = Append(Submitted(nextseqnum), Chunk(nextseqnum))
        /\ Chunk(nextseqnum) \in 0..NumChunks
    BY <1>1, <2>1, SubmittedFacts
  <2>5. Transfer!Submit
    BY <2>1, <2>3, <2>4 DEF Transfer!Submit, Submitted
  <2> QED
    BY <2>5 DEF Transfer!Next
<1>4. CASE NewAck
  <2>1. /\ base' = Head(ackQ).seqNo + 1 /\ Head(ackQ).seqNo >= base
        /\ UNCHANGED <<nextseqnum, written, expectedSeqNo>>
        /\ Readable(ackQ)
    BY <1>4 DEF NewAck, AckedUpTo, serverVars
  <2>2. Head(ackQ).seqNo \in Nat
    BY <2>1, QueueTails, PacketFields
  <2>3. base' <= expectedSeqNo'
    BY DEF Agreement, WindowsAgree
  <2>4. expectedSeqNo = Len(written) + 1 /\ Len(written) \in Nat
    BY DEF Agreement, ServerPosition, TypeOK
  <2>5. base' - 1 \in (base - 1) + 1 .. Len(written)
    <3> DEFINE acked == Head(ackQ).seqNo
    <3>1. acked \in Nat /\ acked >= base /\ acked + 1 <= expectedSeqNo
      BY <2>1, <2>2, <2>3
    <3>2. acked \in (base - 1) + 1 .. Len(written)
      BY <1>1, <2>4, <3>1
    <3>3. base' - 1 = acked
      BY <2>1, <2>2
    <3> QED
      BY <3>2, <3>3
  <2>6. Transfer!Confirm
    BY <2>1, <2>5 DEF Transfer!Confirm
  <2> QED
    BY <2>6 DEF Transfer!Next
<1>5. CASE AcceptPacket
  <2> DEFINE pkt == Head(dataQ)
  <2>1. /\ Readable(dataQ) /\ pkt.seqNo = expectedSeqNo
        /\ UNCHANGED <<base, nextseqnum>>
    BY <1>5 DEF AcceptPacket, Receiving, IsExpected
  <2>2. pkt = DataPacket(expectedSeqNo, 0) /\ expectedSeqNo < nextseqnum
    BY <2>1, QueueTails DEF Agreement, PacketsGenuine, WindowsAgree
  <2>3. pkt.isAck = 0 /\ pkt.payload = Chunk(expectedSeqNo)
    BY <2>2 DEF DataPacket
  <2>4. written' = Append(written, Chunk(expectedSeqNo))
    BY <1>5, <2>3 DEF AcceptPacket
  <2>5. expectedSeqNo = Len(written) + 1 /\ Len(written) \in Nat
    BY DEF Agreement, ServerPosition, TypeOK
  <2>6. /\ Len(written) < Len(Submitted(nextseqnum))
        /\ Submitted(nextseqnum)[Len(written) + 1] = Chunk(expectedSeqNo)
    <3>1. expectedSeqNo \in 1 .. nextseqnum - 1
      BY <1>1, <2>2, <2>5
    <3>2. /\ Len(Submitted(nextseqnum)) = nextseqnum - 1
          /\ Submitted(nextseqnum)[expectedSeqNo] = Chunk(expectedSeqNo)
      BY <1>1, <3>1, SubmittedFacts
    <3>3. Len(written) < nextseqnum - 1
      BY <1>1, <2>2, <2>5
    <3> QED
      BY <2>5, <3>2, <3>3
  <2>7. Transfer!Deliver
    BY <2>1, <2>4, <2>6 DEF Transfer!Deliver, Submitted
  <2> QED
    BY <2>7 DEF Transfer!Next
<1>6. ASSUME \/ DieAtEndOfInput \/ Timeout \/ OldAck \/ SelectFails
             \/ ReceiveFails \/ DropPacket \/ RepeatAck \/ UNCHANGED vars
      PROVE  UNCHANGED Transfer!absVars
  <2>1. UNCHANGED <<base, nextseqnum, written>>
    BY <1>6 DEF DieAtEndOfInput, Timeout, OldAck, SelectFails, ReceiveFails,
                DropPacket, RepeatAck, vars, serverVars
  <2> QED
    BY <2>1 DEF Transfer!absVars
<1> QED
  BY <1>3, <1>4, <1>5, <1>6 DEF Next, Client, Server

(* The Go-Back-N pair implements the windowed transfer, with the window    *)
(* client.c declares.                                                      *)
THEOREM GoBackNImplementsTransfer == Spec => ImplementsTransfer
<1>1. Init => Transfer!Init
  <2> SUFFICES ASSUME Init
               PROVE  Transfer!Init
    OBVIOUS
  <2>1. nextseqnum = 1 /\ base = 1 /\ written = <<>>
    BY DEF Init
  <2>2. [i \in 1 .. nextseqnum - 1 |-> Chunk(i)] = <<>>
    <3>1. Submitted(1) \in Seq(0..NumChunks) /\ Len(Submitted(1)) = 0
      BY SubmittedFacts
    <3>2. Submitted(1) = <<>>
      BY <3>1, EmptySeq
    <3> QED
      BY <2>1, <3>2 DEF Submitted
  <2> QED
    BY <2>1, <2>2 DEF Transfer!Init
<1> QED
  BY <1>1, StepImplementsTransfer, AlwaysAgreement, PTL
  DEF Spec, ImplementsTransfer, Transfer!Spec

-----------------------------------------------------------------------------
(* The pair of Practice-RDT/GBN/TCP.  A packet of the stream, and the one  *)
(* the server has in *pkt, is what its number says and was sent.           *)
Genuine(p, next) == p = DataPacket(p.seqNo, 0) /\ p.seqNo < next

StreamGenuine ==
    /\ \A i \in 1..Len(dataQ) : Genuine(dataQ[i], nextseqnum)
    /\ Genuine(lastPkt, nextseqnum)
    /\ snd_pkt.seqNo = expectedSeqNo - 1

(* The client that has seen the end of the data has sent all of it, and it *)
(* sees that end before it comes to the end of a buffer without data.      *)
EndPosition ==
    /\ check => nextseqnum > NumChunks
    /\ fp = "NULL" /\ currseq > 0 => check
    /\ client = "finished" => Len(written) >= NumChunks

(* What the two windows are to each other is as over UDP.                  *)
TcpAgreement ==
    /\ base >= 1
    /\ OutputIsPrefix
    /\ WindowsAgree
    /\ ResendsWhatWasSent
    /\ InputPosition
    /\ ServerPosition
    /\ StreamGenuine
    /\ EndPosition

(* The numbers of the two programs and the order they are in.              *)
LEMMA TcpNumbers ==
    ASSUME TcpTypeOK, TcpAgreement
    PROVE  /\ base \in Nat /\ nextseqnum \in Nat /\ expectedSeqNo \in Nat
           /\ base >= 1 /\ base <= expectedSeqNo /\ expectedSeqNo <= nextseqnum
           /\ base <= nextseqnum /\ nextseqnum <= base + WINDOW_SIZE
           /\ bufFirst \in Nat /\ currseq \in Nat /\ currseq < PacketsPerBuffer
           /\ WINDOW_SIZE \in Nat \ {0} /\ NumChunks \in Nat \ {0}
           /\ PacketsPerBuffer \in Nat /\ PacketsPerBuffer >= 2
           /\ Cap \in Nat /\ written \in Seq(0..NumChunks) /\ Len(written) \in Nat
<1>1. /\ base \in Nat /\ nextseqnum \in Nat /\ expectedSeqNo \in Nat
      /\ bufFirst \in Nat /\ currseq \in 0 .. PacketsPerBuffer - 1
      /\ written \in Seq(0..NumChunks)
  BY DEF TcpTypeOK
<1>2. /\ base >= 1 /\ base <= expectedSeqNo /\ expectedSeqNo <= nextseqnum
      /\ nextseqnum <= base + WINDOW_SIZE
  BY DEF TcpAgreement, WindowsAgree
<1>3. /\ WINDOW_SIZE \in Nat \ {0} /\ NumChunks \in Nat \ {0} /\ Cap \in Nat
      /\ PacketsPerBuffer \in Nat /\ PacketsPerBuffer >= 2
  BY WindowAssumption, InputAssumption, CapAssumption, BufferAssumption,
     TcpBufferAssumption
<1>4. base <= nextseqnum
  BY <1>1, <1>2
<1>5. currseq \in Nat /\ currseq < PacketsPerBuffer
  BY <1>1, <1>3
<1>6. Len(written) \in Nat
  BY <1>1
<1> QED
  BY <1>1, <1>2, <1>3, <1>4, <1>5, <1>6

(* The same for the windows alone. *)
LEMMA TcpWindow ==
    ASSUME TcpTypeOK, TcpAgreement
    PROVE  /\ base \in Nat /\ nextseqnum \in Nat /\ expectedSeqNo \in Nat
           /\ base >= 1 /\ base <= expectedSeqNo /\ expectedSeqNo <= nextseqnum
           /\ nextseqnum <= base + WINDOW_SIZE
           /\ WINDOW_SIZE \in Nat \ {0} /\ Cap \in Nat
  BY TcpNumbers

(* send() puts a message behind the others. *)
LEMMA StreamAppend ==
    ASSUME NEW S, NEW q \in Seq(S), NEW m \in S
    PROVE  /\ Append(q, m) \in Seq(S) /\ Len(Append(q, m)) = Len(q) + 1
           /\ \A i \in 1..Len(Append(q, m)) :
                 \/ i \in 1..Len(q) /\ Append(q, m)[i] = q[i]
                 \/ Append(q, m)[i] = m
  OBVIOUS

(* And a burst behind them. *)
LEMMA StreamConcat ==
    ASSUME NEW S, NEW q \in Seq(S), NEW ms \in Seq(S)
    PROVE  /\ q \o ms \in Seq(S) /\ Len(q \o ms) = Len(q) + Len(ms)
           /\ \A i \in 1..Len(q \o ms) :
                 \/ i \in 1..Len(q) /\ (q \o ms)[i] = q[i]
                 \/ \E k \in 1..Len(ms) : (q \o ms)[i] = ms[k]
<1>1. q \o ms \in Seq(S) /\ Len(q \o ms) = Len(q) + Len(ms)
  BY ConcatProperties
<1>2. ASSUME NEW i \in 1..Len(q \o ms), i \notin 1..Len(q)
      PROVE  \E k \in 1..Len(ms) : (q \o ms)[i] = ms[k]
  <2>1. Len(q) \in Nat /\ Len(ms) \in Nat
    BY LenProperties
  <2>2. i - Len(q) \in 1..Len(ms) /\ (q \o ms)[i] = ms[i - Len(q)]
    BY <1>1, <1>2, <2>1, ConcatProperties
  <2> QED
    BY <2>2
<1>3. ASSUME NEW i \in 1..Len(q \o ms), i \in 1..Len(q)
      PROVE  (q \o ms)[i] = q[i]
  BY <1>1, <1>3, ConcatProperties
<1> QED
  BY <1>1, <1>2, <1>3

(* A packet that was sent stays one when more are sent.                    *)
LEMMA GenuineLater ==
    ASSUME NEW p \in Packet, NEW n \in Nat, Genuine(p, n)
    PROVE  Genuine(p, n + 1)
<1>1. p.seqNo \in Nat
  BY PacketFields
<1> QED
  BY <1>1 DEF Genuine

(* Only behind the end of the file there is nothing to read.               *)
LEMMA ChunkBehindEnd ==
    ASSUME NEW n \in Nat \ {0}, Chunk(n) = Empty
    PROVE  n > NumChunks
  BY InputAssumption DEF Chunk, Empty

-----------------------------------------------------------------------------
(* Both programs start in agreement. *)
LEMMA TcpInitAgreement == TcpInit => TcpTypeOK /\ TcpAgreement
<1> SUFFICES ASSUME TcpInit
             PROVE  TcpTypeOK /\ TcpAgreement
  OBVIOUS
<1>1. TypeOK /\ Agreement
  BY InitTypeAndAgreement DEF TcpInit
<1>2. DataPacket(0, 0) \in Packet
  BY DataPacketType
<1>3. TcpTypeOK
  BY <1>1, <1>2 DEF TypeOK, TcpInit, Init, TcpTypeOK, Connection
<1>4. StreamGenuine
  BY <1>1 DEF Agreement, PacketsGenuine, TcpInit, Init, StreamGenuine, Genuine, DataPacket
<1>5. EndPosition
  BY DEF TcpInit, Init, EndPosition
<1> QED
  BY <1>1, <1>3, <1>4, <1>5 DEF Agreement, TcpAgreement

(* The packet that is sent takes the slot of one already acknowledged, and *)
(* the client looks one packet ahead for the end of the data.              *)
LEMMA TcpSendNextStep ==
    ASSUME TcpTypeOK, TcpAgreement, TcpSendNext
    PROVE  (TcpTypeOK /\ TcpAgreement)'
<1>1. /\ dataQ \in Seq(Packet) /\ sent_packets \in [Slots -> Packet]
      /\ fp \in {"open", "NULL"} /\ lastPkt \in Packet /\ Len(dataQ) \in Nat
  BY DEF TcpTypeOK
<1>2. /\ nextseqnum < base + WINDOW_SIZE /\ ~check /\ client = "running"
      /\ Len(dataQ) < Cap
      /\ ReadInput /\ check' = EndOfData
      /\ dataQ' = Append(dataQ, NextPacket)
      /\ sent_packets' = [sent_packets EXCEPT ![nextseqnum % WINDOW_SIZE] = NextPacket]
      /\ nextseqnum' = nextseqnum + 1
      /\ UNCHANGED <<client, base, tv, ackQ, server, expectedSeqNo, snd_pkt, written,
                     lastPkt, connection>>
  BY DEF TcpSendNext, Sending, WindowNotFull, serverVars
<1>3. nextseqnum = bufFirst + currseq + 1 /\ (fp = "NULL" => bufFirst >= NumChunks)
  BY DEF TcpAgreement, InputPosition
<1>4. NextPacket = DataPacket(nextseqnum, 0)
  BY <1>3 DEF NextPacket, DataPacket, FinalFlag
<1>5. NextPacket \in Packet /\ Genuine(NextPacket, nextseqnum + 1)
  <2>1. NextPacket \in Packet /\ NextPacket.seqNo = nextseqnum
    BY <1>4, TcpNumbers, DataPacketType DEF DataPacket
  <2> QED
    BY <1>4, <2>1, TcpNumbers DEF Genuine
<1>6. /\ dataQ' \in Seq(Packet) /\ Len(dataQ') = Len(dataQ) + 1
      /\ \A i \in 1..Len(dataQ') :
            \/ i \in 1..Len(dataQ) /\ dataQ'[i] = dataQ[i]
            \/ dataQ'[i] = NextPacket
  BY <1>1, <1>2, <1>5, StreamAppend
<1>7. \A i \in 1..Len(dataQ') : Genuine(dataQ'[i], nextseqnum + 1)
  <2>1. \A i \in 1..Len(dataQ) : dataQ[i] \in Packet /\ Genuine(dataQ[i], nextseqnum)
    BY <1>1 DEF TcpAgreement, StreamGenuine
  <2> QED
    BY <1>5, <1>6, <2>1, TcpNumbers, GenuineLater
<1>8. /\ bufFirst' \in Nat /\ currseq' \in 0 .. PacketsPerBuffer - 1
      /\ fp' \in {"open", "NULL"}
  BY <1>2, TcpNumbers, ReadInputType DEF TcpTypeOK
<1>9. TcpTypeOK'
  <2>1. sent_packets' \in [Slots -> Packet]
    BY <1>1, <1>2, <1>5
  <2>2. Len(dataQ') <= Cap /\ nextseqnum' \in Nat
    <3>1. nextseqnum \in Nat /\ Len(dataQ) < Cap /\ nextseqnum' = nextseqnum + 1
      BY <1>2, TcpWindow
    <3>2. Len(dataQ') = Len(dataQ) + 1 /\ Len(dataQ) \in Nat /\ Cap \in Nat
      BY <1>1, <1>6, TcpWindow
    <3> QED
      BY <3>1, <3>2
  <2>3. check' \in BOOLEAN
    BY <1>2 DEF EndOfData
  <2> QED
    BY <1>2, <1>6, <1>8, <2>1, <2>2, <2>3 DEF TcpTypeOK
<1>10. OutputIsPrefix' /\ ServerPosition' /\ base' >= 1
  BY <1>2 DEF TcpAgreement, OutputIsPrefix, ServerPosition
<1>11. WindowsAgree'
  <2>1. \A i \in 1..Len(dataQ') : dataQ'[i].seqNo < nextseqnum + 1
    BY <1>7 DEF Genuine
  <2>2. \A i \in 1..Len(ackQ) : ackQ[i].seqNo < expectedSeqNo
    BY DEF TcpAgreement, WindowsAgree
  <2>3. nextseqnum + 1 <= base + WINDOW_SIZE /\ expectedSeqNo <= nextseqnum + 1
    BY <1>2, TcpWindow
  <2> QED
    BY <1>2, <2>1, <2>2, <2>3, TcpNumbers DEF WindowsAgree
<1>12. ResendsWhatWasSent'
  <2> SUFFICES ASSUME NEW n \in base .. nextseqnum
               PROVE  sent_packets'[n % WINDOW_SIZE] = DataPacket(n, 0)
    BY <1>2, TcpNumbers DEF ResendsWhatWasSent
  <2>1. n \in Nat /\ n % WINDOW_SIZE \in Slots /\ nextseqnum % WINDOW_SIZE \in Slots
    BY TcpNumbers, SlotFacts
  <2>2. CASE n = nextseqnum
    BY <1>1, <1>2, <1>4, <2>1, <2>2
  <2>3. CASE n < nextseqnum
    <3>1. nextseqnum < n + WINDOW_SIZE
      BY <1>2, <2>1, TcpWindow
    <3>2. n % WINDOW_SIZE # nextseqnum % WINDOW_SIZE
      BY <2>1, <2>3, <3>1, TcpNumbers, SlotsDistinct
    <3>3. sent_packets[n % WINDOW_SIZE] = DataPacket(n, 0)
      BY <2>1, <2>3, TcpNumbers DEF TcpAgreement, ResendsWhatWasSent
    <3> QED
      BY <1>1, <1>2, <2>1, <3>2, <3>3
  <2> QED
    BY <2>1, <2>2, <2>3, TcpNumbers
<1>13. StreamGenuine'
  <2>1. Genuine(lastPkt, nextseqnum + 1)
    BY <1>1, TcpNumbers, GenuineLater DEF TcpAgreement, StreamGenuine
  <2>2. snd_pkt.seqNo = expectedSeqNo - 1
    BY DEF TcpAgreement, StreamGenuine
  <2>3. \A i \in 1..Len(dataQ') : Genuine(dataQ'[i], nextseqnum')
    BY <1>2, <1>7
  <2>4. Genuine(lastPkt', nextseqnum') /\ snd_pkt'.seqNo = expectedSeqNo' - 1
    BY <1>2, <2>1, <2>2
  <2> QED
    BY <2>3, <2>4 DEF StreamGenuine, Genuine, DataPacket
<1>14. InputPosition' /\ EndPosition'
  <2>0. /\ bufFirst \in Nat /\ currseq \in Nat /\ PacketsPerBuffer \in Nat
        /\ NumChunks \in Nat \ {0} /\ currseq < PacketsPerBuffer
        /\ nextseqnum = bufFirst + currseq + 1 /\ nextseqnum' = nextseqnum + 1
    BY <1>2, <1>3, TcpNumbers
  <2>1. client' # "finished"
    BY <1>2
  <2>2. CASE EndOfBuffer
    <3>1. /\ bufFirst' = bufFirst + PacketsPerBuffer /\ currseq' = 0
          /\ fp' = IF bufFirst + PacketsPerBuffer < NumChunks THEN "open" ELSE "NULL"
          /\ check' = FALSE
      BY <1>2, <2>2 DEF ReadInput, EndOfData
    <3>2. currseq = PacketsPerBuffer - 1
      BY <2>0, <2>2 DEF EndOfBuffer
    <3>3. nextseqnum' = bufFirst' + currseq' + 1
      <4>1. nextseqnum' = bufFirst + PacketsPerBuffer + 0 + 1
        BY <2>0, <3>2
      <4> QED
        BY <3>1, <4>1
    <3>4. fp' = "NULL" => bufFirst' >= NumChunks
      BY <2>0, <3>1
    <3>5. ~(currseq' > 0)
      BY <3>1
    <3> QED
      BY <2>1, <3>1, <3>3, <3>4, <3>5 DEF InputPosition, EndPosition
  <2>3. CASE ~EndOfBuffer
    <3>1. /\ bufFirst' = bufFirst /\ currseq' = currseq + 1 /\ fp' = fp
          /\ check' = (Chunk(bufFirst + currseq + 2) = Empty)
      BY <1>2, <2>3 DEF ReadInput, EndOfData
    <3>2. nextseqnum' = bufFirst' + currseq' + 1 /\ (fp' = "NULL" => bufFirst' >= NumChunks)
      BY <1>3, <2>0, <3>1
    <3>3. bufFirst + currseq + 2 = nextseqnum'
      BY <2>0
    <3>4. check' => nextseqnum' > NumChunks
      <4>1. check' => Chunk(nextseqnum') = Empty
        BY <3>1, <3>3
      <4>2. nextseqnum' \in Nat \ {0}
        BY <2>0
      <4> QED
        BY <2>0, <4>1, <4>2, ChunkBehindEnd
    <3>5. fp' = "NULL" => check'
      <4>1. ASSUME bufFirst >= NumChunks
            PROVE  Chunk(bufFirst + currseq + 2) = Empty
        BY <2>0, <4>1 DEF Chunk
      <4> QED
        BY <1>3, <3>1, <4>1
    <3> QED
      BY <2>1, <3>2, <3>4, <3>5 DEF InputPosition, EndPosition
  <2> QED
    BY <2>2, <2>3
<1> QED
  BY <1>9, <1>10, <1>11, <1>12, <1>13, <1>14 DEF TcpAgreement
(* A timeout puts only packets of the window into the stream, as they were.*)
LEMMA TcpTimeoutStep ==
    ASSUME TcpTypeOK, TcpAgreement, TcpTimeout
    PROVE  (TcpTypeOK /\ TcpAgreement)'
<1>1. /\ dataQ \in Seq(Packet) /\ sent_packets \in [Slots -> Packet]
  BY DEF TcpTypeOK
<1>2. /\ Len(dataQ) + Len(ResendWindow) <= Cap
      /\ dataQ' = dataQ \o ResendWindow
      /\ UNCHANGED <<client, base, nextseqnum, sent_packets, bufFirst, currseq, fp, tv,
                     check, server, expectedSeqNo, snd_pkt, written, ackQ, lastPkt,
                     connection>>
  BY DEF TcpTimeout, clientTcp, inputVars, serverVars
<1>3. ResendWindow \in Seq(Packet) /\ Len(ResendWindow) = nextseqnum - base
  BY <1>1, TcpNumbers, ResendWindowType
<1>4. /\ dataQ' \in Seq(Packet) /\ Len(dataQ') <= Cap
      /\ \A i \in 1..Len(dataQ') :
            \/ i \in 1..Len(dataQ) /\ dataQ'[i] = dataQ[i]
            \/ \E k \in 1..Len(ResendWindow) : dataQ'[i] = ResendWindow[k]
  BY <1>1, <1>2, <1>3, StreamConcat
<1>5. ASSUME NEW k \in 1..Len(ResendWindow)
      PROVE  Genuine(ResendWindow[k], nextseqnum)
  <2>1. k \in 1 .. nextseqnum - base /\ base + k - 1 \in base .. nextseqnum - 1
        /\ base + k - 1 < nextseqnum
    BY <1>3, TcpWindow
  <2>2. ResendWindow[k] = DataPacket(base + k - 1, 0)
    BY <2>1 DEF ResendWindow, TcpAgreement, ResendsWhatWasSent
  <2>3. ResendWindow[k].seqNo = base + k - 1
    BY <2>2 DEF DataPacket
  <2> QED
    BY <2>1, <2>2, <2>3 DEF Genuine
<1>6. \A i \in 1..Len(dataQ') : Genuine(dataQ'[i], nextseqnum)
  BY <1>4, <1>5 DEF TcpAgreement, StreamGenuine
<1>7. TcpTypeOK'
  BY <1>2, <1>4 DEF TcpTypeOK
<1>8. WindowsAgree' /\ StreamGenuine'
  <2>1. \A i \in 1..Len(dataQ') : dataQ'[i].seqNo < nextseqnum
    BY <1>6 DEF Genuine
  <2> QED
    BY <1>2, <1>6, <2>1 DEF TcpAgreement, WindowsAgree, StreamGenuine, Genuine, DataPacket
<1> QED
  BY <1>2, <1>7, <1>8 DEF TcpAgreement, OutputIsPrefix, ServerPosition, InputPosition,
                          ResendsWhatWasSent, EndPosition

(* The window does not slide past the server. *)
LEMMA TcpAckStep ==
    ASSUME TcpTypeOK, TcpAgreement, TcpAck
    PROVE  (TcpTypeOK /\ TcpAgreement)'
<1> DEFINE ack == Head(ackQ)
<1>1. /\ Readable(ackQ) /\ ackQ' = Tail(ackQ) /\ client = "running"
      /\ UNCHANGED <<client, nextseqnum, sent_packets, bufFirst, currseq, fp, check,
                     server, expectedSeqNo, snd_pkt, written, dataQ, lastPkt, connection>>
  BY DEF TcpAck, TcpSelecting, inputVars, serverVars
<1>2. ackQ \in Seq(Packet) /\ Len(ackQ) <= Cap /\ Len(ackQ) \in Nat
  BY DEF TcpTypeOK
<1>3. /\ ack \in Packet /\ \E k \in 1..Len(ackQ) : ack = ackQ[k]
      /\ \A i \in 1..Len(ackQ') : \E k \in 1..Len(ackQ) : ackQ'[i] = ackQ[k]
  BY <1>1, <1>2, QueueTail
<1>4. ackQ' \in Seq(Packet) /\ Len(ackQ') <= Cap
  BY <1>1, <1>2, RecvFromFacts, CapAssumption
<1>5. ack.seqNo \in Nat /\ ack.seqNo < expectedSeqNo
  BY <1>3, PacketFields DEF TcpAgreement, WindowsAgree
<1>6. base' \in Nat /\ base <= base' /\ base' <= expectedSeqNo
  <2>1. CASE ack.isAck = 1 /\ ack.seqNo >= base
    <3>1. base' = ack.seqNo + 1
      BY <2>1 DEF TcpAck, AckedUpTo
    <3> QED
      BY <1>5, <2>1, <3>1, TcpWindow
  <2>2. CASE ~(ack.isAck = 1 /\ ack.seqNo >= base)
    <3>1. base' = base
      BY <2>2 DEF TcpAck
    <3> QED
      BY <3>1, TcpNumbers
  <2> QED
    BY <2>1, <2>2
<1>7. tv' \in {"valid", "negative"}
  <2>1. tv' = tv \/ tv' \in {"valid", "negative"}
    BY DEF TcpAck
  <2> QED
    BY <2>1 DEF TcpTypeOK
<1>8. TcpTypeOK'
  BY <1>1, <1>4, <1>6, <1>7 DEF TcpTypeOK
<1>9. WindowsAgree'
  <2>1. /\ \A i \in 1..Len(ackQ) : ackQ[i].seqNo < expectedSeqNo
        /\ \A i \in 1..Len(dataQ) : dataQ[i].seqNo < nextseqnum
    BY DEF TcpAgreement, WindowsAgree
  <2>2. /\ base' <= expectedSeqNo /\ expectedSeqNo <= nextseqnum
        /\ nextseqnum <= base' + WINDOW_SIZE
    BY <1>6, TcpNumbers
  <2> QED
    BY <1>1, <1>3, <2>1, <2>2 DEF WindowsAgree
<1>10. ResendsWhatWasSent'
  <2>1. \A n \in base' .. nextseqnum - 1 : n \in base .. nextseqnum - 1
    BY <1>6, TcpNumbers
  <2> QED
    BY <1>1, <2>1 DEF TcpAgreement, ResendsWhatWasSent
<1>11. base' >= 1
  BY <1>6, TcpNumbers
<1> QED
  BY <1>1, <1>8, <1>9, <1>10, <1>11
  DEF TcpAgreement, OutputIsPrefix, ServerPosition, InputPosition, StreamGenuine,
      Genuine, DataPacket, EndPosition

(* A client that ends its loop has sent the whole file, and everything is  *)
(* acknowledged; the others end before that.                               *)
LEMMA TcpEndStep ==
    ASSUME TcpTypeOK, TcpAgreement,
           Finish \/ TcpSelectFails \/ ServerLost \/ TcpReceiveFails \/ UNCHANGED tcpVars
    PROVE  (TcpTypeOK /\ TcpAgreement)'
<1>1. UNCHANGED <<base, nextseqnum, sent_packets, bufFirst, currseq, fp, tv, check,
                  expectedSeqNo, snd_pkt, written, dataQ, ackQ, lastPkt>>
  BY DEF Finish, TcpSelectFails, ServerLost, TcpReceiveFails, ClientEnds, clientTcp,
         inputVars, serverVars, tcpVars, vars
<1>2. /\ client' \in {"running", "finished", "select_failed", "no_server"}
      /\ server' \in {"running", "wild_pkt", "recv_failed", "send_failed"}
      /\ connection' \in Connection
  BY DEF Finish, TcpSelectFails, ServerLost, TcpReceiveFails, ClientEnds, clientTcp,
         serverVars, tcpVars, vars, TcpTypeOK, AfterClose, Connection
<1>3. client' = "finished" => client = "finished" \/ (check /\ base >= nextseqnum)
  BY DEF Finish, TcpSelectFails, ServerLost, TcpReceiveFails, ClientEnds, clientTcp,
         tcpVars, vars
<1>4. client' = "finished" => Len(written) >= NumChunks
  <2>1. ASSUME check, base >= nextseqnum
        PROVE  Len(written) >= NumChunks
    <3>1. nextseqnum > NumChunks /\ expectedSeqNo = Len(written) + 1
      BY <2>1 DEF TcpAgreement, EndPosition, ServerPosition
    <3> QED
      BY <2>1, <3>1, TcpNumbers
  <2> QED
    BY <1>3, <2>1 DEF TcpAgreement, EndPosition
<1>5. TcpTypeOK'
  BY <1>1, <1>2 DEF TcpTypeOK
<1>6. EndPosition'
  BY <1>1, <1>4 DEF TcpAgreement, EndPosition
<1> QED
  BY <1>1, <1>5, <1>6
  DEF TcpAgreement, OutputIsPrefix, ServerPosition, InputPosition, StreamGenuine,
      Genuine, DataPacket, WindowsAgree, ResendsWhatWasSent

(* What the server has in *pkt after recv() was sent, also when recv() has *)
(* returned 0 and *pkt holds the packet of the turn before.                *)
LEMMA TcpReceivingFacts ==
    ASSUME TcpTypeOK, TcpAgreement, TcpReceiving
    PROVE  /\ dataQ' \in Seq(Packet) /\ Len(dataQ') <= Cap
           /\ \A i \in 1..Len(dataQ') : Genuine(dataQ'[i], nextseqnum)
           /\ lastPkt' \in Packet /\ Genuine(lastPkt', nextseqnum)
<1>1. /\ dataQ \in Seq(Packet) /\ Len(dataQ) <= Cap /\ Len(dataQ) \in Nat
      /\ lastPkt \in Packet
  BY DEF TcpTypeOK
<1>2. /\ \A i \in 1..Len(dataQ) : Genuine(dataQ[i], nextseqnum)
      /\ Genuine(lastPkt, nextseqnum)
  BY DEF TcpAgreement, StreamGenuine
<1>3. CASE Readable(dataQ) /\ dataQ' = Tail(dataQ) /\ lastPkt' = Head(dataQ)
  <2>1. /\ Head(dataQ) \in Packet
        /\ \E k \in 1..Len(dataQ) : Head(dataQ) = dataQ[k]
        /\ \A i \in 1..Len(Tail(dataQ)) :
              \E k \in 1..Len(dataQ) : Tail(dataQ)[i] = dataQ[k]
    BY <1>1, <1>3, QueueTail
  <2>2. Tail(dataQ) \in Seq(Packet) /\ Len(Tail(dataQ)) <= Cap
    BY <1>1, <1>3, RecvFromFacts, CapAssumption
  <2> QED
    BY <1>2, <1>3, <2>1, <2>2
<1>4. CASE UNCHANGED <<dataQ, lastPkt>>
  BY <1>1, <1>2, <1>4
<1> QED
  BY <1>3, <1>4 DEF TcpReceiving

(* The answer comes behind the others, or it does not arrive. *)
LEMMA SendAckFacts ==
    ASSUME TcpTypeOK, TcpAgreement, SendAck, snd_pkt' \in Packet, server = "running"
    PROVE  /\ ackQ' \in Seq(Packet) /\ Len(ackQ') <= Cap
           /\ \A i \in 1..Len(ackQ') :
                 \/ i \in 1..Len(ackQ) /\ ackQ'[i] = ackQ[i]
                 \/ ackQ'[i] = snd_pkt'
           /\ connection' \in Connection
           /\ server' \in {"running", "send_failed"}
<1> DEFINE answer == snd_pkt'
<1>1. ackQ \in Seq(Packet) /\ Len(ackQ) <= Cap /\ Len(ackQ) \in Nat /\ Cap \in Nat
  BY CapAssumption DEF TcpTypeOK
<1>2. /\ answer \in Packet
      /\ Arrives(connection) => Len(ackQ) < Cap /\ ackQ' = Append(ackQ, answer)
      /\ ~Arrives(connection) => ackQ' = ackQ
  BY DEF SendAck
<1> HIDE DEF answer
<1>3. ASSUME Arrives(connection)
      PROVE  /\ ackQ' \in Seq(Packet) /\ Len(ackQ') <= Cap
             /\ \A i \in 1..Len(ackQ') :
                   \/ i \in 1..Len(ackQ) /\ ackQ'[i] = ackQ[i]
                   \/ ackQ'[i] = answer
  <2>1. /\ ackQ' \in Seq(Packet) /\ Len(ackQ') = Len(ackQ) + 1
        /\ \A i \in 1..Len(ackQ') :
              \/ i \in 1..Len(ackQ) /\ ackQ'[i] = ackQ[i]
              \/ ackQ'[i] = answer
    BY <1>1, <1>2, <1>3, StreamAppend
  <2>2. Len(ackQ') <= Cap
    BY <1>1, <1>2, <1>3, <2>1
  <2> QED
    BY <2>1, <2>2
<1>4. ASSUME ~Arrives(connection)
      PROVE  ackQ' = ackQ
  BY <1>2, <1>4
<1>5. connection' \in Connection
  BY DEF SendAck, AfterSend, Connection, TcpTypeOK
<1>6. server' \in {"running", "send_failed"}
  BY DEF SendAck
<1>7. /\ ackQ' \in Seq(Packet) /\ Len(ackQ') <= Cap
      /\ \A i \in 1..Len(ackQ') :
            \/ i \in 1..Len(ackQ) /\ ackQ'[i] = ackQ[i]
            \/ ackQ'[i] = answer
  BY <1>1, <1>3, <1>4
<1> QED
  BY <1>5, <1>6, <1>7 DEF answer

(* A turn of the server that drops the packet, writes it, or answers it    *)
(* with the last one written.                                              *)
LEMMA TcpServerStep ==
    ASSUME TcpTypeOK, TcpAgreement, TcpDropPacket \/ TcpAcceptPacket \/ TcpRepeatAck
    PROVE  (TcpTypeOK /\ TcpAgreement)'
<1>1. /\ UNCHANGED <<client, base, nextseqnum, sent_packets, bufFirst, currseq, fp, tv,
                     check>>
      /\ TcpReceiving /\ server = "running"
  BY DEF TcpDropPacket, TcpAcceptPacket, TcpRepeatAck, TcpReceiving, clientTcp, inputVars
<1>2. /\ dataQ' \in Seq(Packet) /\ Len(dataQ') <= Cap
      /\ \A i \in 1..Len(dataQ') : Genuine(dataQ'[i], nextseqnum)
      /\ lastPkt' \in Packet /\ Genuine(lastPkt', nextseqnum)
  BY <1>1, TcpReceivingFacts
<1>3. /\ snd_pkt \in Packet /\ snd_pkt.seqNo = expectedSeqNo - 1
      /\ ackQ \in Seq(Packet) /\ Len(ackQ) <= Cap
      /\ \A i \in 1..Len(ackQ) : ackQ[i] \in Packet /\ ackQ[i].seqNo < expectedSeqNo
      /\ expectedSeqNo = Len(written) + 1
      /\ connection \in Connection
  BY DEF TcpTypeOK, TcpAgreement, StreamGenuine, WindowsAgree, ServerPosition
<1> DEFINE ServerMoves ==
        /\ expectedSeqNo' \in Nat /\ expectedSeqNo <= expectedSeqNo'
        /\ expectedSeqNo' <= nextseqnum /\ expectedSeqNo' = Len(written') + 1
        /\ written' \in Seq(0..NumChunks) /\ Len(written) <= Len(written')
        /\ OutputIsPrefix'
        /\ snd_pkt' \in Packet /\ snd_pkt'.seqNo = expectedSeqNo' - 1
        /\ ackQ' \in Seq(Packet) /\ Len(ackQ') <= Cap
        /\ \A i \in 1..Len(ackQ') : ackQ'[i].seqNo < expectedSeqNo'
        /\ connection' \in Connection /\ server' \in {"running", "send_failed"}
<1>4. ASSUME TcpDropPacket PROVE ServerMoves
  <2>1. UNCHANGED <<server, expectedSeqNo, snd_pkt, written, ackQ, connection>>
    BY <1>4 DEF TcpDropPacket, serverVars
  <2>2. OutputIsPrefix'
    BY <2>1 DEF TcpAgreement, OutputIsPrefix
  <2> QED
    BY <1>1, <1>3, <2>1, <2>2, TcpNumbers
<1>5. ASSUME TcpRepeatAck PROVE ServerMoves
  <2>1. UNCHANGED <<expectedSeqNo, snd_pkt, written>> /\ SendAck
    BY <1>5 DEF TcpRepeatAck
  <2>2. OutputIsPrefix'
    BY <2>1 DEF TcpAgreement, OutputIsPrefix
  <2>3. /\ ackQ' \in Seq(Packet) /\ Len(ackQ') <= Cap
        /\ \A i \in 1..Len(ackQ') :
              \/ i \in 1..Len(ackQ) /\ ackQ'[i] = ackQ[i]
              \/ ackQ'[i] = snd_pkt'
        /\ connection' \in Connection /\ server' \in {"running", "send_failed"}
    BY <1>1, <1>3, <2>1, SendAckFacts
  <2>4. snd_pkt'.seqNo < expectedSeqNo
    BY <1>3, <2>1, TcpNumbers
  <2>5. \A i \in 1..Len(ackQ') : ackQ'[i].seqNo < expectedSeqNo'
    BY <1>3, <2>1, <2>3, <2>4
  <2> QED
    BY <1>3, <2>1, <2>2, <2>3, <2>5, TcpNumbers
<1>6. ASSUME TcpAcceptPacket PROVE ServerMoves
  <2>1. /\ lastPkt'.seqNo = expectedSeqNo
        /\ written' = Append(written, lastPkt'.payload)
        /\ snd_pkt' = [snd_pkt EXCEPT !.seqNo = expectedSeqNo]
        /\ expectedSeqNo' = expectedSeqNo + 1
        /\ SendAck
    BY <1>6 DEF TcpAcceptPacket, IsExpected
  <2>2. /\ lastPkt'.payload = Chunk(expectedSeqNo)
        /\ lastPkt'.payload \in 0..NumChunks
        /\ expectedSeqNo < nextseqnum
    BY <1>2, <2>1, PacketFields DEF Genuine, DataPacket
  <2>3. snd_pkt' \in Packet /\ snd_pkt'.seqNo = expectedSeqNo
    BY <1>3, <2>1, TcpNumbers DEF Packet
  <2>4. /\ ackQ' \in Seq(Packet) /\ Len(ackQ') <= Cap
        /\ \A i \in 1..Len(ackQ') :
              \/ i \in 1..Len(ackQ) /\ ackQ'[i] = ackQ[i]
              \/ ackQ'[i] = snd_pkt'
        /\ connection' \in Connection /\ server' \in {"running", "send_failed"}
    BY <1>1, <2>1, <2>3, SendAckFacts
  <2>5. /\ written' \in Seq(0..NumChunks) /\ Len(written') = Len(written) + 1
        /\ \A i \in 1..Len(written) : written'[i] = written[i]
        /\ written'[Len(written) + 1] = Chunk(expectedSeqNo)
    <3> DEFINE chunk == lastPkt'.payload
    <3>1. written' = Append(written, chunk) /\ chunk = Chunk(expectedSeqNo)
          /\ chunk \in 0..NumChunks
      BY <2>1, <2>2
    <3>2. written \in Seq(0..NumChunks)
      BY DEF TcpTypeOK
    <3> HIDE DEF chunk
    <3> QED
      BY <3>1, <3>2
  <2>6. OutputIsPrefix'
    <3>1. Len(written) \in Nat /\ expectedSeqNo = Len(written) + 1
      BY <1>3, TcpNumbers
    <3>2. \A i \in 1..Len(written) : written'[i] = Chunk(i)
      BY <2>5 DEF TcpAgreement, OutputIsPrefix
    <3>3. written'[Len(written) + 1] = Chunk(Len(written) + 1)
      BY <2>5, <3>1
    <3> DEFINE n == Len(written)
    <3>4. \A i \in 1 .. n + 1 : i \in 1..n \/ i = n + 1
      BY <3>1
    <3>5. \A i \in 1 .. n + 1 : written'[i] = Chunk(i)
      BY <3>2, <3>3, <3>4
    <3> QED
      BY <2>5, <3>5 DEF OutputIsPrefix
  <2>7. \A i \in 1..Len(ackQ') : ackQ'[i].seqNo < expectedSeqNo + 1
    <3>1. \A i \in 1..Len(ackQ) : ackQ[i].seqNo \in Nat
      BY <1>3, PacketFields
    <3>2. \A i \in 1..Len(ackQ) : ackQ[i].seqNo < expectedSeqNo + 1
      BY <1>3, <3>1, TcpWindow
    <3>3. snd_pkt'.seqNo < expectedSeqNo + 1
      BY <2>3, TcpNumbers
    <3> QED
      BY <2>4, <3>2, <3>3
  <2>8. /\ expectedSeqNo' \in Nat /\ expectedSeqNo <= expectedSeqNo'
        /\ expectedSeqNo' <= nextseqnum /\ expectedSeqNo' = Len(written') + 1
        /\ Len(written) <= Len(written') /\ snd_pkt'.seqNo = expectedSeqNo' - 1
    <3>1. expectedSeqNo \in Nat /\ nextseqnum \in Nat /\ Len(written) \in Nat
      BY TcpNumbers
    <3>2. expectedSeqNo = Len(written) + 1 /\ Len(written') = Len(written) + 1
      BY <1>3, <2>5
    <3>3. expectedSeqNo' = expectedSeqNo + 1 /\ expectedSeqNo < nextseqnum
      BY <2>1, <2>2
    <3>4. snd_pkt'.seqNo = expectedSeqNo
      BY <2>3
    <3> QED
      BY <3>1, <3>2, <3>3, <3>4
  <2>9. \A i \in 1..Len(ackQ') : ackQ'[i].seqNo < expectedSeqNo'
    BY <2>1, <2>7
  <2> QED
    BY <2>3, <2>4, <2>5, <2>6, <2>8, <2>9
<1>7. ServerMoves
  <2> HIDE DEF ServerMoves
  <2> QED
    BY <1>4, <1>5, <1>6
<1>8. TcpTypeOK'
  BY <1>1, <1>2, <1>7 DEF TcpTypeOK
<1>9. WindowsAgree'
  <2>1. base <= expectedSeqNo' /\ nextseqnum <= base + WINDOW_SIZE
    BY <1>7, TcpNumbers
  <2>2. \A i \in 1..Len(dataQ') : dataQ'[i].seqNo < nextseqnum
    BY <1>2 DEF Genuine
  <2> QED
    BY <1>1, <1>7, <2>1, <2>2 DEF WindowsAgree
<1>10. StreamGenuine'
  BY <1>1, <1>2, <1>7 DEF StreamGenuine, Genuine, DataPacket
<1>11. EndPosition'
  <2>1. client = "finished" => Len(written') >= NumChunks
    <3>1. client = "finished" => Len(written) >= NumChunks
      BY DEF TcpAgreement, EndPosition
    <3>2. Len(written') \in Nat
      BY <1>7
    <3> QED
      BY <1>7, <3>1, <3>2, TcpNumbers
  <2> QED
    BY <1>1, <2>1 DEF TcpAgreement, EndPosition
<1>12. ServerPosition' /\ OutputIsPrefix'
  BY <1>7 DEF ServerPosition
<1>13. InputPosition' /\ ResendsWhatWasSent' /\ base' >= 1
  BY <1>1 DEF TcpAgreement, InputPosition, ResendsWhatWasSent
<1> QED
  BY <1>8, <1>9, <1>10, <1>11, <1>12, <1>13 DEF TcpAgreement

(* The agreement holds in every reachable state, also after either program *)
(* has ended.                                                              *)
THEOREM TcpAlwaysAgreement == TcpSpec => [](TcpTypeOK /\ TcpAgreement)
<1>1. TcpTypeOK /\ TcpAgreement /\ [TcpNext]_tcpVars => (TcpTypeOK /\ TcpAgreement)'
  BY TcpSendNextStep, TcpTimeoutStep, TcpAckStep, TcpEndStep, TcpServerStep
  DEF TcpNext, TcpClient, TcpServer
<1> QED
  BY <1>1, TcpInitAgreement, PTL DEF TcpSpec

(* The client of GBN/TCP stops with the whole file written and everything  *)
(* acknowledged (client.c:117,125-129), wherever the file ends in its      *)
(* buffer, and it never asks getfilestream() for a file it has closed:     *)
(* behind the data it reads at most one packet without any.                *)
THEOREM TcpEndsComplete == TcpSpec => []EndsComplete
<1>1. ASSUME TcpTypeOK, TcpAgreement
      PROVE  EndsComplete
  <2>1. client = "finished" => Len(written) >= NumChunks
    BY <1>1 DEF TcpAgreement, EndPosition
  <2>2. ASSUME Sending, InputUsedUp
        PROVE  FALSE
    <3>1. fp = "NULL" /\ currseq + 1 >= PacketsPerBuffer /\ ~check
      BY <2>2 DEF Sending, InputUsedUp, EndOfBuffer
    <3>2. currseq > 0
      BY <1>1, <3>1, TcpNumbers
    <3> QED
      BY <1>1, <3>1, <3>2 DEF TcpAgreement, EndPosition
  <2> QED
    BY <2>1, <2>2 DEF EndsComplete
<1> QED
  BY <1>1, TcpAlwaysAgreement, PTL

(* The pair over TCP implements the windowed transfer as well: a select()  *)
(* that fails, a connection that is reset or a packet evaluated twice is a *)
(* stutter (client.c:47-133; server.c:45-72).                              *)
LEMMA TcpStepImplementsTransfer ==
    TcpTypeOK /\ TcpAgreement /\ (TcpTypeOK /\ TcpAgreement)' /\ [TcpNext]_tcpVars =>
        [Transfer!Next]_(Transfer!absVars)
<1> SUFFICES ASSUME TcpTypeOK, TcpAgreement, (TcpTypeOK /\ TcpAgreement)',
                    [TcpNext]_tcpVars
             PROVE  [Transfer!Next]_(Transfer!absVars)
  OBVIOUS
<1>1. /\ base \in Nat /\ nextseqnum \in Nat /\ expectedSeqNo \in Nat
      /\ base >= 1 /\ nextseqnum >= 1 /\ WINDOW_SIZE \in Nat
      /\ Len(written) \in Nat /\ expectedSeqNo = Len(written) + 1
      /\ base <= expectedSeqNo /\ expectedSeqNo <= nextseqnum
  <2>1. expectedSeqNo = Len(written) + 1 /\ base >= 1
    BY DEF TcpAgreement, ServerPosition
  <2> QED
    BY <2>1, TcpNumbers
<1>3. CASE TcpSendNext
  <2>1. /\ nextseqnum < base + WINDOW_SIZE
        /\ nextseqnum' = nextseqnum + 1
        /\ UNCHANGED <<base, written>>
    BY <1>3 DEF TcpSendNext, Sending, WindowNotFull, serverVars
  <2>2. Len(Submitted(nextseqnum)) = nextseqnum - 1
    BY <1>1, SubmittedFacts
  <2>3. Len(Submitted(nextseqnum)) < base - 1 + WINDOW_SIZE
    BY <1>1, <2>1, <2>2
  <2>4. /\ Submitted(nextseqnum') = Append(Submitted(nextseqnum), Chunk(nextseqnum))
        /\ Chunk(nextseqnum) \in 0..NumChunks
    BY <1>1, <2>1, SubmittedFacts
  <2>5. Transfer!Submit
    BY <2>1, <2>3, <2>4 DEF Transfer!Submit, Submitted
  <2> QED
    BY <2>5 DEF Transfer!Next
<1>4. CASE TcpAck
  <2>1. /\ UNCHANGED <<nextseqnum, written, expectedSeqNo>>
        /\ \/ UNCHANGED base
           \/ base' = Head(ackQ).seqNo + 1 /\ Head(ackQ).seqNo >= base
        /\ ackQ # <<>>
    BY <1>4 DEF TcpAck, AckedUpTo, serverVars, Readable
  <2>2. CASE UNCHANGED base
    BY <2>1, <2>2 DEF Transfer!absVars
  <2>3. CASE base' = Head(ackQ).seqNo + 1 /\ Head(ackQ).seqNo >= base
    <3> DEFINE acked == Head(ackQ).seqNo
    <3>1. acked \in Nat
      <4>1. ackQ \in Seq(Packet)
        BY DEF TcpTypeOK
      <4>2. Head(ackQ) \in Packet
        BY <2>1, <4>1
      <4> QED
        BY <4>2, PacketFields
    <3>2. base' <= expectedSeqNo'
      BY DEF TcpAgreement, WindowsAgree
    <3>3. acked >= base /\ acked + 1 <= expectedSeqNo /\ base' - 1 = acked
      BY <2>1, <2>3, <3>1, <3>2
    <3>4. base' - 1 \in (base - 1) + 1 .. Len(written)
      <4> HIDE DEF acked
      <4>1. acked \in (base - 1) + 1 .. Len(written)
        BY <1>1, <3>1, <3>3
      <4> QED
        BY <3>3, <4>1
    <3>5. Transfer!Confirm
      BY <2>1, <3>4 DEF Transfer!Confirm
    <3> QED
      BY <3>5 DEF Transfer!Next
  <2> QED
    BY <2>1, <2>2, <2>3
<1>5. CASE TcpAcceptPacket
  <2>1. /\ lastPkt'.seqNo = expectedSeqNo
        /\ written' = Append(written, lastPkt'.payload)
        /\ UNCHANGED <<base, nextseqnum>> /\ TcpReceiving
    BY <1>5 DEF TcpAcceptPacket, IsExpected, clientTcp
  <2>2. lastPkt' \in Packet /\ Genuine(lastPkt', nextseqnum)
    BY <2>1, TcpReceivingFacts
  <2>3. lastPkt'.payload = Chunk(expectedSeqNo) /\ expectedSeqNo < nextseqnum
    BY <2>1, <2>2, PacketFields DEF Genuine, DataPacket
  <2>4. written' = Append(written, Chunk(expectedSeqNo))
    BY <2>1, <2>3
  <2>5. /\ Len(written) < Len(Submitted(nextseqnum))
        /\ Submitted(nextseqnum)[Len(written) + 1] = Chunk(expectedSeqNo)
    <3>1. expectedSeqNo \in 1 .. nextseqnum - 1
      BY <1>1, <2>3
    <3>2. /\ Len(Submitted(nextseqnum)) = nextseqnum - 1
          /\ Submitted(nextseqnum)[expectedSeqNo] = Chunk(expectedSeqNo)
      BY <1>1, <3>1, SubmittedFacts
    <3>3. Len(written) < nextseqnum - 1
      BY <1>1, <2>3
    <3> QED
      BY <1>1, <3>2, <3>3
  <2>6. Transfer!Deliver
    BY <2>1, <2>4, <2>5 DEF Transfer!Deliver, Submitted
  <2> QED
    BY <2>6 DEF Transfer!Next
<1>6. ASSUME \/ TcpTimeout \/ Finish \/ TcpSelectFails \/ ServerLost
             \/ TcpReceiveFails \/ TcpDropPacket \/ TcpRepeatAck \/ UNCHANGED tcpVars
      PROVE  UNCHANGED Transfer!absVars
  <2>1. UNCHANGED <<base, nextseqnum, written>>
    BY <1>6 DEF TcpTimeout, Finish, TcpSelectFails, ClientEnds, ServerLost,
                TcpReceiveFails, TcpDropPacket, TcpRepeatAck, tcpVars, vars,
                clientTcp, serverVars
  <2> QED
    BY <2>1 DEF Transfer!absVars
<1> QED
  BY <1>3, <1>4, <1>5, <1>6 DEF TcpNext, TcpClient, TcpServer

(* Go-Back-N over TCP implements the windowed transfer: output.txt takes   *)
(* the packets in their order and once each, and at most WINDOW_SIZE are   *)
(* unacknowledged.                                                         *)
THEOREM TcpImplementsTransfer == TcpSpec => ImplementsTransfer
<1>1. TcpInit => Transfer!Init
  <2> SUFFICES ASSUME TcpInit
               PROVE  Transfer!Init
    OBVIOUS
  <2>1. nextseqnum = 1 /\ base = 1 /\ written = <<>>
    BY DEF TcpInit, Init
  <2>2. [i \in 1 .. nextseqnum - 1 |-> Chunk(i)] = <<>>
    <3>1. Submitted(1) \in Seq(0..NumChunks) /\ Len(Submitted(1)) = 0
      BY SubmittedFacts
    <3>2. Submitted(1) = <<>>
      BY <3>1, EmptySeq
    <3> QED
      BY <2>1, <3>2 DEF Submitted
  <2> QED
    BY <2>1, <2>2 DEF Transfer!Init
<1> QED
  BY <1>1, TcpStepImplementsTransfer, TcpAlwaysAgreement, PTL
  DEF TcpSpec, ImplementsTransfer, Transfer!Spec
=============================================================================
