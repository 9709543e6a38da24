-------------------------- MODULE StopAndWaitProofs --------------------------
(***************************************************************************)
(* Proofs about StopAndWait for every set of messages, every capacity of   *)
(* the socket buffers and every number of rounds.                          *)
(***************************************************************************)
EXTENDS StopAndWait, UdpSocketProofs

(* The actions of Next, one by one: what a step can be.                    *)
LEMMA StepCases ==
    Next => \E b \in Bit :
               \/ EnterMessage(b) \/ DropAck(b) \/ ReceiveAck(b) \/ Timeout(b)
               \/ DropPacket(b) \/ AcceptPacket(b) \/ ReacknowledgeOld(b)
  BY DEF Next, Client, Server, Case0, Case1, Case2, Case3, AwaitAck,
         ServerCase0, ServerCase1, ReceivePacket, Bit

(* No step of either program takes a value out of its type.                *)
LEMMA TypeStep == TypeOK /\ [Next]_vars => TypeOK'
<1> SUFFICES ASSUME TypeOK, [Next]_vars
             PROVE  TypeOK'
  OBVIOUS
<1> USE DEF TypeOK
<1>1. ASSUME NEW b \in Bit, EnterMessage(b)
      PROVE  TypeOK'
  <2>1. PICK m \in Message : sendPkt' = [sq |-> b, data |-> m]
                             /\ sent' = Append(sent, m)
                             /\ dataQ' = SendTo(dataQ, sendPkt')
    BY <1>1 DEF EnterMessage
  <2>2. sendPkt' \in Packet /\ sent' \in Seq(Message)
    BY <2>1 DEF Packet
  <2>3. dataQ' \in Seq(Packet) /\ Len(dataQ') <= Cap
    BY <2>1, <2>2, SendToFacts
  <2>4. cstate' \in 0..3
    BY <1>1 DEF EnterMessage, Waiting, Bit
  <2> QED
    BY <1>1, <2>2, <2>3, <2>4 DEF EnterMessage, serverVars
<1>2. ASSUME NEW b \in Bit, DropAck(b)
      PROVE  TypeOK'
  BY <1>2, RecvFromFacts, CapAssumption DEF DropAck, clientVars, serverVars
<1>3. ASSUME NEW b \in Bit, ReceiveAck(b)
      PROVE  TypeOK'
  <2>1. cstate' \in 0..3
    BY <1>3 DEF ReceiveAck, AfterAck
  <2> QED
    BY <1>3, <2>1, RecvFromFacts, CapAssumption DEF ReceiveAck, serverVars
<1>4. ASSUME NEW b \in Bit, Timeout(b)
      PROVE  TypeOK'
  BY <1>4, SendToFacts DEF Timeout, clientVars, serverVars
<1>5. ASSUME NEW b \in Bit, DropPacket(b)
      PROVE  TypeOK'
  BY <1>5, RecvFromFacts, CapAssumption DEF DropPacket, clientVars, serverVars
<1>6. ASSUME NEW b \in Bit, AcceptPacket(b)
      PROVE  TypeOK'
  <2>1. /\ dataQ' \in Seq(Packet) /\ Len(dataQ') <= Cap
        /\ Head(dataQ) \in Packet
    BY <1>6, RecvFromFacts, CapAssumption DEF AcceptPacket
  <2>2. ackQ' \in Seq(Bit) /\ Len(ackQ') <= Cap
    BY <1>6, SendToFacts DEF AcceptPacket
  <2>3. delivered' \in Seq(Message) /\ sstate' \in Bit
    BY <1>6, <2>1 DEF AcceptPacket, Packet, Bit
  <2> QED
    BY <1>6, <2>1, <2>2, <2>3 DEF AcceptPacket, clientVars
<1>7. ASSUME NEW b \in Bit, ReacknowledgeOld(b)
      PROVE  TypeOK'
  <2>1. dataQ' \in Seq(Packet) /\ Len(dataQ') <= Cap
    BY <1>7, RecvFromFacts, CapAssumption DEF ReacknowledgeOld
  <2>2. 1 - b \in Bit
    BY DEF Bit
  <2>3. ackQ' \in Seq(Bit) /\ Len(ackQ') <= Cap
    BY <1>7, <2>2, SendToFacts DEF ReacknowledgeOld
  <2> QED
    BY <1>7, <2>1, <2>3 DEF ReacknowledgeOld, clientVars, serverVars
<1>8. CASE UNCHANGED vars
  BY <1>8 DEF vars
<1> QED
  BY <1>1, <1>2, <1>3, <1>4, <1>5, <1>6, <1>7, <1>8, StepCases

(* Every value stays in its type: two bits and a state number are all the  *)
(* control either program of lab6 keeps.                                   *)
THEOREM TypeCorrect == Spec => []TypeOK
<1>1. Init => TypeOK
  BY CapAssumption DEF Init, TypeOK, Bit
<1> QED
  BY <1>1, TypeStep, PTL DEF Spec

-----------------------------------------------------------------------------
(* The client's state is twice the number of the packet it deals with, and *)
(* one more while it waits.                                                *)
LEMMA ClientState ==
    ASSUME NEW b \in Bit
    PROVE  /\ cstate = Reading(b) => ClientBit = b /\ ~Outstanding
           /\ cstate = Waiting(b) => ClientBit = b /\ Outstanding
           /\ cstate = AfterAck(b) => ClientBit = 1 - b /\ ~Outstanding
  BY DEF Reading, Waiting, AfterAck, ClientBit, Outstanding, Bit

(* The same of the state after a step.                                     *)
LEMMA ClientStatePrime ==
    ASSUME NEW b \in Bit
    PROVE  /\ cstate' = Waiting(b) => ClientBit' = b /\ Outstanding'
           /\ cstate' = AfterAck(b) => ClientBit' = 1 - b /\ ~Outstanding'
  BY DEF Waiting, AfterAck, ClientBit, Outstanding, Bit

(* A new message: no packet with its number is in transit, so every packet *)
(* that has it from now on carries this message.                           *)
LEMMA EnterMessageStep ==
    ASSUME TypeOK, Agreement, NEW b \in Bit, EnterMessage(b)
    PROVE  Agreement'
<1> USE DEF TypeOK
<1>1. PICK m \in Message : /\ sendPkt' = [sq |-> b, data |-> m]
                           /\ sent' = Append(sent, m)
                           /\ dataQ' = SendTo(dataQ, sendPkt')
  BY DEF EnterMessage
<1>2. /\ ClientBit = b /\ ~Outstanding /\ ClientBit' = b /\ Outstanding'
      /\ UNCHANGED <<ackQ, sstate, delivered>>
  BY ClientState, ClientStatePrime DEF EnterMessage, serverVars
<1>3. sendPkt' \in Packet
  BY <1>1 DEF Packet
<1>4. /\ Len(dataQ') \in {Len(dataQ), Len(dataQ) + 1}
      /\ \A i \in 1..Len(dataQ') :
            \/ i \in 1..Len(dataQ) /\ dataQ'[i] = dataQ[i]
            \/ i = Len(dataQ) + 1 /\ dataQ'[i] = sendPkt'
  BY <1>1, <1>3, SendToFacts
<1> USE DEF Bit
<1>5. /\ Len(delivered) = Len(sent) /\ sstate = b
      /\ \A i \in 1..Len(dataQ) : dataQ[i].sq = 1 - b
      /\ \A i \in 1..Len(ackQ) : ackQ[i] = 1 - b
  <2>1. Len(delivered) = Len(sent) /\ sstate = b
    BY <1>2 DEF Agreement, ServerPosition
  <2> QED
    BY <1>2, <2>1 DEF Agreement, NothingStale
<1>6. InOrderOnce'
  BY <1>1, <1>2 DEF Agreement, InOrderOnce
<1>7. \A i \in 1..Len(dataQ') :
         dataQ'[i].sq = b => dataQ'[i] = sendPkt' /\ i = Len(dataQ) + 1
  <2> SUFFICES ASSUME NEW i \in 1..Len(dataQ'), dataQ'[i].sq = b
               PROVE  dataQ'[i] = sendPkt' /\ i = Len(dataQ) + 1
    OBVIOUS
  <2>1. ~(i \in 1..Len(dataQ) /\ dataQ'[i] = dataQ[i])
    BY <1>5
  <2> QED
    BY <1>4, <2>1
<1>8. CurrentPacket'
  <2>1. Len(sent') > 0 /\ sent'[Len(sent')] = m
    BY <1>1
  <2> QED
    BY <1>1, <1>2, <1>7, <2>1 DEF CurrentPacket
<1>9. ServerPosition'
  BY <1>1, <1>2, <1>5 DEF ServerPosition
<1>10. NothingStale'
  BY <1>2, <1>5 DEF NothingStale
<1>11. OldBeforeNew'
  <2>1. ASSUME NEW i \in 1..Len(dataQ'), NEW j \in 1..Len(dataQ'), i < j
        PROVE  dataQ'[i].sq # b
    BY <1>4, <1>7, <2>1
  <2> QED
    BY <1>2, <1>5, <2>1 DEF OldBeforeNew
<1> QED
  BY <1>6, <1>8, <1>9, <1>10, <1>11 DEF Agreement

(* An acknowledgement is dropped, or one that is not waited for is read.   *)
LEMMA AckGoneStep ==
    ASSUME TypeOK, Agreement, Readable(ackQ), ackQ' = Tail(ackQ),
           UNCHANGED <<clientVars, dataQ, serverVars>>
    PROVE  Agreement'
<1> USE DEF TypeOK, clientVars, serverVars
<1>1. /\ Len(ackQ') = Len(ackQ) - 1
      /\ \A i \in 1..Len(ackQ') : i + 1 \in 1..Len(ackQ) /\ ackQ'[i] = ackQ[i + 1]
  BY RecvFromFacts
<1>2. ClientBit' = ClientBit /\ Outstanding' = Outstanding
  BY DEF ClientBit, Outstanding
<1>3. InOrderOnce' /\ CurrentPacket' /\ ServerPosition'
  BY <1>2 DEF Agreement, InOrderOnce, CurrentPacket, ServerPosition
<1>4. NothingStale'
  BY <1>1, <1>2 DEF Agreement, NothingStale
<1>5. OldBeforeNew'
  <2>1. ASSUME NEW i \in 1..Len(ackQ'), NEW j \in 1..Len(ackQ'),
               i < j, ackQ'[i] = ClientBit'
        PROVE  ackQ'[j] = ClientBit'
    BY <1>1, <1>2, <2>1 DEF Agreement, OldBeforeNew
  <2> QED
    BY <1>2, <2>1 DEF Agreement, OldBeforeNew
<1> QED
  BY <1>3, <1>4, <1>5 DEF Agreement

(* The acknowledgement waited for: the server must have the message, so    *)
(* what is left in transit belongs to the round that ends.                 *)
LEMMA ReceiveAckStep ==
    ASSUME TypeOK, Agreement, NEW b \in Bit, ReceiveAck(b)
    PROVE  Agreement'
<1> USE DEF TypeOK, Bit
<1>1. /\ Readable(ackQ) /\ ackQ' = Tail(ackQ)
      /\ UNCHANGED <<sendPkt, sent, dataQ, sstate, delivered>>
      /\ ClientBit = b /\ Outstanding
  BY ClientState DEF ReceiveAck, serverVars
<1>2. CASE Head(ackQ) # b
  BY <1>1, <1>2, AckGoneStep DEF ReceiveAck, clientVars, serverVars
<1>3. CASE Head(ackQ) = b
  <2>1. ClientBit' = 1 - b /\ ~Outstanding'
    BY <1>3, ClientStatePrime DEF ReceiveAck
  <2>2. /\ Len(ackQ) >= 1 /\ ackQ[1] = b /\ Len(ackQ') = Len(ackQ) - 1
        /\ \A i \in 1..Len(ackQ') : i + 1 \in 1..Len(ackQ) /\ ackQ'[i] = ackQ[i + 1]
    BY <1>1, <1>3, RecvFromFacts
  <2>3. sstate = 1 - b /\ Len(delivered) = Len(sent)
    BY <1>1, <2>2 DEF Agreement, ServerPosition, NothingStale
  <2>4. \A i \in 1..Len(dataQ) : dataQ[i].sq = b
    BY <1>1, <2>3 DEF Agreement, NothingStale
  <2>5. \A i \in 1..Len(ackQ') : ackQ'[i] = b
    BY <1>1, <2>2 DEF Agreement, OldBeforeNew
  <2>6. InOrderOnce' /\ CurrentPacket' /\ ServerPosition'
    BY <1>1, <2>1, <2>3 DEF Agreement, InOrderOnce, CurrentPacket, ServerPosition
  <2>7. NothingStale' /\ OldBeforeNew'
    BY <1>1, <2>1, <2>3, <2>4, <2>5 DEF NothingStale, OldBeforeNew
  <2> QED
    BY <2>6, <2>7 DEF Agreement
<1> QED
  BY <1>2, <1>3

(* A retransmission: one more copy of the current message behind the rest. *)
LEMMA TimeoutStep ==
    ASSUME TypeOK, Agreement, NEW b \in Bit, Timeout(b)
    PROVE  Agreement'
<1> USE DEF TypeOK, Bit
<1>1. /\ dataQ' = SendTo(dataQ, sendPkt)
      /\ UNCHANGED <<cstate, sendPkt, sent, ackQ, sstate, delivered>>
      /\ ClientBit = b /\ Outstanding
  BY ClientState DEF Timeout, clientVars, serverVars
<1>2. ClientBit' = b /\ Outstanding'
  BY <1>1 DEF ClientBit, Outstanding
<1>3. /\ Len(dataQ') \in {Len(dataQ), Len(dataQ) + 1}
      /\ \A i \in 1..Len(dataQ') :
            \/ i \in 1..Len(dataQ) /\ dataQ'[i] = dataQ[i]
            \/ i = Len(dataQ) + 1 /\ dataQ'[i] = sendPkt
  BY <1>1, SendToFacts
<1>4. sendPkt.sq = b
  BY <1>1 DEF Agreement, CurrentPacket
<1>5. InOrderOnce' /\ ServerPosition'
  BY <1>1, <1>2 DEF Agreement, InOrderOnce, ServerPosition
<1>6. CurrentPacket'
  BY <1>1, <1>2, <1>3 DEF Agreement, CurrentPacket
<1>7. NothingStale'
  <2>1. sstate = 1 - b => \A i \in 1..Len(dataQ') : dataQ'[i].sq = b
    BY <1>1, <1>3, <1>4 DEF Agreement, NothingStale
  <2> QED
    BY <1>1, <1>2, <2>1 DEF Agreement, NothingStale
<1>8. OldBeforeNew'
  <2>1. ASSUME NEW i \in 1..Len(dataQ'), NEW j \in 1..Len(dataQ'),
               i < j, dataQ'[i].sq = b
        PROVE  dataQ'[j].sq = b
    <3>1. i \in 1..Len(dataQ) /\ dataQ'[i] = dataQ[i]
      BY <1>3, <2>1
    <3> QED
      BY <1>1, <1>3, <1>4, <2>1, <3>1 DEF Agreement, OldBeforeNew
  <2> QED
    BY <1>1, <1>2, <2>1 DEF Agreement, OldBeforeNew
<1> QED
  BY <1>5, <1>6, <1>7, <1>8 DEF Agreement

(* What the server's receiving leaves true, whatever it does next: taking  *)
(* the first packet changes neither the rest nor their order.              *)
LEMMA PacketGoneFacts ==
    ASSUME TypeOK, Agreement, Readable(dataQ), dataQ' = Tail(dataQ),
           UNCHANGED clientVars
    PROVE  /\ ClientBit' = ClientBit /\ Outstanding' = Outstanding
           /\ CurrentPacket'
           /\ \A i \in 1..Len(dataQ') :
                 \E k \in 1..Len(dataQ) : dataQ'[i] = dataQ[k]
           /\ \A i, j \in 1..Len(dataQ') :
                 i < j /\ dataQ'[i].sq = ClientBit => dataQ'[j].sq = ClientBit
           /\ Head(dataQ).sq = ClientBit =>
                 \A i \in 1..Len(dataQ') : dataQ'[i].sq = ClientBit
<1> USE DEF TypeOK, clientVars
<1>1. /\ Len(dataQ) >= 1 /\ Head(dataQ) = dataQ[1]
      /\ Len(dataQ') = Len(dataQ) - 1
      /\ \A i \in 1..Len(dataQ') :
            i + 1 \in 1..Len(dataQ) /\ dataQ'[i] = dataQ[i + 1]
  BY RecvFromFacts
<1>2. ClientBit' = ClientBit /\ Outstanding' = Outstanding
  BY DEF ClientBit, Outstanding
<1>3. CurrentPacket'
  BY <1>1, <1>2 DEF Agreement, CurrentPacket
<1>4. ASSUME NEW i \in 1..Len(dataQ'), NEW j \in 1..Len(dataQ'),
             i < j, dataQ'[i].sq = ClientBit
      PROVE  dataQ'[j].sq = ClientBit
  <2>1. \A k, l \in 1..Len(dataQ) :
           k < l /\ dataQ[k].sq = ClientBit => dataQ[l].sq = ClientBit
    BY DEF Agreement, OldBeforeNew
  <2>2. /\ i + 1 \in 1..Len(dataQ) /\ j + 1 \in 1..Len(dataQ)
        /\ dataQ'[i] = dataQ[i + 1] /\ dataQ'[j] = dataQ[j + 1]
    BY <1>1
  <2>3. i + 1 < j + 1
    BY <1>4
  <2> QED
    BY <1>4, <2>1, <2>2, <2>3
<1>5. Head(dataQ).sq = ClientBit =>
         \A i \in 1..Len(dataQ') : dataQ'[i].sq = ClientBit
  BY <1>1 DEF Agreement, OldBeforeNew
<1> QED
  BY <1>1, <1>2, <1>3, <1>4, <1>5

(* A packet thrown away by dropPacket().                                   *)
LEMMA DropPacketStep ==
    ASSUME TypeOK, Agreement, NEW b \in Bit, DropPacket(b)
    PROVE  Agreement'
<1>1. /\ Readable(dataQ) /\ dataQ' = Tail(dataQ)
      /\ UNCHANGED <<cstate, sendPkt, sent, ackQ, sstate, delivered>>
  BY DEF DropPacket, clientVars, serverVars
<1>2. ClientBit' = ClientBit /\ Outstanding' = Outstanding /\ CurrentPacket'
  BY <1>1, PacketGoneFacts DEF clientVars
<1>3. InOrderOnce' /\ ServerPosition'
  BY <1>1, <1>2 DEF Agreement, InOrderOnce, ServerPosition
<1>4. NothingStale'
  BY <1>1, <1>2, PacketGoneFacts DEF Agreement, NothingStale, clientVars
<1>5. OldBeforeNew'
  BY <1>1, <1>2, PacketGoneFacts DEF Agreement, OldBeforeNew, clientVars
<1> QED
  BY <1>2, <1>3, <1>4, <1>5 DEF Agreement

(* The server takes a packet: it can only be the current message, and only *)
(* the first time; its acknowledgement goes behind all older ones.         *)
LEMMA AcceptPacketStep ==
    ASSUME TypeOK, Agreement, NEW b \in Bit, AcceptPacket(b)
    PROVE  Agreement'
<1> USE DEF TypeOK
<1>1. /\ Readable(dataQ) /\ dataQ' = Tail(dataQ) /\ Head(dataQ).sq = b
      /\ UNCHANGED <<cstate, sendPkt, sent>>
      /\ sstate = b /\ sstate' = 1 - b
      /\ delivered' = Append(delivered, Head(dataQ).data)
      /\ ackQ' = SendTo(ackQ, b)
  BY DEF AcceptPacket, clientVars
<1>2. Len(dataQ) >= 1 /\ Head(dataQ) = dataQ[1] /\ Head(dataQ) \in Packet
  BY <1>1, RecvFromFacts
<1>3. /\ \A i \in 1..Len(ackQ') :
            \/ i \in 1..Len(ackQ) /\ ackQ'[i] = ackQ[i]
            \/ i = Len(ackQ) + 1 /\ ackQ'[i] = b
      /\ Len(ackQ') \in {Len(ackQ), Len(ackQ) + 1}
  BY <1>1, SendToFacts
<1> USE DEF Bit
<1>4. ClientBit = b /\ Outstanding
  BY <1>1, <1>2 DEF Agreement, ServerPosition, NothingStale, ClientBit, Outstanding
<1>5. /\ Head(dataQ).data = sent[Len(sent)]
      /\ Len(sent) > 0 /\ Len(delivered) = Len(sent) - 1
  BY <1>1, <1>2, <1>4 DEF Agreement, CurrentPacket, ServerPosition
<1>6. /\ ClientBit' = b /\ Outstanding' /\ CurrentPacket'
      /\ \A i \in 1..Len(dataQ') : dataQ'[i].sq = b
  BY <1>1, <1>4, PacketGoneFacts DEF clientVars
<1>7. \A i \in 1..Len(ackQ) : ackQ[i] = 1 - b
  BY <1>1, <1>4 DEF Agreement, NothingStale
<1>8. InOrderOnce'
  <2>1. Head(dataQ).data \in Message
    BY <1>2 DEF Packet
  <2>2. /\ Len(delivered') = Len(sent)
        /\ delivered'[Len(sent)] = sent[Len(sent)]
        /\ \A i \in 1..Len(delivered) : delivered'[i] = delivered[i]
    BY <1>1, <1>5, <2>1
  <2> QED
    BY <1>1, <1>5, <2>2 DEF Agreement, InOrderOnce
<1>9. ServerPosition' /\ NothingStale'
  BY <1>1, <1>5, <1>6 DEF ServerPosition, NothingStale
<1>10. OldBeforeNew'
  <2>1. ASSUME NEW i \in 1..Len(ackQ'), NEW j \in 1..Len(ackQ'), i < j
        PROVE  ackQ'[i] # b
    <3>1. i \in 1..Len(ackQ) /\ ackQ'[i] = ackQ[i]
      BY <1>3, <2>1
    <3> QED
      BY <1>7, <3>1
  <2> QED
    BY <1>6, <2>1 DEF OldBeforeNew
<1> QED
  BY <1>6, <1>8, <1>9, <1>10 DEF Agreement

(* A packet the server already has: while the client still waits for it    *)
(* the acknowledgement is the current one, otherwise it is an old one.     *)
LEMMA ReacknowledgeOldStep ==
    ASSUME TypeOK, Agreement, NEW b \in Bit, ReacknowledgeOld(b)
    PROVE  Agreement'
<1> USE DEF TypeOK
<1>1. /\ Readable(dataQ) /\ dataQ' = Tail(dataQ)
      /\ UNCHANGED <<cstate, sendPkt, sent, sstate, delivered>>
      /\ sstate = b /\ ackQ' = SendTo(ackQ, 1 - b)
  BY DEF ReacknowledgeOld, clientVars, serverVars
<1>2. /\ ClientBit' = ClientBit /\ Outstanding' = Outstanding /\ CurrentPacket'
      /\ \A i \in 1..Len(dataQ') :
            \E k \in 1..Len(dataQ) : dataQ'[i] = dataQ[k]
      /\ \A i, j \in 1..Len(dataQ') :
            i < j /\ dataQ'[i].sq = ClientBit => dataQ'[j].sq = ClientBit
  BY <1>1, PacketGoneFacts DEF clientVars
<1>3. /\ \A i \in 1..Len(ackQ') :
            \/ i \in 1..Len(ackQ) /\ ackQ'[i] = ackQ[i]
            \/ i = Len(ackQ) + 1 /\ ackQ'[i] = 1 - b
      /\ Len(ackQ') \in {Len(ackQ), Len(ackQ) + 1}
  <2>1. 1 - b \in Bit
    BY DEF Bit
  <2> QED
    BY <1>1, <2>1, SendToFacts
<1> USE DEF Bit
<1>4. ClientBit \in {b, 1 - b}
  BY DEF ClientBit
<1>5. InOrderOnce' /\ ServerPosition'
  BY <1>1, <1>2 DEF Agreement, InOrderOnce, ServerPosition
<1>6. NothingStale'
  <2>1. sstate' = ClientBit' =>
           \A i \in 1..Len(ackQ') : ackQ'[i] = 1 - ClientBit'
    BY <1>1, <1>2, <1>3 DEF Agreement, NothingStale
  <2>2. /\ sstate' = 1 - ClientBit' =>
              \A i \in 1..Len(dataQ') : dataQ'[i].sq = ClientBit'
        /\ ~Outstanding' =>
              \A i \in 1..Len(dataQ') : dataQ'[i].sq = 1 - ClientBit'
    BY <1>1, <1>2 DEF Agreement, NothingStale
  <2> QED
    BY <2>1, <2>2 DEF NothingStale
<1>7. OldBeforeNew'
  <2>1. ASSUME NEW i \in 1..Len(ackQ'), NEW j \in 1..Len(ackQ'),
               i < j, ackQ'[i] = ClientBit
        PROVE  ackQ'[j] = ClientBit
    <3>1. i \in 1..Len(ackQ) /\ ackQ'[i] = ackQ[i]
      BY <1>3, <2>1
    <3>2. ClientBit = 1 - b
      BY <1>1, <1>4, <2>1, <3>1 DEF Agreement, NothingStale
    <3> QED
      BY <1>3, <2>1, <3>1, <3>2 DEF Agreement, OldBeforeNew
  <2> QED
    BY <1>2, <2>1 DEF OldBeforeNew
<1> QED
  BY <1>2, <1>5, <1>6, <1>7 DEF Agreement

-----------------------------------------------------------------------------
(* The two programs stay in agreement: the inductive invariant on which    *)
(* in-order, exactly-once delivery rests.                                  *)
LEMMA AgreementStep == TypeOK /\ Agreement /\ [Next]_vars => Agreement'
<1> SUFFICES ASSUME TypeOK, Agreement, [Next]_vars
             PROVE  Agreement'
  OBVIOUS
<1>1. ASSUME NEW b \in Bit, DropAck(b)
      PROVE  Agreement'
  BY <1>1, AckGoneStep DEF DropAck
<1>2. CASE UNCHANGED vars
  BY <1>2 DEF vars, Agreement, InOrderOnce, CurrentPacket, ServerPosition,
              NothingStale, OldBeforeNew, ClientBit, Outstanding
<1> QED
  BY <1>1, <1>2, StepCases, EnterMessageStep, ReceiveAckStep, TimeoutStep,
     DropPacketStep, AcceptPacketStep, ReacknowledgeOldStep

(* Agreement holds in every reachable state, for every set of messages,    *)
(* every buffer capacity and every number of rounds.                       *)
THEOREM AlwaysAgreement == Spec => []Agreement
<1>1. Init => Agreement
  BY DEF Init, Agreement, InOrderOnce, CurrentPacket, ServerPosition,
         NothingStale, OldBeforeNew, ClientBit, Outstanding
<1> QED
  BY <1>1, AgreementStep, TypeCorrect, PTL DEF Spec

(* What the server prints is always a prefix of what the user typed: no    *)
(* message is lost, repeated or reordered by udp_client.c/udp_server.c.    *)
THEOREM DeliveredInOrderOnce == Spec => []InOrderOnce
<1>1. Agreement => InOrderOnce
  BY DEF Agreement
<1> QED
  BY <1>1, AlwaysAgreement, PTL

(* The client asks for the next message only when the server has printed   *)
(* all the earlier ones.                                                   *)
THEOREM NoAckBeforeDelivery == Spec => []NoFalseAck
<1>1. TypeOK /\ Agreement => NoFalseAck
  BY DEF Agreement, ServerPosition, NoFalseAck, Outstanding, TypeOK
<1> QED
  BY <1>1, AlwaysAgreement, TypeCorrect, PTL

-----------------------------------------------------------------------------
(* Each step of lab6 is a step of the windowed transfer with window 1: a   *)
(* typed message is a Submit, a printed one a Deliver, the end of a wait a *)
(* Confirm, and every loss, timeout and repeated acknowledgement a stutter.*)
LEMMA StepImplementsTransfer ==
    TypeOK /\ Agreement /\ [Next]_vars =>
        [Transfer!Next]_(Transfer!absVars)
<1> DEFINE confirmed == IF Outstanding THEN Len(sent) - 1 ELSE Len(sent)
<1> SUFFICES ASSUME TypeOK, Agreement, [Next]_vars
             PROVE  [Transfer!Next]_(Transfer!absVars)
  OBVIOUS
<1> USE DEF TypeOK, Bit
<1>1. ASSUME NEW b \in Bit, EnterMessage(b)
      PROVE  Transfer!Submit
  <2>1. ~Outstanding /\ Outstanding' /\ delivered' = delivered
    BY <1>1, ClientState, ClientStatePrime DEF EnterMessage, serverVars
  <2>2. PICK m \in Message : sent' = Append(sent, m)
    BY <1>1 DEF EnterMessage
  <2>3. confirmed' = confirmed /\ Len(sent) < confirmed + 1
    BY <2>1, <2>2
  <2> QED
    BY <2>1, <2>2, <2>3 DEF Transfer!Submit
<1>2. ASSUME NEW b \in Bit, ReceiveAck(b), Head(ackQ) = b
      PROVE  Transfer!Confirm
  <2>1. /\ Outstanding /\ ~Outstanding' /\ ClientBit' = 1 - b
        /\ UNCHANGED <<sent, delivered>>
    BY <1>2, ClientState, ClientStatePrime DEF ReceiveAck, serverVars
  <2>2. Agreement'
    BY AgreementStep
  <2>3. Len(delivered) = Len(sent)
    BY <2>1, <2>2 DEF Agreement, ServerPosition
  <2>4. confirmed' = Len(sent) /\ confirmed = Len(sent) - 1
    BY <2>1
  <2>5. confirmed' \in confirmed + 1 .. Len(delivered)
    BY <2>3, <2>4
  <2> QED
    BY <2>1, <2>5 DEF Transfer!Confirm
<1>3. ASSUME NEW b \in Bit, AcceptPacket(b)
      PROVE  Transfer!Deliver
  <2>1. /\ delivered' = Append(delivered, Head(dataQ).data)
        /\ UNCHANGED <<cstate, sent>>
    BY <1>3 DEF AcceptPacket, clientVars
  <2>2. Agreement'
    BY AgreementStep
  <2>3. /\ Len(delivered) + 1 <= Len(sent)
        /\ delivered'[Len(delivered) + 1] = sent[Len(delivered) + 1]
    <3>1. Len(delivered') = Len(delivered) + 1
      BY <2>1
    <3> QED
      BY <2>1, <2>2, <3>1 DEF Agreement, InOrderOnce
  <2>4. delivered'[Len(delivered) + 1] = Head(dataQ).data
    BY <2>1
  <2>5. confirmed' = confirmed
    BY <2>1 DEF Outstanding
  <2> QED
    BY <2>1, <2>3, <2>4, <2>5 DEF Transfer!Deliver
<1>4. ASSUME NEW b \in Bit,
             \/ DropAck(b) \/ Timeout(b) \/ DropPacket(b) \/ ReacknowledgeOld(b)
             \/ ReceiveAck(b) /\ Head(ackQ) # b
      PROVE  UNCHANGED Transfer!absVars
  BY <1>4 DEF DropAck, Timeout, DropPacket, ReacknowledgeOld, ReceiveAck,
              clientVars, serverVars, Transfer!absVars, Outstanding
<1>5. CASE UNCHANGED vars
  BY <1>5 DEF vars, Transfer!absVars, Outstanding
<1> QED
  BY <1>1, <1>2, <1>3, <1>4, <1>5, StepCases DEF Transfer!Next

(* The stop-and-wait pair implements the windowed transfer with window 1.  *)
THEOREM StopAndWaitImplementsTransfer == Spec => ImplementsTransfer
<1>1. Init => Transfer!Init
  BY DEF Init, Transfer!Init, Outstanding
<1> QED
  BY <1>1, StepImplementsTransfer, AlwaysAgreement, TypeCorrect, PTL
  DEF Spec, ImplementsTransfer, Transfer!Spec
=============================================================================
