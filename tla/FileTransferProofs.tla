-------------------------- MODULE FileTransferProofs --------------------------
(***************************************************************************)
(* Proofs about FileTransfer, for every number of fields and every         *)
(* capacity of the socket buffers: its types, and that the pair is a       *)
(* windowed transfer with a window of one field, however often the server  *)
(* is killed and started again.                                            *)
(***************************************************************************)
EXTENDS FileTransfer, UdpSocketProofs

(* The client, its queues and what it holds. *)
Read  == itemsRead[TheClient]
Sent  == dataQ[TheClient]
Acks  == ackQ[TheClient]
Waits == Outstanding(TheClient)

(* Fields are numbered 0 and 1 in turn, the first one 0. *)
Number(d) == (d + 1) % 2
PacketOf(d) == [seq_no |-> Number(d), data |-> d]

(* What is printed is the file from its start, up to the field that was    *)
(* read last, or up to the one before it while the client waits.           *)
Position ==
    /\ \A i \in 1..Len(printed) : printed[i] = i
    /\ Len(printed) <= Read /\ Read <= Len(printed) + 1
    /\ ~Waits => Len(printed) = Read

(* The state of the client is the parity of the number of fields read. *)
ClientInStep ==
    /\ Waits => /\ state[TheClient] = 2 * Number(Read) + 1
                /\ Read > 0
                /\ pkt[TheClient] = PacketOf(Read)
    /\ ~Waits => state[TheClient] = 2 * (1 - Number(Read))

(* Under way are copies of the field read last and of the one before it,   *)
(* those behind these, and the older ones only until the last is printed.  *)
PacketsInOrder ==
    /\ \A i \in 1..Len(Sent) :
          /\ Sent[i].data > 0
          /\ Sent[i].data = Read \/ Sent[i].data + 1 = Read
          /\ Sent[i].seq_no = Number(Sent[i].data)
          /\ Len(printed) = Read => Sent[i].data = Read
    /\ \A i, j \in 1..Len(Sent) :
          i < j /\ Sent[i].data = Read => Sent[j].data = Read

(* So are their acknowledgements: the first one that can end the wait      *)
(* stands behind all those that cannot, and the field is printed.          *)
AcksInOrder ==
    /\ \A i \in 1..Len(Acks) :
          /\ Acks[i] = Number(Read) => Len(printed) = Read
          /\ ~Waits => Acks[i] = Number(Read)
    /\ \A i, j \in 1..Len(Acks) :
          i < j /\ Acks[i] = Number(Read) => Acks[j] = Number(Read)

Agreement == Position /\ ClientInStep /\ PacketsInOrder /\ AcksInOrder

-----------------------------------------------------------------------------
(* Consecutive fields have different numbers. *)
LEMMA NumberFacts ==
    \A d \in Nat : Number(d) \in Bit /\ Number(d + 1) = 1 - Number(d)
  BY DEF Number, Bit

(* What the types say about the one client there is. *)
LEMMA TheClientType ==
    TypeOK => /\ TheClient \in Clients
              /\ Read \in Nat /\ Read <= NumItems[TheClient]
              /\ NumItems[TheClient] \in Nat
              /\ state[TheClient] \in 0..3
              /\ pkt[TheClient] \in Packet
              /\ Sent \in Seq(Packet) /\ Len(Sent) <= Cap
              /\ Acks \in Seq(Bit) /\ Len(Acks) <= Cap
              /\ printed \in Seq(Nat) /\ sstate \in Bit
  BY OneClientAssumption, NumItemsAssumption
  DEF TypeOK, SenderTypeOK, Read, Sent, Acks

(* What one turn of the client's loop does, seen from the one client.      *)
LEMMA ReadPacketFacts ==
    ASSUME TypeOK, ReadPacket(TheClient)
    PROVE  /\ SenderTypeOK'
           /\ ~Waits /\ Waits'
           /\ Read' = Read + 1
           /\ state'[TheClient] = state[TheClient] + 1
           /\ pkt'[TheClient].seq_no = state[TheClient] \div 2
           /\ pkt'[TheClient].data = Read + 1
           /\ Sent' = SendTo(Sent, pkt'[TheClient]) /\ Acks' = Acks
<1> DEFINE p == [seq_no |-> state[TheClient] \div 2, data |-> Read + 1]
<1>1. /\ state[TheClient] \in {0, 2} /\ Read \in Nat
      /\ Read + 1 \in 0..NumItems[TheClient]
      /\ itemsRead' = [itemsRead EXCEPT ![TheClient] = Read + 1]
      /\ pkt' = [pkt EXCEPT ![TheClient] = p]
      /\ dataQ' = [dataQ EXCEPT ![TheClient] = SendTo(Sent, pkt'[TheClient])]
      /\ state' = [state EXCEPT ![TheClient] = state[TheClient] + 1]
      /\ UNCHANGED <<running, ackQ>>
  BY TheClientType DEF ReadPacket, Read, Sent
<1>2. p \in Packet
  BY <1>1 DEF Packet, Bit
<1>3. pkt'[TheClient] = p
  BY <1>1, TheClientType DEF TypeOK, SenderTypeOK
<1>4. SendTo(Sent, p) \in Seq(Packet) /\ Len(SendTo(Sent, p)) <= Cap
  BY <1>2, TheClientType, SendToFacts
<1>5. running' = [running EXCEPT ![TheClient] = running[TheClient]]
      /\ ackQ' = [ackQ EXCEPT ![TheClient] = Acks]
      /\ running[TheClient] \in BOOLEAN
  BY <1>1, TheClientType DEF TypeOK, SenderTypeOK, Acks
<1> HIDE DEF p
<1>6. /\ SenderTypeOK'
      /\ Read' = Read + 1 /\ state'[TheClient] = state[TheClient] + 1
      /\ Sent' = SendTo(Sent, p) /\ Acks' = Acks
  BY <1>1, <1>2, <1>3, <1>4, <1>5, TheClientType
  DEF TypeOK, SenderTypeOK, Read, Sent, Acks
<1>7. ~Waits /\ Waits'
  BY <1>1, <1>6 DEF Waits, Outstanding
<1> QED
  BY <1>3, <1>6, <1>7 DEF p

LEMMA HandleAckFacts ==
    ASSUME TypeOK, HandleAck(TheClient)
    PROVE  /\ SenderTypeOK'
           /\ Waits /\ Readable(Acks) /\ Acks' = Tail(Acks)
           /\ Read' = Read /\ pkt' = pkt /\ Sent' = Sent
           /\ Acks[1] # (state[TheClient] - 1) \div 2 =>
                 state'[TheClient] = state[TheClient] /\ Waits'
           /\ Acks[1] = (state[TheClient] - 1) \div 2 =>
                 state'[TheClient] = (state[TheClient] + 1) % 4 /\ ~Waits'
<1> DEFINE s == IF Acks[1] = (state[TheClient] - 1) \div 2
                THEN (state[TheClient] + 1) % 4 ELSE state[TheClient]
<1>1. /\ state[TheClient] \in {1, 3} /\ Readable(Acks)
      /\ state' = [state EXCEPT ![TheClient] = s]
      /\ ackQ' = [ackQ EXCEPT ![TheClient] = Tail(Acks)]
      /\ UNCHANGED <<running, itemsRead, pkt, dataQ>>
  BY TheClientType, RecvFromFacts
  DEF HandleAck, Waiting, ack_no, next_state, Acks
<1>2. Tail(Acks) \in Seq(Bit) /\ Len(Tail(Acks)) <= Cap
  BY <1>1, TheClientType, RecvFromFacts, CapAssumption
<1>3. s \in 0..3
  BY <1>1
<1>4. /\ running' = [running EXCEPT ![TheClient] = running[TheClient]]
      /\ itemsRead' = [itemsRead EXCEPT ![TheClient] = Read]
      /\ pkt' = [pkt EXCEPT ![TheClient] = pkt[TheClient]]
      /\ dataQ' = [dataQ EXCEPT ![TheClient] = Sent]
      /\ running[TheClient] \in BOOLEAN
  BY <1>1, TheClientType DEF TypeOK, SenderTypeOK, Read, Sent
<1> HIDE DEF s
<1>5. /\ SenderTypeOK' /\ state'[TheClient] = s
      /\ Read' = Read /\ Sent' = Sent /\ Acks' = Tail(Acks)
  BY <1>1, <1>2, <1>3, <1>4, TheClientType
  DEF TypeOK, SenderTypeOK, Read, Sent, Acks
<1>6. Waits
  BY <1>1 DEF Waits, Outstanding
<1>7. ASSUME Acks[1] # (state[TheClient] - 1) \div 2
      PROVE  state'[TheClient] = state[TheClient] /\ Waits'
  BY <1>1, <1>5, <1>7 DEF s, Waits, Outstanding
<1>8. ASSUME Acks[1] = (state[TheClient] - 1) \div 2
      PROVE  state'[TheClient] = (state[TheClient] + 1) % 4 /\ ~Waits'
  BY <1>1, <1>5, <1>8 DEF s, Waits, Outstanding
<1> QED
  BY <1>1, <1>5, <1>6, <1>7, <1>8

LEMMA HandleTimeoutFacts ==
    ASSUME TypeOK, HandleTimeout(TheClient)
    PROVE  /\ SenderTypeOK'
           /\ Waits /\ Waits' /\ Sent' = SendTo(Sent, pkt[TheClient])
           /\ Read' = Read /\ pkt' = pkt /\ Acks' = Acks
           /\ state'[TheClient] = state[TheClient]
<1>1. /\ Waits
      /\ dataQ' = [dataQ EXCEPT ![TheClient] = SendTo(Sent, pkt[TheClient])]
      /\ UNCHANGED <<running, state, itemsRead, pkt, ackQ>>
  BY DEF HandleTimeout, Waiting, Waits, Outstanding, Sent, clientVars
<1>2. /\ SendTo(Sent, pkt[TheClient]) \in Seq(Packet)
      /\ Len(SendTo(Sent, pkt[TheClient])) <= Cap
  BY TheClientType, SendToFacts
<1>3. /\ running' = [running EXCEPT ![TheClient] = running[TheClient]]
      /\ state' = [state EXCEPT ![TheClient] = state[TheClient]]
      /\ itemsRead' = [itemsRead EXCEPT ![TheClient] = Read]
      /\ pkt' = [pkt EXCEPT ![TheClient] = pkt[TheClient]]
      /\ ackQ' = [ackQ EXCEPT ![TheClient] = Acks]
      /\ running[TheClient] \in BOOLEAN
  BY <1>1, TheClientType DEF TypeOK, SenderTypeOK, Read, Acks
<1>4. /\ SenderTypeOK'
      /\ Read' = Read /\ Acks' = Acks
      /\ Sent' = SendTo(Sent, pkt[TheClient])
  BY <1>1, <1>2, <1>3, TheClientType DEF TypeOK, SenderTypeOK, Read, Sent, Acks
<1> QED
  BY <1>1, <1>4 DEF Waits, Outstanding

(* The client's exit is all that happens in its last step. *)
LEMMA EndOfFileFacts ==
    ASSUME TypeOK, EndOfFile(TheClient)
    PROVE  /\ SenderTypeOK'
           /\ UNCHANGED <<state, itemsRead, pkt, dataQ, ackQ>>
  BY DEF EndOfFile, TypeOK, SenderTypeOK

(* What the server prints: the field, or nothing if it printed it last.    *)
LEMMA PrintedType ==
    ASSUME TypeOK, NEW p \in Packet
    PROVE  Printed(p) \in Seq(Nat)
<1>1. p.data \in Nat /\ printed \in Seq(Nat)
  BY TheClientType DEF Packet
<1> QED
  BY <1>1 DEF Printed

(* What the server's turn does to the queues. *)
LEMMA ReceivePacketFacts ==
    ASSUME TypeOK, ReceivePacket
    PROVE  /\ TypeOK'
           /\ Waits' = Waits /\ Read' = Read /\ UNCHANGED <<state, pkt>>
           /\ Readable(Sent) /\ Sent' = Tail(Sent) /\ Sent[1] \in Packet
           /\ printed' = Printed(Sent[1])
           /\ Acks' = SendTo(Acks, Sent[1].seq_no)
<1>1. /\ Readable(Sent) /\ UNCHANGED clientVars
      /\ dataQ' = [dataQ EXCEPT ![TheClient] = Tail(Sent)]
      /\ printed' = Printed(Head(Sent))
      /\ sstate' = IF Head(Sent).seq_no = sstate THEN (sstate + 1) % 2 ELSE sstate
      /\ ackQ' = [ackQ EXCEPT ![TheClient] = SendTo(Acks, Head(Sent).seq_no)]
  BY DEF ReceivePacket, Receiving, TakeHead, AckNumber, Sent, Acks
<1>2. /\ Head(Sent) \in Packet /\ Head(Sent) = Sent[1]
      /\ Tail(Sent) \in Seq(Packet) /\ Len(Tail(Sent)) <= Cap
  BY <1>1, TheClientType, RecvFromFacts, CapAssumption
<1>3. Head(Sent).seq_no \in Bit
  BY <1>2 DEF Packet
<1>4. /\ SendTo(Acks, Head(Sent).seq_no) \in Seq(Bit)
      /\ Len(SendTo(Acks, Head(Sent).seq_no)) <= Cap
  BY <1>3, TheClientType, SendToFacts
<1>5. printed' \in Seq(Nat)
  BY <1>1, <1>2, PrintedType
<1>6. sstate' \in Bit
  BY <1>1, TheClientType DEF Bit
<1>7. /\ SenderTypeOK' /\ Sent' = Tail(Sent)
      /\ Acks' = SendTo(Acks, Head(Sent).seq_no)
  BY <1>1, <1>2, <1>4, TheClientType
  DEF TypeOK, SenderTypeOK, Sent, Acks, clientVars
<1>8. Waits' = Waits /\ Read' = Read /\ UNCHANGED <<state, pkt>>
  BY <1>1 DEF Waits, Outstanding, Read, clientVars
<1> QED
  BY <1>1, <1>2, <1>5, <1>6, <1>7, <1>8 DEF TypeOK

LEMMA DropPacketFacts ==
    ASSUME TypeOK, DropPacket
    PROVE  /\ TypeOK'
           /\ Waits' = Waits /\ Read' = Read /\ UNCHANGED <<state, pkt, printed>>
           /\ Readable(Sent) /\ Sent' = Tail(Sent) /\ Acks' = Acks
<1>1. /\ Readable(Sent) /\ UNCHANGED <<clientVars, ackQ, sstate, printed>>
      /\ dataQ' = [dataQ EXCEPT ![TheClient] = Tail(Sent)]
  BY DEF DropPacket, Receiving, TakeHead, Sent
<1>2. Tail(Sent) \in Seq(Packet) /\ Len(Tail(Sent)) <= Cap
  BY <1>1, TheClientType, RecvFromFacts, CapAssumption
<1>3. TypeOK' /\ Sent' = Tail(Sent)
  BY <1>1, <1>2, TheClientType DEF TypeOK, SenderTypeOK, Sent, clientVars
<1> QED
  BY <1>1, <1>3 DEF Waits, Outstanding, Read, Acks, clientVars

(* A killed server leaves the client and the acknowledgements as they are. *)
LEMMA RestartFacts ==
    ASSUME TypeOK, Restart
    PROVE  /\ TypeOK'
           /\ Waits' = Waits /\ Read' = Read /\ UNCHANGED <<state, pkt>>
           /\ Sent' = <<>> /\ Acks' = Acks
           /\ \/ printed' = printed
              \/ Readable(Sent) /\ Sent[1] \in Packet /\ printed' = Printed(Sent[1])
<1>1. /\ \/ printed' = printed
         \/ Readable(Sent) /\ printed' = Printed(Head(Sent))
      /\ sstate' = 0 /\ UNCHANGED <<clientVars, ackQ>>
      /\ dataQ' = [dataQ EXCEPT ![TheClient] = <<>>]
  BY DEF Restart, Sent
<1>2. Readable(Sent) => Head(Sent) \in Packet /\ Head(Sent) = Sent[1]
  BY TheClientType, RecvFromFacts
<1>3. printed' \in Seq(Nat)
  BY <1>1, <1>2, PrintedType, TheClientType
<1>4. <<>> \in Seq(Packet) /\ Len(<<>>) <= Cap /\ 0 \in Bit
  BY CapAssumption DEF Bit
<1>5. SenderTypeOK' /\ Sent' = <<>>
  BY <1>1, <1>4, TheClientType DEF TypeOK, SenderTypeOK, Sent, clientVars
<1>6. TypeOK'
  BY <1>1, <1>3, <1>4, <1>5 DEF TypeOK
<1> QED
  BY <1>1, <1>2, <1>5, <1>6 DEF Waits, Outstanding, Read, Acks, clientVars

-----------------------------------------------------------------------------
(* No step of either program, and no restart, takes a value out of its     *)
(* type.                                                                   *)
LEMMA TypeStep == TypeOK /\ [Next]_vars => TypeOK'
<1> SUFFICES ASSUME TypeOK, [Next]_vars
             PROVE  TypeOK'
  OBVIOUS
<1>1. CASE Sender(TheClient) /\ UNCHANGED <<sstate, printed>>
  <2>1. SenderTypeOK'
    BY <1>1, ReadPacketFacts, EndOfFileFacts, HandleAckFacts, HandleTimeoutFacts
    DEF Sender
  <2> QED
    BY <1>1, <2>1 DEF TypeOK
<1>2. CASE UNCHANGED vars
  BY <1>2 DEF vars, senderVars, clientVars, TypeOK, SenderTypeOK
<1> QED
  BY <1>1, <1>2, ReceivePacketFacts, DropPacketFacts, RestartFacts DEF Next

(* The variables keep their types, and no receive buffer of client.c or    *)
(* server.c ever holds more than it has room for, restarts included.       *)
THEOREM TypeCorrect == Spec => []TypeOK
<1>1. Init => TypeOK
  <2> SUFFICES ASSUME Init
               PROVE  TypeOK
    OBVIOUS
  <2>1. /\ <<>> \in Seq(Packet) /\ <<>> \in Seq(Bit) /\ <<>> \in Seq(Nat)
        /\ Len(<<>>) <= Cap /\ 0 \in Bit /\ [seq_no |-> 0, data |-> 0] \in Packet
    BY CapAssumption DEF Bit, Packet
  <2>2. \A c \in Clients : 0 <= NumItems[c]
    BY NumItemsAssumption
  <2> QED
    BY <2>1, <2>2 DEF Init, SenderInit, TypeOK, SenderTypeOK
<1> QED
  BY <1>1, TypeStep, PTL DEF Spec

-----------------------------------------------------------------------------
(* A new field goes out: what is under way belongs to the one before it.   *)
LEMMA ReadPacketStep ==
    ASSUME TypeOK, Agreement, ReadPacket(TheClient), printed' = printed
    PROVE  Agreement'
<1>1. /\ Read \in Nat /\ Read' = Read + 1 /\ ~Waits /\ Waits'
      /\ Len(printed) = Read /\ Len(printed) \in Nat
      /\ state[TheClient] = 2 * (1 - Number(Read))
      /\ Number(Read) \in {0, 1} /\ Number(Read + 1) = 1 - Number(Read)
  BY TheClientType, ReadPacketFacts, NumberFacts
  DEF Agreement, Position, ClientInStep, Bit
<1>2. state[TheClient] \div 2 = Number(Read + 1)
  BY <1>1
<1>3. pkt'[TheClient] = PacketOf(Read + 1)
  <2>1. pkt'[TheClient] \in Packet
    BY ReadPacketFacts, TheClientType DEF SenderTypeOK
  <2> QED
    BY <1>2, <2>1, ReadPacketFacts DEF Packet, PacketOf
<1>4. /\ \A i \in 1..Len(Sent') :
            \/ i \in 1..Len(Sent) /\ Sent'[i] = Sent[i]
            \/ i = Len(Sent) + 1 /\ Sent'[i] = PacketOf(Read + 1)
      /\ Len(Sent') \in {Len(Sent), Len(Sent) + 1} /\ Len(Sent) \in Nat
  <2>1. PacketOf(Read + 1) \in Packet
    BY <1>1 DEF PacketOf, Packet, Bit
  <2>2. /\ Sent' = SendTo(Sent, PacketOf(Read + 1))
        /\ Sent \in Seq(Packet) /\ Len(Sent) <= Cap
    BY <1>3, ReadPacketFacts, TheClientType
  <2>3. Len(Sent) \in Nat
    BY <2>2, LenProperties
  <2> QED
    BY <2>1, <2>2, <2>3, SendToFacts
<1>5. \A i \in 1..Len(Sent) :
          Sent[i].data = Read /\ Read > 0 /\ Sent[i].seq_no = Number(Read)
  BY <1>1 DEF Agreement, PacketsInOrder
<1>6. PacketOf(Read + 1).data = Read + 1
      /\ PacketOf(Read + 1).seq_no = Number(Read + 1)
  BY DEF PacketOf
<1>7. Position'
  BY <1>1 DEF Agreement, Position
<1>8. ClientInStep'
  BY <1>1, <1>3, ReadPacketFacts DEF ClientInStep
<1>9. PacketsInOrder'
  <2>1. ASSUME NEW i \in 1..Len(Sent')
        PROVE  /\ Sent'[i].data > 0
               /\ Sent'[i].data = Read' \/ Sent'[i].data + 1 = Read'
               /\ Sent'[i].seq_no = Number(Sent'[i].data)
               /\ Len(printed') # Read'
    BY <1>1, <1>4, <1>5, <1>6
  <2>2. ASSUME NEW i \in 1..Len(Sent'), NEW j \in 1..Len(Sent'),
               i < j, Sent'[i].data = Read'
        PROVE  FALSE
    BY <1>1, <1>4, <1>5, <2>2
  <2> QED
    BY <2>1, <2>2 DEF PacketsInOrder
<1>10. AcksInOrder'
  <2>1. Acks' = Acks /\ \A i \in 1..Len(Acks) : Acks[i] = Number(Read)
    BY <1>1, ReadPacketFacts DEF Agreement, AcksInOrder
  <2>2. Number(Read') # Number(Read)
    BY <1>1
  <2> QED
    BY <1>1, <2>1, <2>2 DEF AcksInOrder
<1> QED
  BY <1>7, <1>8, <1>9, <1>10 DEF Agreement

(* An acknowledgement is taken from the queue: the one of the field read   *)
(* last ends the wait, and behind it stand only others like it.            *)
LEMMA HandleAckStep ==
    ASSUME TypeOK, Agreement, HandleAck(TheClient), printed' = printed
    PROVE  Agreement'
<1>1. /\ Read \in Nat /\ Read > 0 /\ Waits /\ Readable(Acks)
      /\ Read' = Read /\ pkt' = pkt /\ Sent' = Sent
      /\ Number(Read) \in {0, 1}
      /\ state[TheClient] = 2 * Number(Read) + 1
  <2>1. /\ Read \in Nat /\ Waits /\ Readable(Acks)
        /\ Read' = Read /\ pkt' = pkt /\ Sent' = Sent
    BY TheClientType, HandleAckFacts
  <2>2. Read > 0 /\ state[TheClient] = 2 * Number(Read) + 1
    BY <2>1 DEF Agreement, ClientInStep
  <2>3. Number(Read) \in {0, 1}
    BY <2>1, NumberFacts DEF Bit
  <2> QED
    BY <2>1, <2>2, <2>3
<1>2. (state[TheClient] - 1) \div 2 = Number(Read)
  BY <1>1
<1>3. /\ Len(Acks) >= 1 /\ Len(Acks') = Len(Acks) - 1
      /\ \A i \in 1..Len(Acks') : i + 1 \in 1..Len(Acks) /\ Acks'[i] = Acks[i + 1]
  <2>1. Acks' = Tail(Acks) /\ Acks \in Seq(Bit)
    BY HandleAckFacts, TheClientType
  <2> QED
    BY <1>1, <2>1, RecvFromFacts
<1>4. CASE Acks[1] # Number(Read)
  <2>1. state'[TheClient] = state[TheClient] /\ Waits'
    BY <1>2, <1>4, HandleAckFacts
  <2>2. Position' /\ ClientInStep' /\ PacketsInOrder'
    BY <1>1, <2>1 DEF Agreement, Position, ClientInStep, PacketsInOrder
  <2>3. ASSUME NEW i \in 1..Len(Acks'), NEW j \in 1..Len(Acks'),
               i < j, Acks'[i] = Number(Read)
        PROVE  Acks'[j] = Number(Read)
    <3>1. /\ i + 1 \in 1..Len(Acks) /\ j + 1 \in 1..Len(Acks) /\ i + 1 < j + 1
          /\ Acks'[i] = Acks[i + 1] /\ Acks'[j] = Acks[j + 1]
      BY <1>3, <2>3
    <3> QED
      BY <2>3, <3>1 DEF Agreement, AcksInOrder
  <2>4. AcksInOrder'
    BY <1>1, <1>3, <2>1, <2>3 DEF Agreement, AcksInOrder
  <2> QED
    BY <2>2, <2>4 DEF Agreement
<1>5. CASE Acks[1] = Number(Read)
  <2>1. state'[TheClient] = (state[TheClient] + 1) % 4 /\ ~Waits'
    BY <1>2, <1>5, HandleAckFacts
  <2>2. state'[TheClient] = 2 * (1 - Number(Read))
    BY <1>1, <2>1
  <2>3. Len(printed) = Read
    BY <1>3, <1>5 DEF Agreement, AcksInOrder
  <2>4. \A i \in 1..Len(Acks') : Acks'[i] = Number(Read)
    BY <1>3, <1>5 DEF Agreement, AcksInOrder
  <2>5. Position' /\ ClientInStep' /\ PacketsInOrder'
    BY <1>1, <2>1, <2>2, <2>3
    DEF Agreement, Position, ClientInStep, PacketsInOrder
  <2>6. AcksInOrder'
    BY <1>1, <2>3, <2>4 DEF AcksInOrder
  <2> QED
    BY <2>5, <2>6 DEF Agreement
<1> QED
  BY <1>4, <1>5

(* The timeout puts one more copy of the field behind all others. *)
LEMMA HandleTimeoutStep ==
    ASSUME TypeOK, Agreement, HandleTimeout(TheClient), printed' = printed
    PROVE  Agreement'
<1>1. /\ Waits /\ Waits' /\ Read' = Read /\ pkt' = pkt /\ Acks' = Acks
      /\ state'[TheClient] = state[TheClient]
      /\ Read \in Nat /\ Read > 0 /\ pkt[TheClient] = PacketOf(Read)
  BY HandleTimeoutFacts, TheClientType DEF Agreement, ClientInStep
<1>2. /\ \A i \in 1..Len(Sent') :
            \/ i \in 1..Len(Sent) /\ Sent'[i] = Sent[i]
            \/ i = Len(Sent) + 1 /\ Sent'[i] = PacketOf(Read)
      /\ Len(Sent') \in {Len(Sent), Len(Sent) + 1} /\ Len(Sent) \in Nat
  <2>1. /\ Sent' = SendTo(Sent, PacketOf(Read)) /\ PacketOf(Read) \in Packet
        /\ Sent \in Seq(Packet) /\ Len(Sent) <= Cap
    BY <1>1, HandleTimeoutFacts, TheClientType
  <2>2. Len(Sent) \in Nat
    BY <2>1, LenProperties
  <2> QED
    BY <2>1, <2>2, SendToFacts
<1>3. PacketOf(Read).data = Read /\ PacketOf(Read).seq_no = Number(Read)
  BY DEF PacketOf
<1>4. Position' /\ ClientInStep' /\ AcksInOrder'
  BY <1>1 DEF Agreement, Position, ClientInStep, AcksInOrder
<1>5. PacketsInOrder'
  <2>1. ASSUME NEW i \in 1..Len(Sent')
        PROVE  /\ Sent'[i].data > 0
               /\ Sent'[i].data = Read \/ Sent'[i].data + 1 = Read
               /\ Sent'[i].seq_no = Number(Sent'[i].data)
               /\ Len(printed) = Read => Sent'[i].data = Read
    BY <1>1, <1>2, <1>3 DEF Agreement, PacketsInOrder
  <2>2. ASSUME NEW i \in 1..Len(Sent'), NEW j \in 1..Len(Sent'),
               i < j, Sent'[i].data = Read
        PROVE  Sent'[j].data = Read
    <3>1. i \in 1..Len(Sent) /\ Sent'[i] = Sent[i]
      BY <1>2, <2>2
    <3> QED
      BY <1>2, <1>3, <2>2, <3>1 DEF Agreement, PacketsInOrder
  <2> QED
    BY <1>1, <2>1, <2>2 DEF PacketsInOrder
<1> QED
  BY <1>4, <1>5 DEF Agreement

(* What the server prints when it takes the first packet: the field read   *)
(* last, if that is not printed yet, and otherwise nothing new.            *)
LEMMA PrintedFacts ==
    ASSUME TypeOK, Agreement, Readable(Sent)
    PROVE  \/ /\ Sent[1].data + 1 = Read /\ Len(printed) + 1 = Read
              /\ Printed(Sent[1]) = printed
           \/ /\ Sent[1].data = Read /\ Len(printed) = Read
              /\ Printed(Sent[1]) = printed
           \/ /\ Sent[1].data = Read /\ Len(printed) + 1 = Read
              /\ Printed(Sent[1]) = Append(printed, Read)
<1>1. /\ 1 \in 1..Len(Sent) /\ Sent[1] \in Packet
      /\ Len(printed) \in Nat /\ Read \in Nat
  BY TheClientType, RecvFromFacts, LenProperties
<1>2. Sent[1].data \in Nat
  BY <1>1 DEF Packet
<1>3. /\ Sent[1].data > 0
      /\ Sent[1].data = Read \/ Sent[1].data + 1 = Read
      /\ Len(printed) = Read => Sent[1].data = Read
      /\ Len(printed) = Read \/ Len(printed) + 1 = Read
      /\ Len(printed) > 0 => printed[Len(printed)] = Len(printed)
  BY <1>1, <1>2 DEF Agreement, PacketsInOrder, Position
<1>4. CASE Len(printed) = Sent[1].data
  <2>1. Repeats(Sent[1].data)
    BY <1>2, <1>3, <1>4 DEF Repeats
  <2> QED
    BY <1>1, <1>2, <1>3, <1>4, <2>1 DEF Printed
<1>5. CASE Len(printed) # Sent[1].data
  <2>1. ~Repeats(Sent[1].data)
    BY <1>3, <1>5 DEF Repeats
  <2> QED
    BY <1>1, <1>2, <1>3, <1>5, <2>1 DEF Printed
<1> QED
  BY <1>4, <1>5

(* Printing the next field keeps what is printed in the order of the file. *)
LEMMA PrintedInOrder ==
    ASSUME NEW s \in Seq(Nat), \A i \in 1..Len(s) : s[i] = i, NEW n,
           n = Len(s) + 1
    PROVE  /\ Len(Append(s, n)) = n
           /\ \A i \in 1..Len(Append(s, n)) : Append(s, n)[i] = i
<1>1. Len(s) \in Nat /\ n \in Nat
  BY LenProperties
<1> QED
  BY <1>1, AppendProperties

(* Whatever the server does with its first packet, what it then holds are  *)
(* packets it held before, in the same order.                              *)
LEMMA PacketGone ==
    ASSUME TypeOK, Agreement, Readable(Sent), Sent' = Tail(Sent)
    PROVE  /\ Len(Sent) \in Nat /\ 1 \in 1..Len(Sent)
           /\ \A i \in 1..Len(Sent') :
                 \E k \in 1..Len(Sent) : Sent'[i] = Sent[k]
           /\ \A i, j \in 1..Len(Sent') :
                 i < j /\ Sent'[i].data = Read => Sent'[j].data = Read
           /\ Sent[1].data = Read => \A i \in 1..Len(Sent') : Sent'[i].data = Read
<1>1. /\ Len(Sent) \in Nat /\ 1 \in 1..Len(Sent) /\ Len(Sent') = Len(Sent) - 1
      /\ \A i \in 1..Len(Sent') : i + 1 \in 1..Len(Sent) /\ Sent'[i] = Sent[i + 1]
  BY TheClientType, RecvFromFacts, LenProperties
<1>2. \A k, l \in 1..Len(Sent) : k < l /\ Sent[k].data = Read => Sent[l].data = Read
  BY DEF Agreement, PacketsInOrder
<1>3. ASSUME NEW i \in 1..Len(Sent'), NEW j \in 1..Len(Sent'),
             i < j, Sent'[i].data = Read
      PROVE  Sent'[j].data = Read
  <2>1. /\ i + 1 \in 1..Len(Sent) /\ j + 1 \in 1..Len(Sent) /\ i + 1 < j + 1
        /\ Sent'[i] = Sent[i + 1] /\ Sent'[j] = Sent[j + 1]
    BY <1>1, <1>3
  <2> QED
    BY <1>2, <1>3, <2>1
<1>4. ASSUME Sent[1].data = Read, NEW i \in 1..Len(Sent')
      PROVE  Sent'[i].data = Read
  <2>1. i + 1 \in 1..Len(Sent) /\ 1 < i + 1 /\ Sent'[i] = Sent[i + 1]
    BY <1>1
  <2> QED
    BY <1>1, <1>2, <1>4, <2>1
<1> QED
  BY <1>1, <1>3, <1>4

(* A packet thrown away by dropPacket(). *)
LEMMA DropPacketStep ==
    ASSUME TypeOK, Agreement, DropPacket
    PROVE  Agreement'
<1>1. /\ Waits' = Waits /\ Read' = Read /\ UNCHANGED <<state, pkt, printed>>
      /\ Readable(Sent) /\ Sent' = Tail(Sent) /\ Acks' = Acks
  BY DropPacketFacts
<1>2. Position' /\ ClientInStep' /\ AcksInOrder'
  BY <1>1 DEF Agreement, Position, ClientInStep, AcksInOrder
<1>3. PacketsInOrder'
  BY <1>1, PacketGone DEF Agreement, PacketsInOrder
<1> QED
  BY <1>2, <1>3 DEF Agreement

(* What printing the first packet does to the agreement about what is      *)
(* printed, the acknowledgements there are being those of before.          *)
LEMMA PrintStep ==
    ASSUME TypeOK, Agreement, Readable(Sent), printed' = Printed(Sent[1]),
           Waits' = Waits, Read' = Read, UNCHANGED <<state, pkt>>
    PROVE  /\ Position' /\ ClientInStep'
           /\ Sent[1].data = Read => Len(printed') = Read
           /\ Sent[1].data # Read => printed' = printed /\ Len(printed) # Read
           /\ Len(printed) = Read => Len(printed') = Read
<1>1. Len(printed) \in Nat /\ Read \in Nat /\ printed \in Seq(Nat)
  BY TheClientType, LenProperties
<1>2. ClientInStep'
  BY DEF Agreement, ClientInStep
<1>3. CASE printed' = printed
  BY <1>1, <1>2, <1>3, PrintedFacts DEF Agreement, Position
<1>4. CASE printed' # printed
  <2>1. /\ Len(printed) + 1 = Read /\ printed' = Append(printed, Read)
        /\ Sent[1].data = Read
    BY <1>4, PrintedFacts
  <2>2. Len(printed') = Read /\ \A i \in 1..Len(printed') : printed'[i] = i
    BY <1>1, <2>1, PrintedInOrder DEF Agreement, Position
  <2>3. Position'
    BY <1>1, <2>2 DEF Position
  <2> QED
    BY <1>1, <1>2, <2>1, <2>2, <2>3
<1> QED
  BY <1>3, <1>4

(* The server prints a packet, if it is a new one, and acknowledges it     *)
(* with its own number, behind all earlier acknowledgements.               *)
LEMMA ReceivePacketStep ==
    ASSUME TypeOK, Agreement, ReceivePacket
    PROVE  Agreement'
<1>1. /\ Waits' = Waits /\ Read' = Read /\ UNCHANGED <<state, pkt>>
      /\ Readable(Sent) /\ Sent' = Tail(Sent) /\ Sent[1] \in Packet
      /\ printed' = Printed(Sent[1]) /\ Acks' = SendTo(Acks, Sent[1].seq_no)
  BY ReceivePacketFacts
<1>2. /\ Position' /\ ClientInStep'
      /\ Sent[1].data = Read => Len(printed') = Read
      /\ Sent[1].data # Read => printed' = printed /\ Len(printed) # Read
      /\ Len(printed) = Read => Len(printed') = Read
  BY <1>1, PrintStep
<1>3. /\ Sent[1].seq_no = Number(Sent[1].data)
      /\ Sent[1].data = Read \/ Sent[1].data + 1 = Read
      /\ Sent[1].data \in Nat /\ Sent[1].seq_no \in Bit
  BY <1>1, PacketGone DEF Agreement, PacketsInOrder, Packet
<1>4. Sent[1].data # Read => Sent[1].seq_no # Number(Read)
  BY <1>3, NumberFacts DEF Bit
<1>5. PacketsInOrder'
  BY <1>1, <1>2, PacketGone DEF Agreement, PacketsInOrder
<1>6. /\ \A i \in 1..Len(Acks') :
            \/ i \in 1..Len(Acks) /\ Acks'[i] = Acks[i]
            \/ i = Len(Acks) + 1 /\ Acks'[i] = Sent[1].seq_no
      /\ Len(Acks') \in {Len(Acks), Len(Acks) + 1} /\ Len(Acks) \in Nat
  <2>1. Acks \in Seq(Bit) /\ Len(Acks) <= Cap /\ Len(Acks) \in Nat
    BY TheClientType, LenProperties
  <2> QED
    BY <1>1, <1>3, <2>1, SendToFacts
<1>7. ~Waits => Len(printed) = Read
  BY DEF Agreement, Position
<1>8. AcksInOrder'
  <2>1. ASSUME NEW i \in 1..Len(Acks')
        PROVE  /\ Acks'[i] = Number(Read) => Len(printed') = Read
               /\ ~Waits => Acks'[i] = Number(Read)
    <3>1. CASE i \in 1..Len(Acks) /\ Acks'[i] = Acks[i]
      BY <1>2, <3>1 DEF Agreement, AcksInOrder
    <3>2. CASE Acks'[i] = Sent[1].seq_no
      BY <1>2, <1>3, <1>4, <1>7, <3>2
    <3> QED
      BY <1>6, <3>1, <3>2
  <2>2. ASSUME NEW i \in 1..Len(Acks'), NEW j \in 1..Len(Acks'),
               i < j, Acks'[i] = Number(Read)
        PROVE  Acks'[j] = Number(Read)
    <3>1. i \in 1..Len(Acks) /\ Acks'[i] = Acks[i]
      BY <1>6, <2>2
    <3>2. CASE j \in 1..Len(Acks) /\ Acks'[j] = Acks[j]
      BY <2>2, <3>1, <3>2 DEF Agreement, AcksInOrder
    <3>3. CASE Acks'[j] = Sent[1].seq_no
      <4>1. Len(printed) = Read
        BY <2>2, <3>1 DEF Agreement, AcksInOrder
      <4> QED
        BY <1>2, <1>3, <3>3, <4>1
    <3> QED
      BY <1>6, <3>2, <3>3
  <2> QED
    BY <1>1, <2>1, <2>2 DEF AcksInOrder
<1> QED
  BY <1>2, <1>5, <1>8 DEF Agreement

(* A new server knows nothing of the fields, and nothing depends on that:  *)
(* what the killed one was sent comes again.                               *)
LEMMA RestartStep ==
    ASSUME TypeOK, Agreement, Restart
    PROVE  Agreement'
<1>1. /\ Waits' = Waits /\ Read' = Read /\ UNCHANGED <<state, pkt>>
      /\ Sent' = <<>> /\ Acks' = Acks
      /\ \/ printed' = printed
         \/ Readable(Sent) /\ printed' = Printed(Sent[1])
  BY RestartFacts
<1>2. PacketsInOrder'
  BY <1>1 DEF PacketsInOrder
<1>3. CASE printed' = printed
  BY <1>1, <1>2, <1>3 DEF Agreement, Position, ClientInStep, AcksInOrder
<1>4. CASE Readable(Sent) /\ printed' = Printed(Sent[1])
  <2>1. Position' /\ ClientInStep' /\ (Len(printed) = Read => Len(printed') = Read)
    BY <1>1, <1>4, PrintStep
  <2>2. AcksInOrder'
    BY <1>1, <2>1 DEF Agreement, AcksInOrder
  <2> QED
    BY <1>2, <2>1, <2>2 DEF Agreement
<1> QED
  BY <1>1, <1>3, <1>4

-----------------------------------------------------------------------------
(* The two programs stay in agreement, whoever is killed in between. *)
LEMMA AgreementStep == TypeOK /\ Agreement /\ [Next]_vars => Agreement'
<1> SUFFICES ASSUME TypeOK, Agreement, [Next]_vars
             PROVE  Agreement'
  OBVIOUS
<1>1. CASE EndOfFile(TheClient) /\ UNCHANGED <<sstate, printed>>
  BY <1>1, EndOfFileFacts
  DEF Agreement, Position, ClientInStep, PacketsInOrder, AcksInOrder,
      Read, Sent, Acks, Waits, Outstanding
<1>2. CASE UNCHANGED vars
  BY <1>2
  DEF vars, senderVars, clientVars, Agreement, Position, ClientInStep,
      PacketsInOrder, AcksInOrder, Read, Sent, Acks, Waits, Outstanding
<1> QED
  BY <1>1, <1>2, ReadPacketStep, HandleAckStep, HandleTimeoutStep,
     DropPacketStep, ReceivePacketStep, RestartStep DEF Next, Sender

(* In every reachable state the fields printed are the file from its       *)
(* start, none left out and none twice, and the client is at most one      *)
(* field ahead, although server.sh may kill server.c anywhere and a new    *)
(* one knows nothing of what was printed.                                  *)
THEOREM AlwaysAgreement == Spec => []Agreement
<1>1. Init => Agreement
  <2> SUFFICES ASSUME Init
               PROVE  Agreement
    OBVIOUS
  <2>1. /\ Read = 0 /\ Sent = <<>> /\ Acks = <<>> /\ printed = <<>>
        /\ state[TheClient] = 0
    BY OneClientAssumption DEF Init, SenderInit, Read, Sent, Acks
  <2>2. ~Waits /\ Number(0) = 1 /\ Len(printed) = 0
    BY <2>1 DEF Waits, Outstanding, Number
  <2> QED
    BY <2>1, <2>2
    DEF Agreement, Position, ClientInStep, PacketsInOrder, AcksInOrder
<1> QED
  BY <1>1, AgreementStep, TypeCorrect, PTL DEF Spec

(* client.c calls exit() only when server.c has printed the whole file.    *)
ExitsWhenPrinted ==
    ~running[TheClient] => /\ Read = NumItems[TheClient] /\ ~Waits
                           /\ Len(printed) = NumItems[TheClient]

(* The client's exit is not too early, and it does nothing afterwards.     *)
THEOREM ExitAfterLastField == Spec => []ExitsWhenPrinted
<1> DEFINE Ended == ~running[TheClient] => Read = NumItems[TheClient] /\ ~Waits
<1>1. Init => Ended
  BY OneClientAssumption DEF Init, SenderInit
<1>2. TypeOK /\ Ended /\ [Next]_vars => Ended'
  <2> SUFFICES ASSUME TypeOK, Ended, [Next]_vars
               PROVE  Ended'
    OBVIOUS
  <2>1. CASE ReadPacket(TheClient) \/ HandleAck(TheClient) \/ HandleTimeout(TheClient)
    BY <2>1 DEF ReadPacket, HandleAck, HandleTimeout, Waiting, clientVars
  <2>2. CASE EndOfFile(TheClient)
    BY <2>2 DEF EndOfFile, Read, Waits, Outstanding
  <2>3. CASE DropPacket \/ ReceivePacket \/ Restart \/ UNCHANGED vars
    BY <2>3
    DEF DropPacket, ReceivePacket, Receiving, Restart, vars, senderVars,
        clientVars, Read, Waits, Outstanding
  <2> QED
    BY <2>1, <2>2, <2>3 DEF Next, Sender
<1>3. Agreement /\ Ended => ExitsWhenPrinted
  BY DEF Agreement, Position, ExitsWhenPrinted
<1> QED
  BY <1>1, <1>2, <1>3, TypeCorrect, AlwaysAgreement, PTL DEF Spec

-----------------------------------------------------------------------------
(* The fields read so far, as a sequence. *)
LEMMA FieldsRead ==
    \A n \in Nat : /\ Len([i \in 1..n |-> i]) = n
                   /\ [i \in 1..n + 1 |-> i] = Append([i \in 1..n |-> i], n + 1)
<1> SUFFICES ASSUME NEW n \in Nat
             PROVE  /\ Len([i \in 1..n |-> i]) = n
                    /\ [i \in 1..n + 1 |-> i] = Append([i \in 1..n |-> i], n + 1)
  OBVIOUS
<1>1. [i \in 1..n |-> i] \in Seq(Nat) /\ Len([i \in 1..n |-> i]) = n
  OBVIOUS
<1>2. [i \in 1..n + 1 |-> i] \in Seq(Nat) /\ Len([i \in 1..n + 1 |-> i]) = n + 1
  OBVIOUS
<1>3. Append([i \in 1..n |-> i], n + 1) \in Seq(Nat)
      /\ Len(Append([i \in 1..n |-> i], n + 1)) = n + 1
      /\ \A k \in 1..n + 1 : Append([i \in 1..n |-> i], n + 1)[k] = k
  BY <1>1, AppendProperties
<1> QED
  BY <1>1, <1>2, <1>3, SeqEqual

(* A server that prints a field for the first time delivers it. *)
LEMMA PrintImplementsTransfer ==
    ASSUME TypeOK, Agreement, Readable(Sent), printed' = Printed(Sent[1]),
           UNCHANGED <<itemsRead, state>>
    PROVE  [Transfer!Next]_(Transfer!absVars)
<1> DEFINE submitted == [i \in 1..itemsRead[TheClient] |-> i]
           confirmed == IF Outstanding(TheClient)
                        THEN itemsRead[TheClient] - 1 ELSE itemsRead[TheClient]
<1>1. submitted' = submitted /\ confirmed' = confirmed
  BY DEF Outstanding
<1>2. CASE printed' = printed
  BY <1>1, <1>2 DEF Transfer!absVars
<1>3. CASE printed' # printed
  <2>1. Len(printed) + 1 = Read /\ printed' = Append(printed, Read)
    BY <1>3, PrintedFacts
  <2>2. Len(submitted) = Read /\ submitted[Len(printed) + 1] = Read
    BY <2>1, FieldsRead, TheClientType, LenProperties DEF Read
  <2>3. Len(printed) < Len(submitted)
    <3>1. Len(printed) \in Nat
      BY TheClientType, LenProperties
    <3> HIDE DEF submitted
    <3> QED
      BY <2>1, <2>2, <3>1
  <2>4. Transfer!Deliver
    BY <1>1, <2>1, <2>2, <2>3 DEF Transfer!Deliver
  <2> QED
    BY <2>4 DEF Transfer!Next
<1> QED
  BY <1>2, <1>3

(* Reading a field is a Submit, printing one for the first time a Deliver, *)
(* the end of a wait a Confirm; everything else is a stutter.              *)
LEMMA StepImplementsTransfer ==
    TypeOK /\ Agreement /\ [Next]_vars =>
        [Transfer!Next]_(Transfer!absVars)
<1> DEFINE submitted == [i \in 1..itemsRead[TheClient] |-> i]
           confirmed == IF Outstanding(TheClient)
                        THEN itemsRead[TheClient] - 1 ELSE itemsRead[TheClient]
<1> SUFFICES ASSUME TypeOK, Agreement, [Next]_vars
             PROVE  [Transfer!Next]_(Transfer!absVars)
  OBVIOUS
<1>1. CASE ReadPacket(TheClient) /\ UNCHANGED <<sstate, printed>>
  <2>1. ~Waits /\ Waits' /\ Read' = Read + 1 /\ Read \in Nat
        /\ Read + 1 \in 1..NumItems[TheClient]
    BY <1>1, ReadPacketFacts, TheClientType DEF ReadPacket, Read
  <2>2. submitted' = Append(submitted, Read + 1) /\ Len(submitted) = Read
    BY <2>1, FieldsRead DEF Read
  <2>3. confirmed' = confirmed /\ confirmed = Read
    BY <2>1 DEF Waits, Read
  <2>4. Len(submitted) < confirmed + 1
    <3> HIDE DEF submitted, confirmed
    <3> QED
      BY <2>1, <2>2, <2>3
  <2>5. \E d \in 1..NumItems[TheClient] : submitted' = Append(submitted, d)
    BY <2>1, <2>2
  <2>6. UNCHANGED <<printed, confirmed>>
    BY <1>1, <2>3
  <2>7. Transfer!Submit
    BY <2>4, <2>5, <2>6 DEF Transfer!Submit
  <2> QED
    BY <2>7 DEF Transfer!Next
<1>2. CASE HandleAck(TheClient) /\ UNCHANGED <<sstate, printed>>
  <2>1. Read' = Read /\ Waits /\ Read \in Nat
    BY <1>2, HandleAckFacts, TheClientType
  <2>2. submitted' = submitted
    BY <2>1 DEF Read
  <2>3. CASE Waits'
    BY <1>2, <2>1, <2>2, <2>3 DEF Transfer!absVars, Waits, Read
  <2>4. CASE ~Waits'
    <3>1. Agreement'
      BY AgreementStep
    <3>2. Len(printed) = Read
      BY <1>2, <2>1, <2>4, <3>1 DEF Agreement, Position
    <3>3. confirmed' = Read /\ confirmed = Read - 1
      BY <2>1, <2>4 DEF Waits, Read
    <3>4. confirmed' \in confirmed + 1 .. Len(printed)
      BY <2>1, <3>2, <3>3
    <3> QED
      BY <1>2, <2>2, <3>4 DEF Transfer!Confirm, Transfer!Next
  <2> QED
    BY <2>3, <2>4
<1>3. CASE \/ (EndOfFile(TheClient) \/ HandleTimeout(TheClient))
              /\ UNCHANGED <<sstate, printed>>
           \/ DropPacket
           \/ UNCHANGED vars
  BY <1>3
  DEF EndOfFile, HandleTimeout, DropPacket, Receiving, vars, senderVars,
      clientVars, Transfer!absVars, Outstanding
<1>4. CASE ReceivePacket
  BY <1>4, ReceivePacketFacts, PrintImplementsTransfer
  DEF ReceivePacket, Receiving, clientVars
<1>5. CASE Restart
  <2>1. UNCHANGED <<itemsRead, state>>
    BY <1>5 DEF Restart, clientVars
  <2>2. CASE printed' = printed
    BY <2>1, <2>2 DEF Transfer!absVars, Outstanding
  <2> QED
    BY <1>5, <2>1, <2>2, RestartFacts, PrintImplementsTransfer
<1> QED
  BY <1>1, <1>2, <1>3, <1>4, <1>5 DEF Next, Sender

(* Lab10 with its restarts implements the windowed transfer with window 1: *)
(* every field is printed once and in order, and client.c goes on to the   *)
(* next, or exits, only when the last one has been printed.                *)
THEOREM FileTransferImplementsTransfer == Spec => ImplementsTransfer
<1>1. Init => Transfer!Init
  <2> SUFFICES ASSUME Init
               PROVE  Transfer!Init
    OBVIOUS
  <2>1. itemsRead[TheClient] = 0 /\ state[TheClient] = 0 /\ printed = <<>>
    BY OneClientAssumption DEF Init, SenderInit
  <2> QED
    BY <2>1 DEF Transfer!Init, Outstanding
<1> QED
  BY <1>1, StepImplementsTransfer, AlwaysAgreement, TypeCorrect, PTL
  DEF Spec, ImplementsTransfer, Transfer!Spec
=============================================================================
