--------------------------- MODULE ListMergerProofs ---------------------------
(***************************************************************************)
(* Proofs about ListMerger, for files of every length and every capacity   *)
(* of the socket buffers: its types, that each client and the server are a *)
(* stop-and-wait pair of lab6 whatever the other client does, and, from    *)
(* the theorem about that pair, that list.txt takes the two files in turn. *)
(***************************************************************************)
EXTENDS ListMerger, UdpSocketProofs

Entry == [from : Clients, item : Nat]

(* The pair of the client c, as FirstPair and SecondPair are of the two.   *)
Pair(c) == INSTANCE StopAndWait
    WITH Message <- 0..NumItems[c], MaxMessages <- NumItems[c],
         cstate <- state[c], sendPkt <- PairPacket(pkt[c]),
         sstate <- PairBit(c), dataQ <- PairPackets(c),
         ackQ <- ackQ[c], sent <- PairSent(c), delivered <- PairDelivered(c)

(* The server's state counts the fields written, and each was written in   *)
(* the turn of its client.                                                 *)
InTurn ==
    /\ sstate = Len(written) % 4
    /\ \A i \in 1..Len(written) :
          written[i].from = IF i % 2 = 1 THEN First ELSE Second

-----------------------------------------------------------------------------
(* What the types say about one client. *)
LEMMA ClientType ==
    ASSUME SenderTypeOK, NEW c \in Clients
    PROVE  /\ running[c] \in BOOLEAN
           /\ itemsRead[c] \in Nat /\ itemsRead[c] <= NumItems[c]
           /\ NumItems[c] \in Nat
           /\ state[c] \in 0..3
           /\ pkt[c] \in Packet
           /\ dataQ[c] \in Seq(Packet) /\ Len(dataQ[c]) <= Cap
           /\ ackQ[c] \in Seq(Bit) /\ Len(ackQ[c]) <= Cap
  BY NumItemsAssumption DEF SenderTypeOK

(* What a step of one client does to its own variables. *)
LEMMA ReadPacketFacts ==
    ASSUME SenderTypeOK, NEW c \in Clients, ReadPacket(c)
    PROVE  /\ SenderTypeOK'
           /\ state[c] \in {0, 2} /\ state'[c] = state[c] + 1
           /\ itemsRead[c] < NumItems[c] /\ itemsRead'[c] = itemsRead[c] + 1
           /\ pkt'[c] = [seq_no |-> state[c] \div 2, data |-> itemsRead[c] + 1]
           /\ pkt'[c] \in Packet
           /\ dataQ'[c] = SendTo(dataQ[c], pkt'[c]) /\ ackQ' = ackQ
<1> DEFINE p == [seq_no |-> state[c] \div 2, data |-> itemsRead[c] + 1]
<1>1. /\ state[c] \in {0, 2} /\ itemsRead[c] \in Nat /\ itemsRead[c] < NumItems[c]
      /\ itemsRead[c] + 1 <= NumItems[c]
      /\ itemsRead' = [itemsRead EXCEPT ![c] = itemsRead[c] + 1]
      /\ pkt' = [pkt EXCEPT ![c] = p]
      /\ dataQ' = [dataQ EXCEPT ![c] = SendTo(dataQ[c], pkt'[c])]
      /\ state' = [state EXCEPT ![c] = state[c] + 1]
      /\ UNCHANGED <<running, ackQ>>
  BY ClientType DEF ReadPacket
<1>2. p \in Packet
  BY <1>1 DEF Packet, Bit
<1>3. pkt'[c] = p
  BY <1>1 DEF SenderTypeOK
<1>4. SendTo(dataQ[c], p) \in Seq(Packet) /\ Len(SendTo(dataQ[c], p)) <= Cap
  BY <1>2, ClientType, SendToFacts
<1> HIDE DEF p
<1>5. /\ SenderTypeOK' /\ state'[c] = state[c] + 1
      /\ itemsRead'[c] = itemsRead[c] + 1 /\ dataQ'[c] = SendTo(dataQ[c], p)
  BY <1>1, <1>2, <1>3, <1>4 DEF SenderTypeOK
<1> QED
  BY <1>1, <1>2, <1>3, <1>5 DEF p

LEMMA HandleAckFacts ==
    ASSUME SenderTypeOK, NEW c \in Clients, HandleAck(c)
    PROVE  /\ SenderTypeOK'
           /\ state[c] \in {1, 3} /\ Readable(ackQ[c])
           /\ state'[c] = IF Head(ackQ[c]) = (state[c] - 1) \div 2
                          THEN (state[c] + 1) % 4 ELSE state[c]
           /\ ackQ'[c] = Tail(ackQ[c])
           /\ UNCHANGED <<itemsRead, pkt, dataQ>>
<1> DEFINE s == IF Head(ackQ[c]) = (state[c] - 1) \div 2
                THEN (state[c] + 1) % 4 ELSE state[c]
<1>1. /\ state[c] \in {1, 3} /\ Readable(ackQ[c])
      /\ state' = [state EXCEPT ![c] = s]
      /\ ackQ' = [ackQ EXCEPT ![c] = Tail(ackQ[c])]
      /\ UNCHANGED <<running, itemsRead, pkt, dataQ>>
  BY DEF HandleAck, Waiting, ack_no, next_state
<1>2. Tail(ackQ[c]) \in Seq(Bit) /\ Len(Tail(ackQ[c])) <= Cap
  BY <1>1, ClientType, RecvFromFacts, CapAssumption
<1>3. s \in 0..3
  BY <1>1
<1> HIDE DEF s
<1>4. SenderTypeOK' /\ state'[c] = s /\ ackQ'[c] = Tail(ackQ[c])
  BY <1>1, <1>2, <1>3 DEF SenderTypeOK
<1> QED
  BY <1>1, <1>4 DEF s

LEMMA HandleTimeoutFacts ==
    ASSUME SenderTypeOK, NEW c \in Clients, HandleTimeout(c)
    PROVE  /\ SenderTypeOK'
           /\ state[c] \in {1, 3} /\ ~Readable(ackQ[c])
           /\ dataQ'[c] = SendTo(dataQ[c], pkt[c])
           /\ UNCHANGED <<state, itemsRead, pkt, ackQ>>
<1>1. /\ state[c] \in {1, 3} /\ ~Readable(ackQ[c])
      /\ dataQ' = [dataQ EXCEPT ![c] = SendTo(dataQ[c], pkt[c])]
      /\ UNCHANGED <<running, state, itemsRead, pkt, ackQ>>
  BY DEF HandleTimeout, Waiting, clientVars
<1>2. SendTo(dataQ[c], pkt[c]) \in Seq(Packet) /\ Len(SendTo(dataQ[c], pkt[c])) <= Cap
  BY ClientType, SendToFacts
<1>3. SenderTypeOK' /\ dataQ'[c] = SendTo(dataQ[c], pkt[c])
  BY <1>1, <1>2 DEF SenderTypeOK
<1> QED
  BY <1>1, <1>3

LEMMA EndOfFileFacts ==
    ASSUME SenderTypeOK, NEW c \in Clients, EndOfFile(c)
    PROVE  SenderTypeOK' /\ UNCHANGED <<state, itemsRead, pkt, dataQ, ackQ>>
  BY DEF EndOfFile, SenderTypeOK

(* A client changes nothing of the other one. *)
LEMMA OtherClientFacts ==
    ASSUME SenderTypeOK, NEW c \in Clients, NEW d \in Clients, d # c, Sender(d)
    PROVE  /\ state'[c] = state[c] /\ itemsRead'[c] = itemsRead[c]
           /\ pkt'[c] = pkt[c] /\ dataQ'[c] = dataQ[c] /\ ackQ'[c] = ackQ[c]
  BY DEF SenderTypeOK, Sender, ReadPacket, EndOfFile, HandleAck, HandleTimeout,
         Waiting, clientVars

-----------------------------------------------------------------------------
(* The client whose turn it is, and the number expected from it. *)
LEMMA ServedType ==
    TypeOK => Served \in Clients /\ expected_seq \in Bit /\ server_next_state \in 0..3
  BY ClientsAssumption DEF TypeOK, Served, expected_seq, server_next_state, Bit

(* recvfrom() takes the first packet of the client served. *)
LEMMA ReceivingFacts ==
    ASSUME TypeOK, Receiving
    PROVE  /\ Readable(dataQ[Served]) /\ Head(dataQ[Served]) \in Packet
           /\ dataQ' = [dataQ EXCEPT ![Served] = Tail(dataQ[Served])]
           /\ dataQ'[Served] = Tail(dataQ[Served])
           /\ dataQ' \in [Clients -> Seq(Packet)]
           /\ \A c \in Clients : Len(dataQ'[c]) <= Cap
           /\ \A c \in Clients \ {Served} : dataQ'[c] = dataQ[c]
           /\ UNCHANGED <<running, state, itemsRead, pkt>>
<1>1. /\ Readable(dataQ[Served]) /\ UNCHANGED <<running, state, itemsRead, pkt>>
      /\ dataQ' = [dataQ EXCEPT ![Served] = Tail(dataQ[Served])]
      /\ Served \in Clients
  BY ServedType DEF Receiving, clientVars
<1>2. /\ Head(dataQ[Served]) \in Packet /\ Tail(dataQ[Served]) \in Seq(Packet)
      /\ Len(Tail(dataQ[Served])) <= Cap
  BY <1>1, ClientType, RecvFromFacts, CapAssumption DEF TypeOK
<1> QED
  BY <1>1, <1>2 DEF TypeOK, SenderTypeOK

(* The acknowledgement goes to the client served and to no other. *)
LEMMA AcknowledgeFacts ==
    ASSUME TypeOK, NEW b \in Bit, Acknowledge(b)
    PROVE  /\ ackQ'[Served] = SendTo(ackQ[Served], b)
           /\ ackQ' \in [Clients -> Seq(Bit)]
           /\ \A c \in Clients : Len(ackQ'[c]) <= Cap
           /\ \A c \in Clients \ {Served} : ackQ'[c] = ackQ[c]
<1>1. Served \in Clients /\ ackQ' = [ackQ EXCEPT ![Served] = SendTo(ackQ[Served], b)]
  BY ServedType DEF Acknowledge
<1>2. SendTo(ackQ[Served], b) \in Seq(Bit) /\ Len(SendTo(ackQ[Served], b)) <= Cap
  BY <1>1, ClientType, SendToFacts DEF TypeOK
<1> QED
  BY <1>1, <1>2 DEF TypeOK, SenderTypeOK

LEMMA DropPacketFacts ==
    ASSUME TypeOK, DropPacket
    PROVE  TypeOK'
<1>1. UNCHANGED <<ackQ, sstate, written>>
  BY DEF DropPacket
<1> QED
  BY <1>1, ReceivingFacts DEF DropPacket, TypeOK, SenderTypeOK

LEMMA AcceptPacketFacts ==
    ASSUME TypeOK, AcceptPacket
    PROVE  /\ TypeOK'
           /\ Head(dataQ[Served]) \in Packet
           /\ Head(dataQ[Served]).seq_no = expected_seq
           /\ ackQ'[Served] = SendTo(ackQ[Served], expected_seq)
           /\ \A c \in Clients \ {Served} : ackQ'[c] = ackQ[c]
           /\ [from |-> Served, item |-> Head(dataQ[Served]).data] \in Entry
           /\ written' = Append(written,
                                [from |-> Served, item |-> Head(dataQ[Served]).data])
           /\ sstate' = server_next_state
<1> DEFINE p == Head(dataQ[Served])
           e == [from |-> Served, item |-> p.data]
<1>1. /\ Receiving /\ p.seq_no = expected_seq /\ Acknowledge(p.seq_no)
      /\ written' = Append(written, e) /\ sstate' = server_next_state
  BY DEF AcceptPacket, IsExpected
<1>2. p \in Packet
  BY <1>1, ReceivingFacts
<1>3. p.seq_no \in Bit /\ p.data \in Nat /\ e \in Entry
  BY <1>2, ServedType DEF Packet, Entry
<1> HIDE DEF p, e
<1>4. SenderTypeOK'
  BY <1>1, <1>3, ReceivingFacts, AcknowledgeFacts DEF TypeOK, SenderTypeOK
<1>5. written \in Seq(Entry)
  BY DEF TypeOK, Entry
<1>6. written' \in Seq(Entry)
  BY <1>1, <1>3, <1>5, AppendProperties
<1>7. TypeOK'
  BY <1>1, <1>4, <1>6, ServedType DEF TypeOK, Entry
<1>8. /\ ackQ'[Served] = SendTo(ackQ[Served], expected_seq)
      /\ \A c \in Clients \ {Served} : ackQ'[c] = ackQ[c]
  BY <1>1, <1>3, AcknowledgeFacts
<1> QED
  BY <1>1, <1>2, <1>3, <1>7, <1>8 DEF p, e

LEMMA ReacknowledgeOldFacts ==
    ASSUME TypeOK, ReacknowledgeOld
    PROVE  /\ TypeOK'
           /\ Head(dataQ[Served]).seq_no = 1 - expected_seq
           /\ ackQ'[Served] = SendTo(ackQ[Served], 1 - expected_seq)
           /\ \A c \in Clients \ {Served} : ackQ'[c] = ackQ[c]
           /\ UNCHANGED <<sstate, written>>
<1> DEFINE p == Head(dataQ[Served])
<1>1. /\ Receiving /\ p.seq_no # expected_seq /\ Acknowledge(p.seq_no)
      /\ UNCHANGED <<sstate, written>>
  BY DEF ReacknowledgeOld, IsExpected
<1>2. p \in Packet
  BY <1>1, ReceivingFacts
<1>3. p.seq_no \in Bit /\ p.seq_no = 1 - expected_seq
  BY <1>1, <1>2, ServedType DEF Packet, Bit
<1> HIDE DEF p
<1>4. SenderTypeOK'
  BY <1>1, <1>3, ReceivingFacts, AcknowledgeFacts DEF TypeOK, SenderTypeOK
<1>5. /\ ackQ'[Served] = SendTo(ackQ[Served], 1 - expected_seq)
      /\ \A c \in Clients \ {Served} : ackQ'[c] = ackQ[c]
  BY <1>1, <1>3, AcknowledgeFacts
<1> QED
  BY <1>1, <1>3, <1>4, <1>5 DEF TypeOK, p

(* No step of the three programs takes a value out of its type. *)
LEMMA TypeStep == TypeOK /\ [Next]_vars => TypeOK'
<1> SUFFICES ASSUME TypeOK, [Next]_vars
             PROVE  TypeOK'
  OBVIOUS
<1>1. ASSUME NEW c \in Clients, Sender(c), UNCHANGED <<sstate, written>>
      PROVE  TypeOK'
  <2>1. SenderTypeOK'
    BY <1>1, ReadPacketFacts, EndOfFileFacts, HandleAckFacts, HandleTimeoutFacts
    DEF Sender, TypeOK
  <2> QED
    BY <1>1, <2>1 DEF TypeOK
<1>2. CASE UNCHANGED vars
  BY <1>2 DEF vars, senderVars, clientVars, TypeOK, SenderTypeOK
<1> QED
  BY <1>1, <1>2, DropPacketFacts, AcceptPacketFacts, ReacknowledgeOldFacts
  DEF Next, Server

(* The variables of the clients and of server.c keep their types, and no   *)
(* buffer overflows, also not that of the client that has to wait its turn *)
(* and is not read meanwhile.                                              *)
THEOREM TypeCorrect == Spec => []TypeOK
<1>1. Init => TypeOK
  <2> SUFFICES ASSUME Init
               PROVE  TypeOK
    OBVIOUS
  <2>1. /\ <<>> \in Seq(Packet) /\ <<>> \in Seq(Bit)
        /\ <<>> \in Seq([from : Clients, item : Nat])
        /\ Len(<<>>) <= Cap /\ [seq_no |-> 0, data |-> 0] \in Packet
    BY CapAssumption DEF Bit, Packet
  <2>2. \A c \in Clients : 0 <= NumItems[c]
    BY NumItemsAssumption
  <2> QED
    BY <2>1, <2>2 DEF Init, SenderInit, TypeOK, SenderTypeOK
<1> QED
  BY <1>1, TypeStep, PTL DEF Spec

-----------------------------------------------------------------------------
(* The fields written, counted in turns: with an even number of them it is *)
(* the first client's turn, and the numbers expected go 0, 0, 1, 1.        *)
Turn(n) ==
    /\ ((n % 4) + 1) % 4 = (n + 1) % 4
    /\ n % 4 \in {0, 2} => /\ (n + 1) % 2 = 1
                           /\ ((n + 1) \div 2) % 2 = (n % 4) \div 2
                           /\ (n + 2) \div 2 = (n + 1) \div 2 + 1
                           /\ n + 1 = 2 * ((n + 1) \div 2 + 1) - 1
                           /\ (n + 1) \div 2 = n \div 2
    /\ n % 4 \notin {0, 2} => /\ (n + 1) % 2 # 1
                              /\ (n \div 2) % 2 = (n % 4) \div 2
                              /\ (n + 1) \div 2 = n \div 2 + 1
                              /\ n + 1 = 2 * (n \div 2 + 1)
                              /\ (n + 2) \div 2 = (n + 1) \div 2

LEMMA TurnArithmetic == \A n \in Nat : Turn(n)
  BY DEF Turn

(* A function on 1..k is a sequence. *)
LEMMA FunctionIsSeq ==
    ASSUME NEW S, NEW k \in Nat, NEW f \in [1..k -> S]
    PROVE  f \in Seq(S) /\ Len(f) = k
  OBVIOUS

(* The next number is the other one. *)
LEMMA NextBit ==
    ASSUME NEW k \in Nat
    PROVE  k % 2 \in Bit /\ (k + 1) % 2 = 1 - (k % 2)
  BY DEF Bit

(* The fields of each client that are written have their places in the     *)
(* list.                                                                   *)
LEMMA WrittenFromType ==
    ASSUME TypeOK, NEW c \in Clients
    PROVE  /\ Len(written) \in Nat /\ WrittenFrom(c) \in Nat
           /\ \A i \in 1..WrittenFrom(c) :
                 /\ (IF c = First THEN 2 * i - 1 ELSE 2 * i) \in 1..Len(written)
                 /\ PairDelivered(c)[i] \in Nat
           /\ PairDelivered(c) \in Seq(Nat)
           /\ Len(PairDelivered(c)) = WrittenFrom(c)
<1>1. Len(written) \in Nat /\ written \in Seq([from : Clients, item : Nat])
  BY LenProperties DEF TypeOK
<1>2. WrittenFrom(c) \in Nat
  BY <1>1 DEF WrittenFrom
<1>3. ASSUME NEW i \in 1..WrittenFrom(c)
      PROVE  (IF c = First THEN 2 * i - 1 ELSE 2 * i) \in 1..Len(written)
  BY <1>1 DEF WrittenFrom
<1>4. ASSUME NEW i \in 1..WrittenFrom(c)
      PROVE  written[IF c = First THEN 2 * i - 1 ELSE 2 * i].item \in Nat
  <2>1. written[IF c = First THEN 2 * i - 1 ELSE 2 * i] \in [from : Clients, item : Nat]
    BY <1>1, <1>3, ElementOfSeq
  <2> QED
    BY <2>1
<1>5. PairDelivered(c) \in [1..WrittenFrom(c) -> Nat]
      /\ \A i \in 1..WrittenFrom(c) : PairDelivered(c)[i] \in Nat
  BY <1>4 DEF PairDelivered
<1>6. PairDelivered(c) \in Seq(Nat) /\ Len(PairDelivered(c)) = WrittenFrom(c)
  BY <1>2, <1>5, FunctionIsSeq
<1> QED
  BY <1>1, <1>2, <1>3, <1>5, <1>6

(* A field accepted is the next one of the client served, and nothing      *)
(* changes for the other one.                                              *)
LEMMA AcceptedField ==
    ASSUME TypeOK, InTurn, NEW e \in Entry, NEW c \in Clients,
           written' = Append(written, e)
    PROVE  /\ c = Served => /\ PairBit(c) = expected_seq
                            /\ PairBit(c)' = 1 - expected_seq
                            /\ PairDelivered(c)' = Append(PairDelivered(c), e.item)
           /\ c # Served => /\ PairBit(c)' = PairBit(c)
                            /\ PairDelivered(c)' = PairDelivered(c)
<1> DEFINE n == Len(written)
           at(i) == IF c = First THEN 2 * i - 1 ELSE 2 * i
<1>1. /\ n \in Nat /\ Len(written') = n + 1 /\ written'[n + 1] = e
      /\ \A i \in 1..n : written'[i] = written[i]
      /\ sstate = n % 4 /\ e.item \in Nat
      /\ First # Second /\ c \in {First, Second}
  BY LenProperties, AppendProperties, ClientsAssumption DEF TypeOK, InTurn, Entry
<1>2. /\ WrittenFrom(c) \in Nat
      /\ \A i \in 1..WrittenFrom(c) : at(i) \in 1..n /\ PairDelivered(c)[i] \in Nat
      /\ PairDelivered(c) \in Seq(Nat) /\ Len(PairDelivered(c)) = WrittenFrom(c)
  BY WrittenFromType
<1>3. /\ Turn(n) /\ Len(written)' = n + 1
      /\ WrittenFrom(First) = (n + 1) \div 2 /\ WrittenFrom(Second) = n \div 2
      /\ WrittenFrom(First)' = (n + 2) \div 2 /\ WrittenFrom(Second)' = (n + 1) \div 2
  BY <1>1, TurnArithmetic DEF WrittenFrom
<1>4. Served = IF n % 4 \in {0, 2} THEN First ELSE Second
  BY <1>1 DEF Served
<1>5. CASE c = Served
  <2>1. /\ WrittenFrom(c)' = WrittenFrom(c) + 1 /\ at(WrittenFrom(c) + 1) = n + 1
        /\ PairBit(c) = expected_seq
    <3>1. CASE n % 4 \in {0, 2}
      BY <1>1, <1>3, <1>4, <1>5, <3>1 DEF Turn, PairBit, expected_seq
    <3>2. CASE n % 4 \notin {0, 2}
      BY <1>1, <1>3, <1>4, <1>5, <3>2 DEF Turn, PairBit, expected_seq
    <3> QED
      BY <3>1, <3>2
  <2>2. PairBit(c)' = 1 - expected_seq
    <3>1. PairBit(c)' = (WrittenFrom(c) + 1) % 2 /\ PairBit(c) = WrittenFrom(c) % 2
      BY <2>1 DEF PairBit
    <3>2. /\ (WrittenFrom(c) + 1) % 2 = 1 - (WrittenFrom(c) % 2)
          /\ WrittenFrom(c) % 2 \in {0, 1}
      BY <1>2, NextBit DEF Bit
    <3> QED
      BY <1>2, <2>1, <3>1, <3>2
  <2>3. /\ Append(PairDelivered(c), e.item) \in Seq(Nat)
        /\ Len(Append(PairDelivered(c), e.item)) = WrittenFrom(c) + 1
        /\ Append(PairDelivered(c), e.item)[WrittenFrom(c) + 1] = e.item
        /\ \A i \in 1..WrittenFrom(c) :
              Append(PairDelivered(c), e.item)[i] = PairDelivered(c)[i]
    BY <1>1, <1>2, AppendProperties
  <2>4. PairDelivered(c)' = [i \in 1 .. WrittenFrom(c) + 1 |-> written'[at(i)].item]
    BY <2>1 DEF PairDelivered
  <2>5. \A i \in 1..WrittenFrom(c) : written'[at(i)].item = PairDelivered(c)[i]
    BY <1>1, <1>2 DEF PairDelivered
  <2>6. /\ PairDelivered(c)'[WrittenFrom(c) + 1] = e.item
        /\ \A i \in 1..WrittenFrom(c) : PairDelivered(c)'[i] = PairDelivered(c)[i]
    <3> HIDE DEF at
    <3> QED
      BY <1>1, <1>2, <2>1, <2>4, <2>5
  <2>7. PairDelivered(c)' \in Seq(Nat) /\ Len(PairDelivered(c)') = WrittenFrom(c) + 1
    <3>1. \A i \in 1 .. WrittenFrom(c) + 1 : PairDelivered(c)'[i] \in Nat
      BY <1>1, <1>2, <2>6
    <3>2. PairDelivered(c)' \in [1 .. WrittenFrom(c) + 1 -> Nat]
      BY <2>4, <3>1
    <3>3. WrittenFrom(c) + 1 \in Nat
      BY <1>2
    <3> QED
      BY <3>2, <3>3, FunctionIsSeq
  <2>8. PairDelivered(c)' = Append(PairDelivered(c), e.item)
    BY <1>2, <2>3, <2>6, <2>7, SeqEqual
  <2> QED
    BY <1>5, <2>1, <2>2, <2>8
<1>6. CASE c # Served
  <2>1. WrittenFrom(c)' = WrittenFrom(c)
    BY <1>1, <1>3, <1>4, <1>6 DEF Turn
  <2>2. \A i \in 1..WrittenFrom(c) : written'[at(i)] = written[at(i)]
    BY <1>1, <1>2
  <2> QED
    BY <1>6, <2>1, <2>2 DEF PairBit, PairDelivered
<1> QED
  BY <1>5, <1>6

(* The turns are kept by every step. *)
LEMMA InTurnStep == TypeOK /\ InTurn /\ [Next]_vars => InTurn'
<1> SUFFICES ASSUME TypeOK, InTurn, [Next]_vars
             PROVE  InTurn'
  OBVIOUS
<1>1. CASE AcceptPacket
  <2> DEFINE n == Len(written)
             e == [from |-> Served, item |-> Head(dataQ[Served]).data]
  <2>1. /\ e \in Entry /\ written' = Append(written, e) /\ written \in Seq(Entry)
        /\ sstate' = (sstate + 1) % 4
    BY <1>1, AcceptPacketFacts DEF TypeOK, Entry, server_next_state
  <2>2. e.from = Served
    OBVIOUS
  <2> HIDE DEF e
  <2>3. /\ n \in Nat /\ Len(written') = n + 1 /\ written'[n + 1] = e
        /\ \A i \in 1..n : written'[i] = written[i]
    BY <2>1, LenProperties, AppendProperties
  <2>4. e.from = IF (n + 1) % 2 = 1 THEN First ELSE Second
    <3>1. Turn(n) /\ sstate = n % 4
      BY <2>3, TurnArithmetic DEF InTurn
    <3> QED
      BY <2>2, <3>1 DEF Turn, Served
  <2>5. sstate' = (n + 1) % 4
    BY <2>1, <2>3, TurnArithmetic DEF InTurn, Turn
  <2>6. \A i \in 1 .. n + 1 : written'[i].from = IF i % 2 = 1 THEN First ELSE Second
    BY <2>3, <2>4 DEF InTurn
  <2> QED
    BY <2>3, <2>5, <2>6 DEF InTurn
<1>2. CASE UNCHANGED <<sstate, written>>
  BY <1>2 DEF InTurn
<1> QED
  BY <1>1, <1>2 DEF Next, Server, DropPacket, ReacknowledgeOld, vars

(* server.c takes one field of each client in turn. *)
THEOREM AlwaysInTurn == Spec => []InTurn
<1>1. Init => InTurn
  BY DEF Init, InTurn
<1> QED
  BY <1>1, InTurnStep, TypeCorrect, PTL DEF Spec

-----------------------------------------------------------------------------
(* A queue of packets, as the pair's own queue. *)
PairQueue(q) == [i \in 1..Len(q) |-> PairPacket(q[i])]
AnyPairPacket == [sq : Bit, data : Nat]

LEMMA PairQueueType ==
    ASSUME NEW q \in Seq(Packet)
    PROVE  /\ Len(q) \in Nat
           /\ PairQueue(q) \in Seq(AnyPairPacket) /\ Len(PairQueue(q)) = Len(q)
           /\ \A i \in 1..Len(q) : /\ PairQueue(q)[i] = PairPacket(q[i])
                                   /\ PairPacket(q[i]) \in AnyPairPacket
<1>1. Len(q) \in Nat
  BY LenProperties
<1>2. ASSUME NEW i \in 1..Len(q)
      PROVE  PairPacket(q[i]) \in AnyPairPacket
  <2>1. q[i] \in Packet
    BY ElementOfSeq
  <2> QED
    BY <2>1 DEF PairPacket, AnyPairPacket, Packet
<1>3. /\ PairQueue(q) \in [1..Len(q) -> AnyPairPacket]
      /\ \A i \in 1..Len(q) : PairQueue(q)[i] = PairPacket(q[i])
  BY <1>2 DEF PairQueue
<1> QED
  BY <1>1, <1>2, <1>3, FunctionIsSeq

(* sendto() to the queue is sendto() to the pair's. *)
LEMMA PairQueueSend ==
    ASSUME NEW q \in Seq(Packet), NEW p \in Packet
    PROVE  PairQueue(SendTo(q, p)) = SendTo(PairQueue(q), PairPacket(p))
<1>1. /\ Len(q) \in Nat
      /\ PairQueue(q) \in Seq(AnyPairPacket) /\ Len(PairQueue(q)) = Len(q)
      /\ \A i \in 1..Len(q) : PairQueue(q)[i] = PairPacket(q[i])
  BY PairQueueType
<1>2. CASE Len(q) < Cap
  <2>1. PairPacket(p) \in AnyPairPacket
    BY DEF PairPacket, AnyPairPacket, Packet
  <2>2. /\ Append(q, p) \in Seq(Packet) /\ Len(Append(q, p)) = Len(q) + 1
        /\ Append(q, p)[Len(q) + 1] = p
        /\ \A i \in 1..Len(q) : Append(q, p)[i] = q[i]
    BY AppendProperties
  <2>3. LET r == Append(PairQueue(q), PairPacket(p))
        IN  /\ r \in Seq(AnyPairPacket) /\ Len(r) = Len(q) + 1
            /\ r[Len(q) + 1] = PairPacket(p)
            /\ \A i \in 1..Len(q) : r[i] = PairPacket(q[i])
    BY <1>1, <2>1, AppendProperties
  <2>4. /\ PairQueue(Append(q, p)) \in Seq(AnyPairPacket)
        /\ Len(PairQueue(Append(q, p))) = Len(q) + 1
        /\ \A i \in 1 .. Len(q) + 1 :
              PairQueue(Append(q, p))[i] = PairPacket(Append(q, p)[i])
    BY <2>2, PairQueueType
  <2>5. \A i \in 1 .. Len(q) + 1 :
           PairQueue(Append(q, p))[i] = Append(PairQueue(q), PairPacket(p))[i]
    BY <1>1, <2>2, <2>3, <2>4
  <2>6. PairQueue(Append(q, p)) = Append(PairQueue(q), PairPacket(p))
    BY <2>3, <2>4, <2>5, SeqEqual
  <2> QED
    BY <1>1, <1>2, <2>6 DEF SendTo
<1>3. CASE ~(Len(q) < Cap)
  BY <1>1, <1>3 DEF SendTo
<1> QED
  BY <1>2, <1>3

(* recvfrom() of the queue is recvfrom() of the pair's. *)
LEMMA PairQueueTail ==
    ASSUME NEW q \in Seq(Packet)
    PROVE  /\ Readable(PairQueue(q)) <=> Readable(q)
           /\ Readable(q) => /\ Head(PairQueue(q)) = PairPacket(Head(q))
                             /\ PairQueue(Tail(q)) = Tail(PairQueue(q))
<1>1. /\ Len(q) \in Nat
      /\ PairQueue(q) \in Seq(AnyPairPacket) /\ Len(PairQueue(q)) = Len(q)
      /\ \A i \in 1..Len(q) : PairQueue(q)[i] = PairPacket(q[i])
  BY PairQueueType
<1>2. Readable(PairQueue(q)) <=> Readable(q)
  BY <1>1, EmptySeq DEF Readable
<1>3. ASSUME Readable(q)
      PROVE  /\ Head(PairQueue(q)) = PairPacket(Head(q))
             /\ PairQueue(Tail(q)) = Tail(PairQueue(q))
  <2>1. /\ Head(q) = q[1] /\ Tail(q) \in Seq(Packet) /\ Len(Tail(q)) = Len(q) - 1
        /\ \A i \in 1 .. Len(q) - 1 : i + 1 \in 1..Len(q) /\ Tail(q)[i] = q[i + 1]
        /\ 1 \in 1..Len(q) /\ Len(q) - 1 \in Nat
    BY <1>1, <1>3, RecvFromFacts
  <2>2. /\ Head(PairQueue(q)) = PairQueue(q)[1]
        /\ Tail(PairQueue(q)) \in Seq(AnyPairPacket)
        /\ Len(Tail(PairQueue(q))) = Len(q) - 1
        /\ \A i \in 1 .. Len(q) - 1 : Tail(PairQueue(q))[i] = PairQueue(q)[i + 1]
    BY <1>1, <1>2, <1>3, RecvFromFacts
  <2>3. /\ PairQueue(Tail(q)) \in Seq(AnyPairPacket)
        /\ Len(PairQueue(Tail(q))) = Len(q) - 1
        /\ \A i \in 1 .. Len(q) - 1 : PairQueue(Tail(q))[i] = PairPacket(Tail(q)[i])
    BY <2>1, PairQueueType
  <2>4. \A i \in 1 .. Len(q) - 1 : PairQueue(Tail(q))[i] = Tail(PairQueue(q))[i]
    BY <1>1, <2>1, <2>2, <2>3
  <2>5. PairQueue(Tail(q)) = Tail(PairQueue(q))
    BY <2>2, <2>3, <2>4, SeqEqual
  <2> QED
    BY <1>1, <2>1, <2>2, <2>5
<1> QED
  BY <1>2, <1>3

(* The fields a client has read, as a sequence. *)
LEMMA FieldsRead ==
    ASSUME NEW n \in Nat
    PROVE  /\ Len([i \in 1..n |-> i]) = n
           /\ [i \in 1 .. n + 1 |-> i] = Append([i \in 1..n |-> i], n + 1)
<1>1. [i \in 1..n |-> i] \in Seq(Nat) /\ Len([i \in 1..n |-> i]) = n
  OBVIOUS
<1>2. [i \in 1 .. n + 1 |-> i] \in Seq(Nat) /\ Len([i \in 1 .. n + 1 |-> i]) = n + 1
  OBVIOUS
<1>3. /\ Append([i \in 1..n |-> i], n + 1) \in Seq(Nat)
      /\ Len(Append([i \in 1..n |-> i], n + 1)) = n + 1
      /\ \A k \in 1 .. n + 1 : Append([i \in 1..n |-> i], n + 1)[k] = k
  BY <1>1, AppendProperties
<1> QED
  BY <1>1, <1>2, <1>3, SeqEqual

-----------------------------------------------------------------------------
(* The pair's socket operations are those of the merger. *)
LEMMA PairSocket ==
    ASSUME NEW c, NEW q, NEW m
    PROVE  /\ Pair(c)!SendTo(q, m) = SendTo(q, m)
           /\ Pair(c)!Readable(q) <=> Readable(q)
  BY DEF Pair!SendTo, SendTo, Pair!Readable, Readable

(* Any action of the pair is a step of it. *)
LEMMA PairActions ==
    ASSUME NEW c, NEW b \in Bit,
           \/ Pair(c)!EnterMessage(b) \/ Pair(c)!ReceiveAck(b) \/ Pair(c)!Timeout(b)
           \/ Pair(c)!DropPacket(b) \/ Pair(c)!AcceptPacket(b)
           \/ Pair(c)!ReacknowledgeOld(b)
    PROVE  Pair(c)!Next
  BY DEF Bit, Pair!Next, Pair!Client, Pair!Case0, Pair!Case1, Pair!Case2,
         Pair!Case3, Pair!AwaitAck, Pair!Server, Pair!ServerCase0,
         Pair!ServerCase1, Pair!ReceivePacket

(* What a client does leaves the server's part of its pair alone. *)
LEMMA ServerPartUnchanged ==
    ASSUME NEW c, written' = written
    PROVE  PairBit(c)' = PairBit(c) /\ PairDelivered(c)' = PairDelivered(c)
  BY DEF PairBit, PairDelivered, WrittenFrom

(* Reading a field is entering a message. *)
LEMMA ReadPacketSimulates ==
    ASSUME TypeOK, NEW c \in Clients, ReadPacket(c), UNCHANGED <<sstate, written>>
    PROVE  Pair(c)!Next
<1> DEFINE b == state[c] \div 2
           m == itemsRead[c] + 1
<1>1. /\ state[c] \in {0, 2} /\ state'[c] = state[c] + 1
      /\ itemsRead[c] < NumItems[c] /\ itemsRead'[c] = m
      /\ pkt'[c] = [seq_no |-> b, data |-> m] /\ pkt'[c] \in Packet
      /\ dataQ'[c] = SendTo(dataQ[c], pkt'[c]) /\ ackQ' = ackQ
      /\ itemsRead[c] \in Nat /\ NumItems[c] \in Nat /\ dataQ[c] \in Seq(Packet)
  BY ReadPacketFacts, ClientType DEF TypeOK
<1>2. b \in Bit /\ m \in 0..NumItems[c] /\ state[c] = 2 * b /\ state'[c] = 2 * b + 1
  BY <1>1 DEF Bit
<1>3. PairPacket(pkt[c])' = [sq |-> b, data |-> m]
  BY <1>1 DEF PairPacket
<1>4. PairPackets(c)' = SendTo(PairPackets(c), PairPacket(pkt[c])')
  <2>1. PairPackets(c) = PairQueue(dataQ[c]) /\ PairPackets(c)' = PairQueue(dataQ'[c])
    BY DEF PairPackets, PairQueue
  <2>2. PairPacket(pkt[c])' = PairPacket(pkt'[c])
    BY DEF PairPacket
  <2> QED
    BY <1>1, <2>1, <2>2, PairQueueSend
<1>5. /\ Len(PairSent(c)) = itemsRead[c]
      /\ PairSent(c)' = Append(PairSent(c), m)
  BY <1>1, FieldsRead DEF PairSent
<1>6. UNCHANGED <<ackQ[c], PairBit(c), PairDelivered(c)>>
  BY <1>1, ServerPartUnchanged
<1> HIDE DEF b, m
<1>7. Pair(c)!EnterMessage(b)
  BY <1>1, <1>2, <1>3, <1>4, <1>5, <1>6, PairSocket
  DEF Pair!EnterMessage, Pair!Reading, Pair!Waiting, Pair!serverVars
<1> QED
  BY <1>2, <1>7, PairActions

(* Handling an acknowledgement is receiving it. *)
LEMMA HandleAckSimulates ==
    ASSUME TypeOK, NEW c \in Clients, HandleAck(c), UNCHANGED <<sstate, written>>
    PROVE  Pair(c)!Next
<1> DEFINE b == (state[c] - 1) \div 2
<1>1. /\ state[c] \in {1, 3} /\ Readable(ackQ[c])
      /\ state'[c] = IF Head(ackQ[c]) = b THEN (state[c] + 1) % 4 ELSE state[c]
      /\ ackQ'[c] = Tail(ackQ[c])
      /\ UNCHANGED <<itemsRead, pkt, dataQ>>
  BY HandleAckFacts DEF TypeOK
<1>2. /\ b \in Bit /\ state[c] = 2 * b + 1
      /\ (state[c] + 1) % 4 = IF b = 0 THEN 2 ELSE 0
  BY <1>1 DEF Bit
<1>3. /\ PairPacket(pkt[c])' = PairPacket(pkt[c]) /\ PairPackets(c)' = PairPackets(c)
      /\ PairSent(c)' = PairSent(c)
      /\ PairBit(c)' = PairBit(c) /\ PairDelivered(c)' = PairDelivered(c)
  BY <1>1, ServerPartUnchanged DEF PairPacket, PairPackets, PairSent
<1> HIDE DEF b
<1>4. Pair(c)!ReceiveAck(b)
  BY <1>1, <1>2, <1>3, PairSocket
  DEF Pair!ReceiveAck, Pair!Waiting, Pair!AfterAck, Pair!serverVars
<1> QED
  BY <1>2, <1>4, PairActions

(* A timeout is a timeout. *)
LEMMA HandleTimeoutSimulates ==
    ASSUME TypeOK, NEW c \in Clients, HandleTimeout(c), UNCHANGED <<sstate, written>>
    PROVE  Pair(c)!Next
<1> DEFINE b == (state[c] - 1) \div 2
<1>1. /\ state[c] \in {1, 3} /\ ~Readable(ackQ[c])
      /\ dataQ'[c] = SendTo(dataQ[c], pkt[c])
      /\ UNCHANGED <<state, itemsRead, pkt, ackQ>>
      /\ dataQ[c] \in Seq(Packet) /\ pkt[c] \in Packet
  BY HandleTimeoutFacts, ClientType DEF TypeOK
<1>2. b \in Bit /\ state[c] = 2 * b + 1
  BY <1>1 DEF Bit
<1>3. PairPackets(c)' = SendTo(PairPackets(c), PairPacket(pkt[c]))
  <2>1. PairPackets(c) = PairQueue(dataQ[c]) /\ PairPackets(c)' = PairQueue(dataQ'[c])
    BY DEF PairPackets, PairQueue
  <2> QED
    BY <1>1, <2>1, PairQueueSend
<1>4. /\ PairPacket(pkt[c])' = PairPacket(pkt[c]) /\ PairSent(c)' = PairSent(c)
      /\ PairBit(c)' = PairBit(c) /\ PairDelivered(c)' = PairDelivered(c)
  BY <1>1, ServerPartUnchanged DEF PairPacket, PairSent
<1> HIDE DEF b
<1>5. Pair(c)!Timeout(b)
  BY <1>1, <1>2, <1>3, <1>4, PairSocket
  DEF Pair!Timeout, Pair!Waiting, Pair!clientVars, Pair!serverVars
<1> QED
  BY <1>2, <1>5, PairActions

(* A step that changes nothing of a client, of its queues and of what is   *)
(* written of it is no step of its pair.                                   *)
LEMMA PairUnchanged ==
    ASSUME NEW c \in Clients,
           state'[c] = state[c], itemsRead'[c] = itemsRead[c], pkt'[c] = pkt[c],
           dataQ'[c] = dataQ[c], ackQ'[c] = ackQ[c],
           PairBit(c)' = PairBit(c), PairDelivered(c)' = PairDelivered(c)
    PROVE  UNCHANGED Pair(c)!vars
<1>1. /\ PairPacket(pkt[c])' = PairPacket(pkt[c])
      /\ PairPackets(c)' = PairPackets(c) /\ PairSent(c)' = PairSent(c)
  BY DEF PairPacket, PairPackets, PairSent
<1> QED
  BY <1>1 DEF Pair!vars

(* What the server takes is the first packet of the pair's queue, and the  *)
(* number it expects is the pair's bit.                                    *)
LEMMA ServedQueue ==
    ASSUME TypeOK, InTurn, Receiving
    PROVE  /\ Readable(PairPackets(Served))
           /\ Head(PairPackets(Served)) = PairPacket(Head(dataQ[Served]))
           /\ \A c \in Clients :
                 c = Served => PairPackets(c)' = Tail(PairPackets(c))
           /\ PairBit(Served) = expected_seq
<1>1. /\ Served \in Clients /\ dataQ[Served] \in Seq(Packet)
      /\ Readable(dataQ[Served]) /\ dataQ'[Served] = Tail(dataQ[Served])
  BY ServedType, ClientType, ReceivingFacts DEF TypeOK
<1>2. \A c \in Clients : /\ PairPackets(c) = PairQueue(dataQ[c])
                         /\ PairPackets(c)' = PairQueue(dataQ'[c])
  BY DEF PairPackets, PairQueue
<1>3. PairBit(Served) = expected_seq
  <2> DEFINE n == Len(written)
  <2>1. n \in Nat /\ Turn(n) /\ sstate = n % 4 /\ First # Second
    BY LenProperties, TurnArithmetic, ClientsAssumption DEF TypeOK, InTurn
  <2>2. CASE n % 4 \in {0, 2}
    BY <2>1, <2>2 DEF Turn, Served, PairBit, WrittenFrom, expected_seq
  <2>3. CASE n % 4 \notin {0, 2}
    BY <2>1, <2>3 DEF Turn, Served, PairBit, WrittenFrom, expected_seq
  <2> QED
    BY <2>2, <2>3
<1> QED
  BY <1>1, <1>2, <1>3, PairQueueTail

(* The server's turn is, for the client served, a turn of the pair's       *)
(* server.                                                                 *)
LEMMA DropPacketSimulates ==
    ASSUME TypeOK, InTurn, NEW c \in Clients, DropPacket
    PROVE  [Pair(c)!Next]_(Pair(c)!vars)
<1>1. /\ UNCHANGED <<state, itemsRead, pkt, ackQ, sstate, written>> /\ Receiving
      /\ \A d \in Clients \ {Served} : dataQ'[d] = dataQ[d]
      /\ expected_seq \in Bit
  BY ReceivingFacts, ServedType DEF DropPacket
<1>2. PairBit(c)' = PairBit(c) /\ PairDelivered(c)' = PairDelivered(c)
  BY <1>1, ServerPartUnchanged
<1>3. CASE c = Served
  <2>1. PairPacket(pkt[c])' = PairPacket(pkt[c]) /\ PairSent(c)' = PairSent(c)
    BY <1>1 DEF PairPacket, PairSent
  <2>2. Pair(c)!DropPacket(expected_seq)
    BY <1>1, <1>2, <1>3, <2>1, ServedQueue, PairSocket
    DEF Pair!DropPacket, Pair!clientVars, Pair!serverVars
  <2> QED
    BY <1>1, <2>2, PairActions
<1>4. CASE c # Served
  BY <1>1, <1>2, <1>4, PairUnchanged
<1> QED
  BY <1>3, <1>4

LEMMA AcceptPacketSimulates ==
    ASSUME TypeOK, InTurn, NEW c \in Clients, AcceptPacket
    PROVE  [Pair(c)!Next]_(Pair(c)!vars)
<1> DEFINE p == Head(dataQ[Served])
           e == [from |-> Served, item |-> p.data]
<1>1. /\ Receiving /\ UNCHANGED <<state, itemsRead, pkt>>
      /\ \A d \in Clients \ {Served} : dataQ'[d] = dataQ[d] /\ ackQ'[d] = ackQ[d]
      /\ expected_seq \in Bit
  BY ReceivingFacts, AcceptPacketFacts, ServedType DEF AcceptPacket
<1>2. /\ p.seq_no = expected_seq /\ e \in Entry /\ written' = Append(written, e)
      /\ ackQ'[Served] = SendTo(ackQ[Served], expected_seq)
  BY AcceptPacketFacts
<1>3. e.item = p.data
  OBVIOUS
<1> HIDE DEF p, e
<1>4. CASE c = Served
  <2>1. PairPacket(pkt[c])' = PairPacket(pkt[c]) /\ PairSent(c)' = PairSent(c)
    BY <1>1 DEF PairPacket, PairSent
  <2>2. /\ PairBit(c) = expected_seq /\ PairBit(c)' = 1 - expected_seq
        /\ PairDelivered(c)' = Append(PairDelivered(c), p.data)
    BY <1>2, <1>3, <1>4, AcceptedField
  <2>3. /\ Readable(PairPackets(c)) /\ PairPackets(c)' = Tail(PairPackets(c))
        /\ Head(PairPackets(c)).sq = expected_seq
        /\ Head(PairPackets(c)).data = p.data
    BY <1>1, <1>2, <1>4, ServedQueue DEF p, PairPacket
  <2>4. ackQ'[c] = SendTo(ackQ[c], expected_seq) /\ state'[c] = state[c]
    BY <1>1, <1>2, <1>4
  <2>5. PairDelivered(c)' = Append(PairDelivered(c), Head(PairPackets(c)).data)
    BY <2>2, <2>3
  <2>6. /\ Pair(c)!Readable(PairPackets(c))
        /\ ackQ'[c] = Pair(c)!SendTo(ackQ[c], expected_seq)
    BY <2>3, <2>4, PairSocket
  <2>7. UNCHANGED Pair(c)!clientVars
    BY <2>1, <2>4 DEF Pair!clientVars
  <2>8. Pair(c)!AcceptPacket(expected_seq)
    BY <2>2, <2>3, <2>5, <2>6, <2>7 DEF Pair!AcceptPacket
  <2> QED
    BY <1>1, <2>8, PairActions
<1>5. CASE c # Served
  <2>1. PairBit(c)' = PairBit(c) /\ PairDelivered(c)' = PairDelivered(c)
    BY <1>2, <1>5, AcceptedField
  <2> QED
    BY <1>1, <1>5, <2>1, PairUnchanged
<1> QED
  BY <1>4, <1>5

LEMMA ReacknowledgeOldSimulates ==
    ASSUME TypeOK, InTurn, NEW c \in Clients, ReacknowledgeOld
    PROVE  [Pair(c)!Next]_(Pair(c)!vars)
<1>1. /\ Receiving /\ UNCHANGED <<state, itemsRead, pkt, sstate, written>>
      /\ \A d \in Clients \ {Served} : dataQ'[d] = dataQ[d] /\ ackQ'[d] = ackQ[d]
      /\ Head(dataQ[Served]).seq_no = 1 - expected_seq
      /\ ackQ'[Served] = SendTo(ackQ[Served], 1 - expected_seq)
      /\ expected_seq \in Bit
  BY ReceivingFacts, ReacknowledgeOldFacts, ServedType DEF ReacknowledgeOld
<1>2. PairBit(c)' = PairBit(c) /\ PairDelivered(c)' = PairDelivered(c)
  BY <1>1, ServerPartUnchanged
<1>3. CASE c = Served
  <2>1. PairPacket(pkt[c])' = PairPacket(pkt[c]) /\ PairSent(c)' = PairSent(c)
    BY <1>1 DEF PairPacket, PairSent
  <2>2. /\ Readable(PairPackets(c)) /\ PairPackets(c)' = Tail(PairPackets(c))
        /\ Head(PairPackets(c)).sq = 1 - expected_seq
        /\ PairBit(c) = expected_seq
    BY <1>1, <1>3, ServedQueue DEF PairPacket
  <2>3. Head(PairPackets(c)).sq # expected_seq
    BY <1>1, <2>2 DEF Bit
  <2>4. Pair(c)!ReacknowledgeOld(expected_seq)
    BY <1>1, <1>2, <1>3, <2>1, <2>2, <2>3, PairSocket
    DEF Pair!ReacknowledgeOld, Pair!clientVars, Pair!serverVars
  <2> QED
    BY <1>1, <2>4, PairActions
<1>4. CASE c # Served
  BY <1>1, <1>2, <1>4, PairUnchanged
<1> QED
  BY <1>3, <1>4

(* Every step of the merger is, for each client, a step of its pair or     *)
(* nothing.                                                                *)
LEMMA StepSimulates ==
    ASSUME TypeOK, InTurn, NEW c \in Clients, [Next]_vars
    PROVE  [Pair(c)!Next]_(Pair(c)!vars)
<1>1. ASSUME NEW d \in Clients, Sender(d), UNCHANGED <<sstate, written>>
      PROVE  [Pair(c)!Next]_(Pair(c)!vars)
  <2>1. PairBit(c)' = PairBit(c) /\ PairDelivered(c)' = PairDelivered(c)
    BY <1>1, ServerPartUnchanged
  <2>2. CASE d # c
    BY <1>1, <2>1, <2>2, OtherClientFacts, PairUnchanged DEF TypeOK
  <2>3. CASE d = c /\ EndOfFile(c)
    BY <2>1, <2>3, EndOfFileFacts, PairUnchanged DEF TypeOK
  <2> QED
    BY <1>1, <2>2, <2>3, ReadPacketSimulates, HandleAckSimulates,
       HandleTimeoutSimulates DEF Sender
<1>2. CASE UNCHANGED vars
  <2>1. UNCHANGED <<state, itemsRead, pkt, dataQ, ackQ, written>>
    BY <1>2 DEF vars, senderVars, clientVars
  <2> QED
    BY <2>1, ServerPartUnchanged, PairUnchanged
<1> QED
  BY <1>1, <1>2, DropPacketSimulates, AcceptPacketSimulates,
     ReacknowledgeOldSimulates DEF Next, Server

LEMMA InitSimulates ==
    ASSUME Init, NEW c \in Clients
    PROVE  Pair(c)!Init
<1>1. /\ state[c] = 0 /\ itemsRead[c] = 0 /\ dataQ[c] = <<>> /\ ackQ[c] = <<>>
      /\ pkt[c] = [seq_no |-> 0, data |-> 0] /\ written = <<>>
      /\ NumItems[c] \in Nat
  BY NumItemsAssumption DEF Init, SenderInit
<1>2. WrittenFrom(c) = 0
  BY <1>1 DEF WrittenFrom
<1>3. /\ PairPackets(c) = <<>> /\ PairSent(c) = <<>> /\ PairDelivered(c) = <<>>
      /\ PairBit(c) = 0 /\ PairPacket(pkt[c]) = [sq |-> 0, data |-> 0]
  BY <1>1, <1>2 DEF PairPackets, PairSent, PairDelivered, PairBit, PairPacket
<1> QED
  BY <1>1, <1>3 DEF Pair!Init, Pair!Packet, Pair!Bit

-----------------------------------------------------------------------------
(* What is proved of the pair of lab6, about the pairs of the two clients. *)
FirstTheorems == INSTANCE StopAndWaitProofs
    WITH Message <- 0..NumItems[First], MaxMessages <- NumItems[First],
         cstate <- state[First], sendPkt <- PairPacket(pkt[First]),
         sstate <- PairBit(First), dataQ <- PairPackets(First),
         ackQ <- ackQ[First], sent <- PairSent(First),
         delivered <- PairDelivered(First)

SecondTheorems == INSTANCE StopAndWaitProofs
    WITH Message <- 0..NumItems[Second], MaxMessages <- NumItems[Second],
         cstate <- state[Second], sendPkt <- PairPacket(pkt[Second]),
         sstate <- PairBit(Second), dataQ <- PairPackets(Second),
         ackQ <- ackQ[Second], sent <- PairSent(Second),
         delivered <- PairDelivered(Second)

(* The pair of a client is the same in all these instances.                *)
LEMMA PairOfFirst ==
    /\ Pair(First)!Init => FirstPair!Init /\ FirstTheorems!Init
    /\ [Pair(First)!Next]_(Pair(First)!vars) =>
          /\ [FirstPair!Next]_(FirstPair!vars)
          /\ [FirstTheorems!Next]_(FirstTheorems!vars)
<1>1. Pair(First)!Init => FirstPair!Init /\ FirstTheorems!Init
  BY DEF Pair!Init, FirstPair!Init, FirstTheorems!Init, Pair!Packet,
         FirstPair!Packet, FirstTheorems!Packet, Pair!Bit, FirstPair!Bit,
         FirstTheorems!Bit
<1>2. Pair(First)!Next => FirstPair!Next /\ FirstTheorems!Next
  BY DEF Pair!Next, FirstPair!Next, FirstTheorems!Next, Pair!Client,
         FirstPair!Client, FirstTheorems!Client, Pair!Case0, FirstPair!Case0,
         FirstTheorems!Case0, Pair!Case1, FirstPair!Case1, FirstTheorems!Case1,
         Pair!Case2, FirstPair!Case2, FirstTheorems!Case2, Pair!Case3,
         FirstPair!Case3, FirstTheorems!Case3, Pair!AwaitAck,
         FirstPair!AwaitAck, FirstTheorems!AwaitAck, Pair!Server,
         FirstPair!Server, FirstTheorems!Server, Pair!ServerCase0,
         FirstPair!ServerCase0, FirstTheorems!ServerCase0, Pair!ServerCase1,
         FirstPair!ServerCase1, FirstTheorems!ServerCase1, Pair!ReceivePacket,
         FirstPair!ReceivePacket, FirstTheorems!ReceivePacket,
         Pair!EnterMessage, FirstPair!EnterMessage, FirstTheorems!EnterMessage,
         Pair!DropAck, FirstPair!DropAck, FirstTheorems!DropAck,
         Pair!ReceiveAck, FirstPair!ReceiveAck, FirstTheorems!ReceiveAck,
         Pair!Timeout, FirstPair!Timeout, FirstTheorems!Timeout,
         Pair!DropPacket, FirstPair!DropPacket, FirstTheorems!DropPacket,
         Pair!AcceptPacket, FirstPair!AcceptPacket, FirstTheorems!AcceptPacket,
         Pair!ReacknowledgeOld, FirstPair!ReacknowledgeOld,
         FirstTheorems!ReacknowledgeOld, Pair!Reading, FirstPair!Reading,
         FirstTheorems!Reading, Pair!Waiting, FirstPair!Waiting,
         FirstTheorems!Waiting, Pair!AfterAck, FirstPair!AfterAck,
         FirstTheorems!AfterAck, Pair!clientVars, FirstPair!clientVars,
         FirstTheorems!clientVars, Pair!serverVars, FirstPair!serverVars,
         FirstTheorems!serverVars, Pair!SendTo, FirstPair!SendTo,
         FirstTheorems!SendTo, Pair!Readable, FirstPair!Readable,
         FirstTheorems!Readable, Pair!vars, FirstPair!vars, FirstTheorems!vars
<1>3. UNCHANGED Pair(First)!vars =>
         UNCHANGED FirstPair!vars /\ UNCHANGED FirstTheorems!vars
  BY DEF Pair!vars, FirstPair!vars, FirstTheorems!vars
<1> QED
  BY <1>1, <1>2, <1>3

(* The same of the second client.                                          *)
LEMMA PairOfSecond ==
    /\ Pair(Second)!Init => SecondPair!Init /\ SecondTheorems!Init
    /\ [Pair(Second)!Next]_(Pair(Second)!vars) =>
          /\ [SecondPair!Next]_(SecondPair!vars)
          /\ [SecondTheorems!Next]_(SecondTheorems!vars)
<1>1. Pair(Second)!Init => SecondPair!Init /\ SecondTheorems!Init
  BY DEF Pair!Init, SecondPair!Init, SecondTheorems!Init, Pair!Packet,
         SecondPair!Packet, SecondTheorems!Packet, Pair!Bit, SecondPair!Bit,
         SecondTheorems!Bit
<1>2. Pair(Second)!Next => SecondPair!Next /\ SecondTheorems!Next
  BY DEF Pair!Next, SecondPair!Next, SecondTheorems!Next, Pair!Client,
         SecondPair!Client, SecondTheorems!Client, Pair!Case0,
         SecondPair!Case0, SecondTheorems!Case0, Pair!Case1, SecondPair!Case1,
         SecondTheorems!Case1, Pair!Case2, SecondPair!Case2,
         SecondTheorems!Case2, Pair!Case3, SecondPair!Case3,
         SecondTheorems!Case3, Pair!AwaitAck, SecondPair!AwaitAck,
         SecondTheorems!AwaitAck, Pair!Server, SecondPair!Server,
         SecondTheorems!Server, Pair!ServerCase0, SecondPair!ServerCase0,
         SecondTheorems!ServerCase0, Pair!ServerCase1, SecondPair!ServerCase1,
         SecondTheorems!ServerCase1, Pair!ReceivePacket,
         SecondPair!ReceivePacket, SecondTheorems!ReceivePacket,
         Pair!EnterMessage, SecondPair!EnterMessage,
         SecondTheorems!EnterMessage, Pair!DropAck, SecondPair!DropAck,
         SecondTheorems!DropAck, Pair!ReceiveAck, SecondPair!ReceiveAck,
         SecondTheorems!ReceiveAck, Pair!Timeout, SecondPair!Timeout,
         SecondTheorems!Timeout, Pair!DropPacket, SecondPair!DropPacket,
         SecondTheorems!DropPacket, Pair!AcceptPacket, SecondPair!AcceptPacket,
         SecondTheorems!AcceptPacket, Pair!ReacknowledgeOld,
         SecondPair!ReacknowledgeOld, SecondTheorems!ReacknowledgeOld,
         Pair!Reading, SecondPair!Reading, SecondTheorems!Reading,
         Pair!Waiting, SecondPair!Waiting, SecondTheorems!Waiting,
         Pair!AfterAck, SecondPair!AfterAck, SecondTheorems!AfterAck,
         Pair!clientVars, SecondPair!clientVars, SecondTheorems!clientVars,
         Pair!serverVars, SecondPair!serverVars, SecondTheorems!serverVars,
         Pair!SendTo, SecondPair!SendTo, SecondTheorems!SendTo, Pair!Readable,
         SecondPair!Readable, SecondTheorems!Readable, Pair!vars,
         SecondPair!vars, SecondTheorems!vars
<1>3. UNCHANGED Pair(Second)!vars =>
         UNCHANGED SecondPair!vars /\ UNCHANGED SecondTheorems!vars
  BY DEF Pair!vars, SecondPair!vars, SecondTheorems!vars
<1> QED
  BY <1>1, <1>2, <1>3

(* client-1.c with its part of server.c behaves as udp_client.c with       *)
(* udp_server.c of lab6 does, and so does client-2.c, whatever the other    *)
(* client does and however long it keeps the server waiting.                *)
THEOREM MergerImplementsStopAndWait == Spec => BothAreStopAndWait
<1>1. First \in Clients /\ Second \in Clients
  BY ClientsAssumption
<1>2. Init => FirstPair!Init /\ SecondPair!Init
  BY <1>1, InitSimulates, PairOfFirst, PairOfSecond
<1>3. TypeOK /\ InTurn /\ [Next]_vars =>
         /\ [FirstPair!Next]_(FirstPair!vars)
         /\ [SecondPair!Next]_(SecondPair!vars)
  BY <1>1, StepSimulates, PairOfFirst, PairOfSecond
<1> QED
  BY <1>2, <1>3, TypeCorrect, AlwaysInTurn, PTL
  DEF Spec, BothAreStopAndWait, FirstPair!Spec, SecondPair!Spec

(* So the theorem about lab6 holds of both: the fields of each client that  *)
(* are written are those it has read, in their order.                       *)
LEMMA PairsInOrder ==
    Spec => [](FirstTheorems!InOrderOnce /\ SecondTheorems!InOrderOnce)
<1>1. First \in Clients /\ Second \in Clients
  BY ClientsAssumption
<1>2. /\ Cap \in Nat \ {0}
      /\ NumItems[First] \in Nat /\ NumItems[Second] \in Nat
  BY <1>1, CapAssumption, NumItemsAssumption
<1>3. Init => FirstTheorems!Init /\ SecondTheorems!Init
  BY <1>1, InitSimulates, PairOfFirst, PairOfSecond
<1>4. TypeOK /\ InTurn /\ [Next]_vars =>
         /\ [FirstTheorems!Next]_(FirstTheorems!vars)
         /\ [SecondTheorems!Next]_(SecondTheorems!vars)
  BY <1>1, StepSimulates, PairOfFirst, PairOfSecond
<1>5. Spec => FirstTheorems!Spec /\ SecondTheorems!Spec
  BY <1>3, <1>4, TypeCorrect, AlwaysInTurn, PTL
  DEF Spec, FirstTheorems!Spec, SecondTheorems!Spec
<1>6. FirstTheorems!Spec => []FirstTheorems!InOrderOnce
  BY <1>2, FirstTheorems!DeliveredInOrderOnce, PTL
<1>7. SecondTheorems!Spec => []SecondTheorems!InOrderOnce
  BY <1>2, SecondTheorems!DeliveredInOrderOnce, PTL
<1> QED
  BY <1>5, <1>6, <1>7, PTL

(* list.txt takes the two files in turn, each in its order, nothing        *)
(* left out and nothing twice: the state of server.c says whose turn it    *)
(* is, and the pairs say which field.                                      *)
THEOREM AlwaysMergedInTurn == Spec => []MergedInTurn
<1>1. ASSUME TypeOK, InTurn, FirstTheorems!InOrderOnce, SecondTheorems!InOrderOnce
      PROVE  MergedInTurn
  <2> SUFFICES ASSUME NEW i \in 1..Len(written)
               PROVE  written[i] = [from |-> IF i % 2 = 1 THEN First ELSE Second,
                                    item |-> (i + 1) \div 2]
    BY DEF MergedInTurn
  <2> DEFINE j == (i + 1) \div 2
  <2>1. /\ Len(written) \in Nat /\ written[i] \in [from : Clients, item : Nat]
        /\ First # Second /\ First \in Clients /\ Second \in Clients
    <3>1. written \in Seq([from : Clients, item : Nat])
      BY <1>1 DEF TypeOK
    <3> QED
      BY <3>1, LenProperties, ElementOfSeq, ClientsAssumption
  <2>2. written[i].from = IF i % 2 = 1 THEN First ELSE Second
    BY <1>1 DEF InTurn
  <2>3. CASE i % 2 = 1
    <3>1. i = 2 * j - 1 /\ j \in 1..WrittenFrom(First)
      BY <2>1, <2>3 DEF WrittenFrom
    <3>2. PairDelivered(First)[j] = written[i].item
      BY <3>1 DEF PairDelivered
    <3>3. /\ PairDelivered(First)[j] = PairSent(First)[j]
          /\ j \in 1..Len(PairSent(First))
      BY <1>1, <2>1, <3>1, WrittenFromType DEF FirstTheorems!InOrderOnce
    <3>4. PairSent(First)[j] = j
      BY <1>1, <2>1, <3>3, FieldsRead, ClientType DEF PairSent, TypeOK
    <3> QED
      BY <2>1, <2>2, <3>2, <3>3, <3>4
  <2>4. CASE i % 2 # 1
    <3>1. i = 2 * j /\ j \in 1..WrittenFrom(Second)
      BY <2>1, <2>4 DEF WrittenFrom
    <3>2. PairDelivered(Second)[j] = written[i].item
      BY <2>1, <3>1 DEF PairDelivered
    <3>3. /\ PairDelivered(Second)[j] = PairSent(Second)[j]
          /\ j \in 1..Len(PairSent(Second))
      <4>1. j \in 1..Len(PairDelivered(Second))
        BY <1>1, <2>1, <3>1, WrittenFromType
      <4> QED
        BY <1>1, <4>1 DEF SecondTheorems!InOrderOnce
    <3>4. PairSent(Second)[j] = j
      BY <1>1, <2>1, <3>3, FieldsRead, ClientType DEF PairSent, TypeOK
    <3> QED
      BY <2>1, <2>2, <3>2, <3>3, <3>4
  <2> QED
    BY <2>3, <2>4
<1> QED
  BY <1>1, TypeCorrect, AlwaysInTurn, PairsInOrder, PTL
=============================================================================
