----------------------------- MODULE StopAndWait -----------------------------
(***************************************************************************)
(* The stop-and-wait pair of lab6: udp_client.c sends the messages typed   *)
(* by the user, one at a time, with the alternating sequence numbers 0 and *)
(* 1; udp_server.c takes and acknowledges them.  Both programs throw away  *)
(* what they receive with probability PDR (dropPacket), and the kernel     *)
(* loses what does not fit a socket's buffer.                              *)
(*                                                                         *)
(* A packet is its sequence number and its data; an acknowledgement is its *)
(* sequence number.  ack_or_data is left out: neither program reads it.    *)
(***************************************************************************)
EXTENDS UdpSocket

CONSTANTS Message,       \* what the user can type
          MaxMessages    \* bound: how many messages the user types

ASSUME MaxMessagesAssumption == MaxMessages \in Nat

VARIABLES cstate,     \* state of the client's switch, 0 to 3
          sendPkt,    \* send_pkt of the client, kept for retransmission
          sstate,     \* state of the server's switch, 0 or 1
          dataQ,      \* receive buffer of the server's socket
          ackQ,       \* receive buffer of the client's socket
          sent,       \* history: the messages typed
          delivered   \* history: the messages the server printed as received

clientVars == <<cstate, sendPkt, sent>>
serverVars == <<sstate, delivered>>
vars == <<cstate, sendPkt, sstate, dataQ, ackQ, sent, delivered>>

Bit == {0, 1}
Packet == [sq : Bit, data : Message]

TypeOK ==
    /\ cstate \in 0..3
    /\ sendPkt \in Packet
    /\ sstate \in Bit
    /\ dataQ \in Seq(Packet) /\ Len(dataQ) <= Cap
    /\ ackQ \in Seq(Bit) /\ Len(ackQ) <= Cap
    /\ sent \in Seq(Message)
    /\ delivered \in Seq(Message)

(* send_pkt is uninitialised until the first message: any value. *)
Init ==
    /\ cstate = 0 /\ sendPkt \in Packet /\ sstate = 0
    /\ dataQ = <<>> /\ ackQ = <<>>
    /\ sent = <<>> /\ delivered = <<>>

-----------------------------------------------------------------------------
(* The client waits for the acknowledgement of packet b in state 2b + 1,   *)
(* and goes on to state 2 after packet 0, back to state 0 after packet 1.  *)
Reading(b) == 2 * b
Waiting(b) == 2 * b + 1

(* Plausible bug: the client never returns to the state of packet 0. *)
AfterAckNoReset(b) == 2 * b + 2

AfterAck(b) == IF b = 0 THEN 2 ELSE 0

(* gets() returns a message, possibly the previous one once stdin is at    *)
(* its end; it goes out as packet b.                                       *)
EnterMessage(b) ==
    /\ cstate = Reading(b)
    /\ Len(sent) < MaxMessages
    /\ \E m \in Message :
          /\ sendPkt' = [sq |-> b, data |-> m]
          /\ sent' = Append(sent, m)
          /\ dataQ' = SendTo(dataQ, sendPkt')
    /\ cstate' = Waiting(b)
    /\ UNCHANGED <<ackQ, serverVars>>

(* select() reports an acknowledgement, and dropPacket() throws it away. *)
DropAck(b) ==
    /\ cstate = Waiting(b) /\ Readable(ackQ)
    /\ ackQ' = Tail(ackQ)
    /\ UNCHANGED <<clientVars, dataQ, serverVars>>

(* Plausible bug, not part of the specification: the sequence number of    *)
(* an acknowledgement is not looked at.                                    *)
ReceiveAnyAck(b) ==
    /\ cstate = Waiting(b) /\ Readable(ackQ)
    /\ ackQ' = Tail(ackQ)
    /\ cstate' = AfterAck(b)
    /\ UNCHANGED <<sendPkt, sent, dataQ, serverVars>>

(* The acknowledgement is kept: the one of packet b ends the wait, an old  *)
(* one changes nothing.                                                    *)
ReceiveAck(b) ==
    /\ cstate = Waiting(b) /\ Readable(ackQ)
    /\ ackQ' = Tail(ackQ)
    /\ cstate' = IF Head(ackQ) = b THEN AfterAck(b) ELSE cstate
    /\ UNCHANGED <<sendPkt, sent, dataQ, serverVars>>

(* Plausible bug: the timer runs out and nothing is sent again. *)
TimeoutWithoutRetransmission(b) ==
    /\ cstate = Waiting(b) /\ ~Readable(ackQ)
    /\ UNCHANGED vars

(* select() returns 0: the packet is sent again. *)
Timeout(b) ==
    /\ cstate = Waiting(b) /\ ~Readable(ackQ)
    /\ dataQ' = SendTo(dataQ, sendPkt)
    /\ UNCHANGED <<clientVars, ackQ, serverVars>>

AwaitAck(b) == DropAck(b) \/ ReceiveAck(b) \/ Timeout(b)

(* The four cases of the client's switch. *)
Case0 == EnterMessage(0)
Case1 == AwaitAck(0)
Case2 == EnterMessage(1)
Case3 == AwaitAck(1)

Client == Case0 \/ Case1 \/ Case2 \/ Case3

-----------------------------------------------------------------------------
(* recvfrom() returns a packet, and dropPacket() throws it away. *)
DropPacket(b) ==
    /\ sstate = b /\ Readable(dataQ)
    /\ dataQ' = Tail(dataQ)
    /\ UNCHANGED <<clientVars, ackQ, serverVars>>

(* The packet the server waits for: printed, acknowledged, and the server  *)
(* waits for the other sequence number.                                    *)
AcceptPacket(b) ==
    /\ sstate = b /\ Readable(dataQ) /\ Head(dataQ).sq = b
    /\ dataQ' = Tail(dataQ)
    /\ delivered' = Append(delivered, Head(dataQ).data)
    /\ ackQ' = SendTo(ackQ, b)
    /\ sstate' = 1 - b
    /\ UNCHANGED clientVars

(* Plausible bug: an old packet is acknowledged with the number the server *)
(* waits for.                                                              *)
AcknowledgeExpected(b) ==
    /\ sstate = b /\ Readable(dataQ) /\ Head(dataQ).sq # b
    /\ dataQ' = Tail(dataQ)
    /\ ackQ' = SendTo(ackQ, b)
    /\ UNCHANGED <<clientVars, serverVars>>

(* A packet already taken: its acknowledgement is sent again. *)
ReacknowledgeOld(b) ==
    /\ sstate = b /\ Readable(dataQ) /\ Head(dataQ).sq # b
    /\ dataQ' = Tail(dataQ)
    /\ ackQ' = SendTo(ackQ, 1 - b)
    /\ UNCHANGED <<clientVars, serverVars>>

ReceivePacket(b) == DropPacket(b) \/ AcceptPacket(b) \/ ReacknowledgeOld(b)

(* The two cases of the server's switch. *)
ServerCase0 == ReceivePacket(0)
ServerCase1 == ReceivePacket(1)

Server == ServerCase0 \/ ServerCase1

-----------------------------------------------------------------------------
Next == Client \/ Server

Spec == Init /\ [][Next]_vars

(* Both programs run for ever and their loops never skip a turn, so a step *)
(* that stays possible is taken.  dropPacket() is an independent draw with *)
(* probability PDR < 1 for every packet, so it cannot throw away every     *)
(* packet of an endless sequence: a program that can receive again and     *)
(* again receives without dropping infinitely often.                       *)
Fairness ==
    \A b \in Bit : /\ WF_vars(Timeout(b))
                   /\ SF_vars(ReceiveAck(b))
                   /\ SF_vars(AcceptPacket(b))
                   /\ SF_vars(ReacknowledgeOld(b))

LiveSpec == Spec /\ Fairness

-----------------------------------------------------------------------------
(* Every message is printed at most once and in the order typed: the       *)
(* messages printed are always a prefix of the messages typed, whatever is *)
(* lost, retransmitted or acknowledged twice (udp_server.c:60-74,111-122). *)
InOrderOnce ==
    /\ Len(delivered) <= Len(sent)
    /\ \A i \in 1..Len(delivered) : delivered[i] = sent[i]

(* When the client asks the user for the next message, every message       *)
(* before it has been printed by the server: no stale acknowledgement of   *)
(* an earlier round ends a wait (udp_client.c:99-104,182-192).             *)
NoFalseAck ==
    cstate \in {0, 2} => Len(delivered) = Len(sent)

-----------------------------------------------------------------------------
(* The parts of the inductive invariant.  ClientBit is the number of the   *)
(* packet the client sends or waits for.                                   *)
ClientBit == IF cstate \in {0, 1} THEN 0 ELSE 1
Outstanding == cstate \in {1, 3}

(* The packet kept for retransmission is the last message typed, and every *)
(* copy of it in transit carries that message.                             *)
CurrentPacket ==
    Outstanding =>
        /\ Len(sent) > 0
        /\ sendPkt = [sq |-> ClientBit, data |-> sent[Len(sent)]]
        /\ \A i \in 1..Len(dataQ) :
              dataQ[i].sq = ClientBit => dataQ[i] = sendPkt

(* Where the server stands: it has the last message or waits for it. *)
ServerPosition ==
    IF Outstanding
    THEN \/ Len(delivered) = Len(sent) - 1 /\ sstate = ClientBit
         \/ Len(delivered) = Len(sent) /\ sstate = 1 - ClientBit
    ELSE Len(delivered) = Len(sent) /\ sstate = ClientBit

(* While the server waits for the current message no acknowledgement of it *)
(* can be in transit; once the server has it, no older packet is.          *)
NothingStale ==
    /\ sstate = ClientBit =>
          \A i \in 1..Len(ackQ) : ackQ[i] = 1 - ClientBit
    /\ sstate = 1 - ClientBit =>
          \A i \in 1..Len(dataQ) : dataQ[i].sq = ClientBit
    /\ ~Outstanding =>
          \A i \in 1..Len(dataQ) : dataQ[i].sq = 1 - ClientBit

(* Old packets and acknowledgements are ahead of the new ones. *)
OldBeforeNew ==
    /\ \A i, j \in 1..Len(dataQ) :
          i < j /\ dataQ[i].sq = ClientBit => dataQ[j].sq = ClientBit
    /\ \A i, j \in 1..Len(ackQ) :
          i < j /\ ackQ[i] = ClientBit => ackQ[j] = ClientBit

(* At every moment the two switch states, the two socket buffers and the   *)
(* messages typed and printed agree as stop-and-wait needs them to: this   *)
(* is what makes one bit enough to tell a new packet from an old one.      *)
Agreement ==
    /\ InOrderOnce
    /\ CurrentPacket
    /\ ServerPosition
    /\ NothingStale
    /\ OldBeforeNew

-----------------------------------------------------------------------------
(* The pair is a windowed transfer with a window of one message.  The      *)
(* client knows a message delivered when it has left the waiting state.    *)
Transfer == INSTANCE WindowedTransfer
    WITH Data <- Message, Window <- 1, submitted <- sent,
         confirmed <- IF Outstanding THEN Len(sent) - 1 ELSE Len(sent)

(* Every step of the two programs is a step of the windowed transfer, or   *)
(* changes nothing of it.                                                  *)
ImplementsTransfer == Transfer!Spec

(* With fair losses every message typed is eventually printed by the       *)
(* server, and no wait for an acknowledgement lasts for ever: the windowed *)
(* transfer's own promise of progress (udp_client.c:59-128,147-210).       *)
ImplementsLiveTransfer == Transfer!LiveSpec
=============================================================================
