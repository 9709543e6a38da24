--------------------------- MODULE SelectiveRepeat ---------------------------
(***************************************************************************)
(* The four programs of Practice-RDT/SR/UDP_selectiverepeat.  client.c     *)
(* sends the file in numbered packets, the odd ones through the relay r1.c *)
(* and the even ones through r2.c, and marks each acknowledgement in the   *)
(* slot of its number; a relay throws a data packet away with probability  *)
(* PDR and passes everything else on; server.c acknowledges the packets of *)
(* its window and of the one before, and writes each one as it arrives.    *)
(*                                                                         *)
(* The payload of a packet is the number of the piece of input.txt fread() *)
(* put into it, the last piece (which may be empty) being NumPackets; an   *)
(* acknowledgement is its sequence number.                                 *)
(***************************************************************************)
EXTENDS UdpSocket, Integers

CONSTANTS WINDOW_SIZE,
          MAX_SEQ_NO,
          NumPackets,   \* how many times fread() is called until feof()
          MaxEarly      \* bound on early

ASSUME WindowAssumption == WINDOW_SIZE \in Nat \ {0}
ASSUME SeqNoAssumption == MAX_SEQ_NO \in Nat /\ WINDOW_SIZE <= MAX_SEQ_NO
ASSUME InputAssumption == NumPackets \in Nat \ {0}
ASSUME EarlyAssumption == MaxEarly \in Nat

VARIABLES client,        \* "running" or "done"
          chunks,        \* how many pieces of the file the client has read
          base,          \* oldest sequence number not acknowledged
          currseq,       \* next sequence number
          sent_packets,  \* the last packet sent in each slot
          acks,          \* client: whether the slot's packet is acknowledged
          toRelay, toServer, backToRelay, toClient,   \* receive buffers, by relay
          rcv_base,      \* first sequence number the server does not have
          ackd,          \* server: whether the slot's packet was received
          written,       \* history: the pieces written to output.txt
          slid,          \* history: how far base has moved in all
          early          \* history: the timeouts while a packet or its
                         \* acknowledgement was still under way

clientVars == <<client, chunks, base, currseq, sent_packets, acks, slid,
                early>>
serverVars == <<rcv_base, ackd, written>>
vars == <<clientVars, serverVars, toRelay, toServer, backToRelay, toClient>>

Relay == {"R1", "R2"}
SeqNo == 0..MAX_SEQ_NO
Slots == 0 .. WINDOW_SIZE - 1
Slot(s) == s % WINDOW_SIZE
Flag == {0, 1}
Packet == [final_packet : Flag, seq_no : SeqNo, payload : 1..NumPackets]

TypeOK ==
    /\ client \in {"running", "done"}
    /\ chunks \in 0..NumPackets
    /\ base \in SeqNo /\ currseq \in SeqNo
    /\ sent_packets \in [Slots -> Packet]
    /\ acks \in [Slots -> Flag]
    /\ toRelay \in [Relay -> Seq(Packet)] /\ toServer \in [Relay -> Seq(Packet)]
    /\ backToRelay \in [Relay -> Seq(SeqNo)] /\ toClient \in [Relay -> Seq(SeqNo)]
    /\ \A r \in Relay :
          /\ Len(toRelay[r]) <= Cap /\ Len(toServer[r]) <= Cap
          /\ Len(backToRelay[r]) <= Cap /\ Len(toClient[r]) <= Cap
    /\ rcv_base \in SeqNo
    /\ ackd \in [Slots -> Flag]
    /\ written \in Seq(1..NumPackets)
    /\ slid \in Nat /\ early \in 0..MaxEarly

NoTraffic == [r \in Relay |-> <<>>]

(* The slots of sent_packets are uninitialised, and assigned before read.  *)
Init ==
    /\ client = "running" /\ chunks = 0 /\ base = 0 /\ currseq = 0
    /\ sent_packets = [s \in Slots |-> [final_packet |-> 0, seq_no |-> 0, payload |-> 1]]
    /\ acks = [s \in Slots |-> 0]
    /\ toRelay = NoTraffic /\ toServer = NoTraffic
    /\ backToRelay = NoTraffic /\ toClient = NoTraffic
    /\ rcv_base = 0 /\ ackd = [s \in Slots |-> 0]
    /\ written = <<>> /\ slid = 0 /\ early = 0

-----------------------------------------------------------------------------
(* incrementSeqNo(), n times. *)
Ahead(s, n) == (s + n) % (MAX_SEQ_NO + 1)

(* The loop both programs move their window with: while the slot of the    *)
(* first number is marked, clear it and go to the next number.  It stops   *)
(* at a slot that is not marked or that it has just cleared itself.        *)
StopsAt(first, marks, n) ==
    \/ marks[Slot(Ahead(first, n))] = 0
    \/ \E k \in 0 .. n - 1 : Slot(Ahead(first, k)) = Slot(Ahead(first, n))

SlideLength(first, marks) ==
    CHOOSE n \in 0..WINDOW_SIZE :
        /\ StopsAt(first, marks, n)
        /\ \A k \in 0 .. n - 1 : ~StopsAt(first, marks, k)

(* Plausible bug: the slots the window leaves keep their marks. *)
NotCleared(first, marks, n) == marks

Cleared(first, marks, n) ==
    [s \in Slots |->
        IF \E k \in 0 .. n - 1 : Slot(Ahead(first, k)) = s THEN 0 ELSE marks[s]]

(* Odd numbers go to R1, even ones to R2. *)
RelayOf(s) == IF s % 2 = 1 THEN "R1" ELSE "R2"

Ready(q) == {r \in Relay : Readable(q[r])}
TakenFrom(q) == [r \in Relay |-> IF Readable(q[r]) THEN Tail(q[r]) ELSE q[r]]

-----------------------------------------------------------------------------
(* Plausible bug: the end of the file is noticed one fread() late. *)
feofLate == chunks = NumPackets + 1

feof == chunks = NumPackets

WindowNotFull == currseq < base + WINDOW_SIZE

(* The flag of the last packet is set, and cleared by the next statement.  *)
FinalFlag == 0

NextPacket == [final_packet |-> FinalFlag, seq_no |-> currseq, payload |-> chunks + 1]

(* One turn of the loop that fills the window. *)
SendNext ==
    /\ client = "running" /\ WindowNotFull /\ ~feof
    /\ chunks' = chunks + 1
    /\ toRelay' = [toRelay EXCEPT ![RelayOf(currseq)] = SendTo(@, NextPacket)]
    /\ sent_packets' = [sent_packets EXCEPT ![Slot(currseq)] = NextPacket]
    /\ acks' = [acks EXCEPT ![Slot(currseq)] = 0]
    /\ currseq' = Ahead(currseq, 1)
    /\ UNCHANGED <<client, base, slid, early, serverVars, toServer, backToRelay,
                   toClient>>

Selecting == client = "running" /\ ~(WindowNotFull /\ ~feof)

(* A number that is not marked, and goes through relay r. *)
Unacked(r, s) == acks[Slot(s)] = 0 /\ RelayOf(s) = r

(* Plausible bug: the timeout sends nothing. *)
ResentNothing(r) == <<>>

(* What is sent again through r: the packets of the slots of its numbers   *)
(* from base to currseq - 1 that are not marked.                           *)
Resent(r) ==
    LET first[k \in 0 .. currseq - base] ==
            IF k = 0 THEN <<>>
            ELSE IF ~Unacked(r, base + k - 1) THEN first[k - 1]
            ELSE Append(first[k - 1], sent_packets[Slot(base + k - 1)])
    IN  IF base < currseq THEN first[currseq - base] ELSE <<>>

NothingInTransit ==
    Ready(toRelay) \cup Ready(toServer) \cup Ready(backToRelay) = {}

(* Plausible bug: the loop ends with the file, not with the window. *)
ClientAfterFile(b) == IF feof THEN "done" ELSE "running"

(* The condition of the outer loop, tested when select() was served. *)
ClientAfter(b) == IF feof /\ ~(b < currseq) THEN "done" ELSE "running"

(* select() found both sockets empty for RETRANSMISSION_TIME: what was     *)
(* under way has been lost, or it is late.                                 *)
Timeout ==
    /\ Selecting /\ Ready(toClient) = {}
    /\ early' = IF NothingInTransit THEN early ELSE early + 1
    /\ early' <= MaxEarly
    /\ toRelay' = [r \in Relay |-> SendAll(toRelay[r], Resent(r))]
    /\ client' = ClientAfter(base)
    /\ UNCHANGED <<chunks, base, currseq, sent_packets, acks, slid, serverVars,
                   toServer, backToRelay, toClient>>

(* Plausible bug: when both sockets are ready one answer is lost. *)
MarkedFromOne ==
    [s \in Slots |->
        IF Slot(Head(toClient[CHOOSE r \in Ready(toClient) : TRUE])) = s THEN 1 ELSE acks[s]]

(* One acknowledgement is read from every socket that has one and marked   *)
(* in its slot, whatever its number; then the window slides.               *)
Marked ==
    [s \in Slots |->
        IF \E r \in Ready(toClient) : Slot(Head(toClient[r])) = s THEN 1 ELSE acks[s]]

ReceiveAcks ==
    /\ Selecting /\ Ready(toClient) # {}
    /\ toClient' = TakenFrom(toClient)
    /\ LET n == SlideLength(base, Marked) IN
          /\ acks' = Cleared(base, Marked, n)
          /\ base' = Ahead(base, n)
          /\ slid' = slid + n
          /\ client' = ClientAfter(base')
    /\ UNCHANGED <<chunks, currseq, sent_packets, early, serverVars, toRelay,
                   toServer, backToRelay>>

Client == SendNext \/ Timeout \/ ReceiveAcks

-----------------------------------------------------------------------------
(* The relay reads a data packet and drops it; an acknowledgement that is  *)
(* ready too has to wait for the next turn.                                *)
DropData(r) ==
    /\ Readable(toRelay[r])
    /\ toRelay' = [toRelay EXCEPT ![r] = Tail(@)]
    /\ UNCHANGED <<clientVars, serverVars, toServer, backToRelay, toClient>>

(* The relay passes on what is ready: a data packet, after a delay, to the *)
(* server, and then an acknowledgement to the client.                      *)
Forward(r) ==
    /\ Readable(toRelay[r]) \/ Readable(backToRelay[r])
    /\ IF Readable(toRelay[r])
       THEN /\ toServer' = [toServer EXCEPT ![r] = SendTo(@, Head(toRelay[r]))]
            /\ toRelay' = [toRelay EXCEPT ![r] = Tail(@)]
       ELSE UNCHANGED <<toServer, toRelay>>
    /\ IF Readable(backToRelay[r])
       THEN /\ toClient' = [toClient EXCEPT ![r] = SendTo(@, Head(backToRelay[r]))]
            /\ backToRelay' = [backToRelay EXCEPT ![r] = Tail(@)]
       ELSE UNCHANGED <<toClient, backToRelay>>
    /\ UNCHANGED <<clientVars, serverVars>>

-----------------------------------------------------------------------------
(* Plausible bug: the window is one packet too large. *)
InWindowOffByOne(s) == s >= rcv_base /\ s <= rcv_base + WINDOW_SIZE

InWindow(s) == s >= rcv_base /\ s < rcv_base + WINDOW_SIZE
InPreviousWindow(s) == s <= rcv_base - 1 /\ s >= rcv_base - WINDOW_SIZE

(* Plausible bugs: every packet is acknowledged, also one the server       *)
(* ignores; a packet of the window is written each time it comes.          *)
AcknowledgedAlways(s) == TRUE
IsNewAlways(s) == InWindow(s)

Acknowledged(s) == InWindow(s) \/ InPreviousWindow(s)
IsNew(s) == InWindow(s) /\ ackd[Slot(s)] = 0

(* What one turn of the server writes from relay r's packet, if it is      *)
(* ready.  The packets of the two relays have different numbers, so if     *)
(* both are in the window their slots differ and neither affects the other.*)
NewFrom(r) == Readable(toServer[r]) /\ IsNew(Head(toServer[r]).seq_no)
WrittenFrom(r) == IF NewFrom(r) THEN <<Head(toServer[r]).payload>> ELSE <<>>

Received ==
    [s \in Slots |->
        IF \E r \in Relay : NewFrom(r) /\ Slot(Head(toServer[r]).seq_no) = s
        THEN 1 ELSE ackd[s]]

(* One turn: a packet is read from every relay that has one, R1 first,     *)
(* acknowledged and written if it is new; then the window slides.          *)
ServerTurn ==
    /\ Ready(toServer) # {}
    /\ toServer' = TakenFrom(toServer)
    /\ backToRelay' =
          [r \in Relay |->
              IF Readable(toServer[r]) /\ Acknowledged(Head(toServer[r]).seq_no)
              THEN SendTo(backToRelay[r], Head(toServer[r]).seq_no)
              ELSE backToRelay[r]]
    /\ written' = written \o WrittenFrom("R1") \o WrittenFrom("R2")
    /\ LET n == SlideLength(rcv_base, Received) IN
          /\ ackd' = Cleared(rcv_base, Received, n)
          /\ rcv_base' = Ahead(rcv_base, n)
    /\ UNCHANGED <<clientVars, toRelay, toClient>>

Next ==
    \/ Client
    \/ \E r \in Relay : DropData(r) \/ Forward(r)
    \/ ServerTurn

Spec == Init /\ [][Next]_vars

(* The four loops never skip a turn.  dropPacket() is an independent draw  *)
(* with probability PDR < 1, so a relay that gets data again and again     *)
(* passes some of it on.                                                   *)
ForwardData(r) == Readable(toRelay[r]) /\ Forward(r)

Fairness ==
    /\ WF_vars(SendNext) /\ WF_vars(Timeout) /\ WF_vars(ReceiveAcks)
    /\ \A r \in Relay : SF_vars(ForwardData(r)) /\ WF_vars(Forward(r))
    /\ WF_vars(ServerTurn)

LiveSpec == Spec /\ Fairness

-----------------------------------------------------------------------------
(* The server has the packet numbered s: it is behind the window, or in it *)
(* and marked.                                                             *)
ServerHas(s) == s < rcv_base \/ (InWindow(s) /\ ackd[Slot(s)] = 1)

(* However often a packet is sent again, its piece of the file is written  *)
(* once (server.c:107-124,147-164).                                        *)
WrittenOnce ==
    \A i, j \in 1..Len(written) : i # j => written[i] # written[j]

(* The pieces are written as they arrive, not in the order of the file,    *)
(* but each less than a window away from its place (server.c:117-122).     *)
OrderWithinWindow ==
    \A i \in 1..Len(written) :
        /\ written[i] - i < WINDOW_SIZE
        /\ i - written[i] < WINDOW_SIZE

(* An acknowledgement on its way to the client, however late, is for a     *)
(* packet the server has written (server.c:107-117).                       *)
AcksTruthful ==
    \A r \in Relay :
        /\ \A i \in 1..Len(backToRelay[r]) : ServerHas(backToRelay[r][i])
        /\ \A i \in 1..Len(toClient[r]) : ServerHas(toClient[r][i])

(* "Slide window [UNTIL THE FIRST UNACKD PACKET]" (client.c:294): the      *)
(* client's window never passes a packet the server has not written.       *)
NothingSkipped ==
    \A n \in 1..slid : \E i \in 1..Len(written) : written[i] = n

(* "Send new packets if window is not full" (client.c:145): the packets    *)
(* sent and not yet passed by the window are at most WINDOW_SIZE.          *)
WindowRespected == chunks <= slid + WINDOW_SIZE

(* It takes a timeout that came too early to break NothingSkipped.  As     *)
(* long as timeouts mean losses, however many, an acknowledgement is       *)
(* marked in the slot of its own packet, and a client that ends has sent   *)
(* the whole file (client.c:140,262-300).                                  *)
SlidesOverWritten ==
    early = 0 => /\ NothingSkipped
                 /\ client = "done" => Len(written) = NumPackets

(* When nothing is in transit, the marks of the client's window are        *)
(* exactly the packets of it the server has: what a timeout then sends     *)
(* again is what was dropped, and nothing else (client.c:236-241).         *)
AgreeAtRest ==
    early = 0 /\ Selecting /\ NothingInTransit /\ Ready(toClient) = {} =>
        \A s \in base .. currseq - 1 : acks[Slot(s)] = 1 <=> ServerHas(s)

(* The client ends, with the whole file written, if no packet is under way *)
(* for longer than RETRANSMISSION_TIME and the numbers do not wrap around. *)
Terminates == [](early = 0) => <>(client = "done" /\ Len(written) = NumPackets)
=============================================================================
