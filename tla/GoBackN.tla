------------------------------- MODULE GoBackN -------------------------------
(***************************************************************************)
(* The Go-Back-N pair of Practice-RDT/GBN/UDP.  client.c reads input.txt   *)
(* through a buffer of PacketsPerBuffer packets, keeps up to WINDOW_SIZE   *)
(* unacknowledged packets in sent_packets and sends all of them again on a *)
(* timeout; server.c writes the packet it expects to output.txt and        *)
(* acknowledges, for every packet it keeps, the last one written.          *)
(*                                                                         *)
(* The size of a packet is left out: neither program reads it.             *)
(***************************************************************************)
EXTENDS UdpSocket, InputBuffer

CONSTANTS WINDOW_SIZE,
          LateReturns   \* whether select() may return after the deadline

(* packet.h: 5 packets in the window, 10 in the buffer.                    *)
ASSUME WindowAssumption == WINDOW_SIZE \in Nat \ {0}
ASSUME BufferAssumption ==
    PacketsPerBuffer \in Nat /\ PacketsPerBuffer >= WINDOW_SIZE
ASSUME LateAssumption == LateReturns \subseteq BOOLEAN

VARIABLES client,          \* "running", or what ended the client
          base,            \* oldest packet not acknowledged
          nextseqnum,      \* next packet to send
          sent_packets,    \* the packets of the window, by number modulo its size
          tv,              \* the timeout handed to select(): "valid" or "negative"
          server,          \* "running", "wild_pkt", or what ended the server
          expectedSeqNo,   \* next packet to write
          snd_pkt,         \* the acknowledgement the server sends
          dataQ,           \* receive buffer of the server's socket
          ackQ,            \* receive buffer of the client's socket
          written          \* history: the data of the packets written to output.txt

serverVars == <<server, expectedSeqNo, snd_pkt, written>>
vars == <<client, base, nextseqnum, sent_packets, inputVars, tv, serverVars,
          dataQ, ackQ>>

Slots == 0 .. WINDOW_SIZE - 1

Packet == [seqNo : Nat, isAck : {0, 1}, finalPacket : {0, 1},
           payload : 0..NumChunks]

DataPacket(seq, final) ==
    [seqNo |-> seq, isAck |-> 0, finalPacket |-> final, payload |-> Chunk(seq)]

TypeOK ==
    /\ client \in {"running", "no_input", "select_failed", "finished"}
    /\ base \in Nat /\ nextseqnum \in Nat
    /\ sent_packets \in [Slots -> Packet]
    /\ bufFirst \in Nat /\ currseq \in 0 .. PacketsPerBuffer - 1
    /\ fp \in {"open", "NULL"} /\ tv \in {"valid", "negative"}
    /\ server \in {"running", "wild_pkt", "recv_failed", "finished"}
    /\ expectedSeqNo \in Nat /\ snd_pkt \in Packet
    /\ dataQ \in Seq(Packet) /\ Len(dataQ) <= Cap
    /\ ackQ \in Seq(Packet) /\ Len(ackQ) <= Cap
    /\ written \in Seq(0..NumChunks)

(* The client has filled inputBuffer once.  Two values are uninitialised:  *)
(* the finalPacket of the first acknowledgement, and the server's pointer  *)
(* pkt, which may or may not point to memory recvfrom() can write to.  The *)
(* slots of the window hold nothing that is read before it is assigned.    *)
Init ==
    /\ client = "running"
    /\ base = 1 /\ nextseqnum = 1
    /\ sent_packets = [s \in Slots |-> DataPacket(0, 0)]
    /\ bufFirst = 0 /\ currseq = 0 /\ fp = "open" /\ tv = "valid"
    /\ server \in {"running", "wild_pkt"}
    /\ expectedSeqNo = 1
    /\ \E f \in {0, 1} :
          snd_pkt = [seqNo |-> 0, isAck |-> 1, finalPacket |-> f, payload |-> Empty]
    /\ dataQ = <<>> /\ ackQ = <<>> /\ written = <<>>

-----------------------------------------------------------------------------
(* Plausible bugs: the packet is taken from the position behind its own;   *)
(* the window is one packet too large.                                     *)
NextPacketOffByOne ==
    [seqNo |-> nextseqnum, isAck |-> 0, finalPacket |-> 0,
     payload |-> Chunk(bufFirst + currseq + 2)]
WindowNotFullOffByOne == nextseqnum <= base + WINDOW_SIZE

(* The flag is set when compute() reports the end of the data, and cleared *)
(* by the next assignment in every case.                                   *)
FinalFlag == 0

(* createPacket() with the chunk at currseq. *)
NextPacket ==
    [seqNo |-> nextseqnum, isAck |-> 0, finalPacket |-> FinalFlag,
     payload |-> Chunk(bufFirst + currseq + 1)]

WindowNotFull == nextseqnum < base + WINDOW_SIZE

(* One turn of the sending loop. *)
SendNext ==
    /\ client = "running" /\ WindowNotFull
    /\ ~InputUsedUp
    /\ ReadInput
    /\ dataQ' = SendTo(dataQ, NextPacket)
    /\ sent_packets' =
          [sent_packets EXCEPT ![nextseqnum % WINDOW_SIZE] = NextPacket]
    /\ nextseqnum' = nextseqnum + 1
    /\ UNCHANGED <<client, base, tv, ackQ, serverVars>>

(* The buffer has to be filled again and the file was closed the last      *)
(* time: getfilestream() ends the client before the packet is sent.        *)
DieAtEndOfInput ==
    /\ client = "running" /\ WindowNotFull
    /\ InputUsedUp
    /\ client' = "no_input"
    /\ UNCHANGED <<base, nextseqnum, sent_packets, inputVars, tv, serverVars,
                   dataQ, ackQ>>

(* The client calls select() only with a full window. *)
Selecting == client = "running" /\ ~WindowNotFull

(* Plausible bug: the timeout sends nothing. *)
ResendNothing == <<>>

(* The packets base .. nextseqnum - 1, from their slots. *)
ResendWindow ==
    [i \in 1 .. nextseqnum - base |-> sent_packets[(base + i - 1) % WINDOW_SIZE]]

Timeout ==
    /\ Selecting /\ tv = "valid" /\ ~Readable(ackQ)
    /\ dataQ' = SendAll(dataQ, ResendWindow)
    /\ tv' = "valid"
    /\ UNCHANGED <<client, base, nextseqnum, sent_packets, inputVars, serverVars, ackQ>>

(* Plausible bug: the window restarts at the packet just acknowledged. *)
AckedUpToOffByOne(ack) == ack.seqNo + 2

AckedUpTo(ack) == ack.seqNo + 1

(* An acknowledgement of something new slides the window; with finalPacket *)
(* it would be sent back and end the client.                               *)
NewAck ==
    /\ Selecting /\ tv = "valid" /\ Readable(ackQ)
    /\ LET ack == Head(ackQ) IN
          /\ ack.isAck = 1 /\ ack.seqNo >= base
          /\ base' = AckedUpTo(ack)
          /\ IF ack.finalPacket = 1
             THEN client' = "finished" /\ dataQ' = SendTo(dataQ, ack)
             ELSE UNCHANGED <<client, dataQ>>
    /\ ackQ' = Tail(ackQ)
    /\ tv' = "valid"
    /\ UNCHANGED <<nextseqnum, sent_packets, inputVars, serverVars>>

(* Any other one: tv becomes what is left of TIMEOUT_PERIOD after this     *)
(* select(), a negative time when the client was held up past the deadline.*)
OldAck ==
    /\ Selecting /\ tv = "valid" /\ Readable(ackQ)
    /\ ~(Head(ackQ).isAck = 1 /\ Head(ackQ).seqNo >= base)
    /\ ackQ' = Tail(ackQ)
    /\ \E late \in LateReturns : tv' = IF late THEN "negative" ELSE "valid"
    /\ UNCHANGED <<client, base, nextseqnum, sent_packets, inputVars, serverVars, dataQ>>

(* select() refuses a negative timeout, and the client dies. *)
SelectFails ==
    /\ Selecting /\ tv = "negative"
    /\ client' = "select_failed"
    /\ UNCHANGED <<base, nextseqnum, sent_packets, inputVars, tv, serverVars,
                   dataQ, ackQ>>

Client ==
    SendNext \/ DieAtEndOfInput \/ Timeout \/ NewAck \/ OldAck \/ SelectFails

-----------------------------------------------------------------------------
(* recvfrom() cannot write through pkt, and the server dies. *)
ReceiveFails ==
    /\ server = "wild_pkt" /\ Readable(dataQ)
    /\ dataQ' = Tail(dataQ)
    /\ server' = "recv_failed"
    /\ UNCHANGED <<client, base, nextseqnum, sent_packets, inputVars, tv, ackQ,
                   expectedSeqNo, snd_pkt, written>>

Receiving == server = "running" /\ Readable(dataQ) /\ dataQ' = Tail(dataQ)

(* dropPacket() throws the packet away. *)
DropPacket ==
    /\ Receiving
    /\ UNCHANGED <<client, base, nextseqnum, sent_packets, inputVars, tv,
                   serverVars, ackQ>>

IsExpected(pkt) == pkt.seqNo = expectedSeqNo
AckFor(pkt) ==
    [snd_pkt EXCEPT !.seqNo = expectedSeqNo, !.finalPacket = pkt.finalPacket]

(* The packet expected: the answer to a FIN acknowledgement would end the  *)
(* server; any other is written and acknowledged.                          *)
AcceptPacket ==
    /\ Receiving
    /\ LET pkt == Head(dataQ) IN
          /\ IsExpected(pkt)
          /\ IF pkt.isAck = 1 /\ pkt.finalPacket = 1
             THEN /\ server' = "finished"
                  /\ UNCHANGED <<expectedSeqNo, snd_pkt, written, ackQ>>
             ELSE /\ written' = Append(written, pkt.payload)
                  /\ snd_pkt' = AckFor(pkt)
                  /\ expectedSeqNo' = expectedSeqNo + 1
                  /\ ackQ' = SendTo(ackQ, snd_pkt')
                  /\ UNCHANGED server
    /\ UNCHANGED <<client, base, nextseqnum, sent_packets, inputVars, tv>>

(* Any other packet: the last acknowledgement is sent again. *)
RepeatAck ==
    /\ Receiving
    /\ ~IsExpected(Head(dataQ))
    /\ ackQ' = SendTo(ackQ, snd_pkt)
    /\ UNCHANGED <<client, base, nextseqnum, sent_packets, inputVars, tv, serverVars>>

Server == ReceiveFails \/ DropPacket \/ AcceptPacket \/ RepeatAck

Next == Client \/ Server

Spec == Init /\ [][Next]_vars

(* Neither loop skips a turn, and the client reads every acknowledgement.  *)
(* dropPacket() is an independent draw with probability PDR < 1, so it     *)
(* cannot throw away every packet of an endless sequence.                  *)
Fairness ==
    /\ WF_vars(SendNext) /\ WF_vars(Timeout)
    /\ WF_vars(NewAck) /\ WF_vars(OldAck) /\ WF_vars(SelectFails)
    /\ SF_vars(AcceptPacket) /\ SF_vars(RepeatAck)

LiveSpec == Spec /\ Fairness

-----------------------------------------------------------------------------
(* output.txt is always the beginning of input.txt: whatever is lost or    *)
(* sent again, no chunk is written twice, left out or out of order         *)
(* (server.c:46-61).  A packet behind the end of the file writes nothing.  *)
OutputIsPrefix == \A i \in 1..Len(written) : written[i] = Chunk(i)

(* The window of the client, the position of the server and everything in  *)
(* transit fit together: no acknowledgement names a packet the server does *)
(* not have, and the window never outgrows its slots (client.c:101,169).   *)
WindowsAgree ==
    /\ base <= expectedSeqNo /\ expectedSeqNo <= nextseqnum
    /\ nextseqnum <= base + WINDOW_SIZE
    /\ \A i \in 1..Len(ackQ) : ackQ[i].seqNo < expectedSeqNo
    /\ \A i \in 1..Len(dataQ) : dataQ[i].seqNo < nextseqnum

(* What a timeout would send again is what was sent: the slots of the      *)
(* packets not yet acknowledged were not overwritten by newer packets      *)
(* (client.c:121,149).                                                     *)
ResendsWhatWasSent ==
    \A n \in base .. nextseqnum - 1 :
        sent_packets[n % WINDOW_SIZE] = DataPacket(n, 0)

(* The client has no clean end: it dies when the input is used up.  When   *)
(* it does, all of input.txt is in output.txt, because the file is found   *)
(* closed only one whole buffer of empty packets behind the data, and that *)
(* buffer is not smaller than the window (client.c:10-11,46-57).           *)
DeathAfterDelivery == client = "no_input" => Len(written) >= NumChunks

(* With a server that can receive, all of input.txt is eventually written, *)
(* unless the client was held up past a deadline and select() refused the  *)
(* negative timeout (client.c:189-198).                                    *)
EverythingWritten ==
    server = "running" ~> (Len(written) >= NumChunks \/ client = "select_failed")

-----------------------------------------------------------------------------
(* The rest of the inductive invariant.  The client's position in the file *)
(* and its packet numbers advance together, and the file is closed only    *)
(* behind its end.                                                         *)
InputPosition ==
    /\ nextseqnum = bufFirst + currseq + 1
    /\ fp = "NULL" => bufFirst >= NumChunks

(* What is in transit is what its number says, and nothing carries FIN     *)
(* that the client would look at.                                          *)
PacketsGenuine ==
    /\ \A i \in 1..Len(dataQ) : dataQ[i] = DataPacket(dataQ[i].seqNo, 0)
    /\ \A i \in 1..Len(ackQ) :
          ackQ[i].isAck = 1 /\ (ackQ[i].seqNo > 0 => ackQ[i].finalPacket = 0)
    /\ snd_pkt.isAck = 1 /\ snd_pkt.seqNo = expectedSeqNo - 1
    /\ snd_pkt.seqNo > 0 => snd_pkt.finalPacket = 0

ServerPosition == expectedSeqNo = Len(written) + 1

(* A client that died at the end of its input had room in its window. *)
DeathPosition ==
    client = "no_input" =>
        EndOfBuffer /\ fp = "NULL" /\ nextseqnum < base + WINDOW_SIZE

(* The inductive invariant: both ends and the two sockets agree on which   *)
(* packets were sent, written and acknowledged.                            *)
Agreement ==
    /\ base >= 1
    /\ OutputIsPrefix
    /\ WindowsAgree
    /\ ResendsWhatWasSent
    /\ InputPosition
    /\ PacketsGenuine
    /\ ServerPosition
    /\ DeathPosition

-----------------------------------------------------------------------------
(* The pair is a windowed transfer of the chunks and the empty packets     *)
(* behind them, with the window the client declares.                       *)
Transfer == INSTANCE WindowedTransfer
    WITH Data <- 0..NumChunks, Window <- WINDOW_SIZE,
         submitted <- [i \in 1 .. nextseqnum - 1 |-> Chunk(i)],
         delivered <- written, confirmed <- base - 1

(* Every step of the two programs is a step of the windowed transfer, or   *)
(* changes nothing of it.                                                  *)
ImplementsTransfer == Transfer!Spec
=============================================================================
