----------------------------- MODULE TcpTransfer -----------------------------
(***************************************************************************)
(* The pair of Practice - 2019/TCP_Transfer.  client.c sends input.txt     *)
(* packet by packet over a TCP connection, waits for the acknowledgement   *)
(* of each and sends it again after 5 seconds without one; server.c writes *)
(* the packet it expects to output.txt and acknowledges every packet that  *)
(* dropPacket() does not throw away.                                       *)
(*                                                                         *)
(* Sequence numbers are byte offsets; here they count packets.  The client *)
(* receives acknowledgements into *pkt, which is also *lastUnack, the      *)
(* packet it sends again.                                                  *)
(***************************************************************************)
EXTENDS InputBuffer, TcpSocket

CONSTANT Cap   \* how many packets a send() puts into a connection before it waits

ASSUME CapAssumption == Cap \in Nat \ {0}

VARIABLES client,      \* "running" or "ended"
          state,       \* of the client: 0 sends the next packet, 1 waits
          pkt,         \* *pkt and *lastUnack of the client
          lastseq,     \* number of the packet sent last
          server,      \* "running", or what ended the server
          lastPkt,     \* *pkt of the server
          nextSeq,     \* the number the server expects
          dataQ,       \* packets on their way to the server
          ackQ,        \* acknowledgements on their way to the client
          connection,  \* as the server sees it
          written,     \* history: the data written to output.txt
          early        \* history: a timeout came while a packet or its
                       \* acknowledgement was still under way

clientVars == <<client, state, pkt, lastseq, inputVars, early>>
serverVars == <<server, lastPkt, nextSeq, written>>
vars == <<clientVars, serverVars, dataQ, ackQ, connection>>

(* What an acknowledgement holds besides its number is never assigned. *)
Unassigned == NumChunks + 1
Packet == [seq_no : Nat, payload : 0..Unassigned]
DataPacket(n) == [seq_no |-> n, payload |-> Chunk(n + 1)]

TypeOK ==
    /\ client \in {"running", "ended"} /\ state \in {0, 1}
    /\ pkt \in Packet /\ lastseq \in Nat
    /\ bufFirst \in Nat /\ currseq \in 0 .. PacketsPerBuffer - 1
    /\ fp \in {"open", "NULL"}
    /\ server \in {"running", "recv_failed", "send_failed"}
    /\ lastPkt \in Packet /\ nextSeq \in Nat
    /\ dataQ \in Seq(Packet) /\ Len(dataQ) <= Cap
    /\ ackQ \in Seq(Packet) /\ Len(ackQ) <= Cap
    /\ connection \in Connection
    /\ written \in Seq(0..Unassigned) /\ early \in BOOLEAN

(* The server's *pkt is not assigned before the first packet arrives.  *)
Init ==
    /\ client = "running" /\ state = 0 /\ early = FALSE
    /\ pkt = DataPacket(0) /\ lastseq = 0
    /\ bufFirst = 0 /\ currseq = 0 /\ fp = "open"
    /\ server = "running" /\ nextSeq = 0
    /\ lastPkt = [seq_no |-> 0, payload |-> Unassigned]
    /\ dataQ = <<>> /\ ackQ = <<>> /\ connection = "open"
    /\ written = <<>>

-----------------------------------------------------------------------------
(* createPacket() at currseq. *)
NextPacket ==
    [seq_no |-> bufFirst + currseq, payload |-> Chunk(bufFirst + currseq + 1)]

(* State 0.  final_packet is set at the end of the data and cleared by the *)
(* next statement.                                                         *)
SendNext ==
    /\ client = "running" /\ state = 0 /\ ~InputUsedUp
    /\ Len(dataQ) < Cap
    /\ ReadInput
    /\ pkt' = NextPacket
    /\ lastseq' = pkt'.seq_no
    /\ dataQ' = Append(dataQ, pkt')
    /\ state' = 1
    /\ UNCHANGED <<client, early, serverVars, ackQ, connection>>

(* The client exits before it sends the last packet it has created.  *)
EndOfInput ==
    /\ client = "running" /\ state = 0 /\ InputUsedUp
    /\ client' = "ended"
    /\ connection' = AfterClose(ackQ)
    /\ UNCHANGED <<state, pkt, lastseq, inputVars, early, serverVars, dataQ, ackQ>>

Waiting == client = "running" /\ state = 1

(* Plausible bug: the timeout sends nothing. *)
TimeoutWithoutRetransmission ==
    /\ Waiting /\ ackQ = <<>> /\ Len(dataQ) < Cap
    /\ early' = (early \/ dataQ # <<>>)
    /\ UNCHANGED <<client, state, pkt, lastseq, inputVars, serverVars, dataQ,
                   ackQ, connection>>

(* State 1, select() times out: *lastUnack is sent, whatever it holds now. *)
Timeout ==
    /\ Waiting /\ ackQ = <<>> /\ Len(dataQ) < Cap
    /\ dataQ' = Append(dataQ, pkt)
    /\ early' = (early \/ dataQ # <<>>)
    /\ UNCHANGED <<client, state, pkt, lastseq, inputVars, serverVars, ackQ,
                   connection>>

(* Plausible bug: any acknowledgement is taken for the one awaited.  *)
AfterAnyAck(ack) == 0

AfterAck(ack) == IF ack.seq_no = lastseq THEN 0 ELSE 1

(* State 1, an acknowledgement is received, into *pkt.  *)
ReceiveAck ==
    /\ Waiting /\ ackQ # <<>>
    /\ pkt' = Head(ackQ)
    /\ ackQ' = Tail(ackQ)
    /\ state' = AfterAck(pkt')
    /\ UNCHANGED <<client, lastseq, inputVars, early, serverVars, dataQ, connection>>

Client == SendNext \/ EndOfInput \/ Timeout \/ ReceiveAck

-----------------------------------------------------------------------------
(* recv() fails when the client has reset the connection.  *)
ReceiveFails ==
    /\ server = "running" /\ RecvFails(dataQ, connection)
    /\ server' = "recv_failed"
    /\ UNCHANGED <<clientVars, lastPkt, nextSeq, written, dataQ, ackQ, connection>>

(* recv() takes the next packet; when the client has gone it returns 0 and *)
(* *pkt keeps the packet of the turn before.                               *)
Receiving ==
    /\ server = "running"
    /\ \/ dataQ # <<>> /\ dataQ' = Tail(dataQ) /\ lastPkt' = Head(dataQ)
       \/ ReturnsZero(dataQ, connection) /\ UNCHANGED <<dataQ, lastPkt>>

DropPacket ==
    /\ Receiving
    /\ UNCHANGED <<clientVars, server, nextSeq, written, ackQ, connection>>

(* Plausible bug: the acknowledgement names the position the server waits  *)
(* for, as TCP's own would.                                                *)
AckNumberExpected == nextSeq'

IsExpected == lastPkt'.seq_no = nextSeq
AckNumber == lastPkt'.seq_no

SendAck ==
    /\ Arrives(connection) => Len(ackQ) < Cap
    /\ ackQ' = IF Arrives(connection)
               THEN Append(ackQ, [seq_no |-> AckNumber, payload |-> Unassigned])
               ELSE ackQ
    /\ connection' = AfterSend(connection)
    /\ server' = IF SendFails(connection) THEN "send_failed" ELSE server

(* The packet expected is written and acknowledged.  *)
AcceptPacket ==
    /\ Receiving /\ IsExpected
    /\ nextSeq' = nextSeq + 1
    /\ written' = Append(written, lastPkt'.payload)
    /\ SendAck
    /\ UNCHANGED clientVars

(* Any other one is acknowledged all the same.  *)
Reacknowledge ==
    /\ Receiving /\ ~IsExpected
    /\ UNCHANGED <<nextSeq, written>>
    /\ SendAck
    /\ UNCHANGED clientVars

Server == ReceiveFails \/ DropPacket \/ AcceptPacket \/ Reacknowledge

Next == Client \/ Server

Spec == Init /\ [][Next]_vars

(* Neither loop skips a turn.  dropPacket() is an independent draw with    *)
(* probability PDR < 1: of an endless sequence of packets it keeps some.   *)
Fairness ==
    /\ WF_vars(Client) /\ WF_vars(ReceiveFails)
    /\ SF_vars(AcceptPacket) /\ SF_vars(Reacknowledge)

LiveSpec == Spec /\ Fairness

-----------------------------------------------------------------------------
(* What a timeout sends is the packet that was not acknowledged, as its    *)
(* message says ("RESENDING PKT WITH SEQ NO"), although acknowledgements   *)
(* are received over it: in step, the only one that can overwrite it is    *)
(* its own.  It takes a timeout that came too early to break this          *)
(* (client.c:102-106,136-147).                                             *)
ResendsUnacknowledged == ~early /\ Waiting => pkt = DataPacket(lastseq)

(* The client has overwritten the packet that was lost with an old         *)
(* acknowledgement.                                                        *)
Overwritten == Waiting /\ pkt.seq_no # lastseq

(* Either both programs end, with all of input.txt in output.txt; or, and  *)
(* only after a timeout that came too early, the client sends an old       *)
(* acknowledgement for ever: the server answers it again and again, and    *)
(* never sees the packet that was lost (client.c:96-157; server.c:47-82).  *)
EndsOrOverwritten ==
    \/ <>[](/\ client = "ended" /\ server # "running"
            /\ Len(written) >= NumChunks)
    \/ <>[](early /\ Overwritten)

-----------------------------------------------------------------------------
(* The pair is a windowed transfer, with a window of one packet, of the    *)
(* chunks and the empty packets behind them.                               *)
Sent == bufFirst + currseq

Transfer == INSTANCE WindowedTransfer
    WITH Data <- 0..NumChunks, Window <- 1,
         submitted <- [i \in 1..Sent |-> Chunk(i)],
         delivered <- written, confirmed <- Sent - state

(* Whatever is thrown away, duplicated or overwritten, every step of the   *)
(* two programs is a step of the windowed transfer or changes nothing of   *)
(* it: no packet is skipped, written twice or out of order, and no byte of *)
(* an acknowledgement sent back is written (client.c:143; server.c:67).    *)
ImplementsTransfer == Transfer!Spec
=============================================================================
