----------------------------- MODULE GoBackNTcp -----------------------------
(***************************************************************************)
(* The Go-Back-N pair of Practice-RDT/GBN/TCP.  Its client is the one of   *)
(* GoBackN but for its end: it remembers in check that the data has ended  *)
(* and stops when everything is acknowledged.  The window, the slots and   *)
(* the reading of input.txt are those of GoBackN.                          *)
(*                                                                         *)
(* The packets go over a TCP connection.  All have one size, and a send()  *)
(* waits for room.  What dropPacket() throws away has been received        *)
(* before.                                                                 *)
(***************************************************************************)
EXTENDS GoBackN, TcpSocket

ASSUME TcpBufferAssumption == PacketsPerBuffer >= 2

VARIABLES check,       \* the client has sent the last data
          lastPkt,     \* what *pkt holds in the server
          connection   \* as the server sees it

tcpVars == <<vars, check, lastPkt, connection>>
clientTcp == <<client, base, nextseqnum, sent_packets, inputVars, tv, check>>

TcpTypeOK ==
    /\ client \in {"running", "finished", "select_failed", "no_server"}
    /\ base \in Nat /\ nextseqnum \in Nat
    /\ sent_packets \in [Slots -> Packet]
    /\ bufFirst \in Nat /\ currseq \in 0 .. PacketsPerBuffer - 1
    /\ fp \in {"open", "NULL"} /\ tv \in {"valid", "negative"}
    /\ server \in {"running", "wild_pkt", "recv_failed", "send_failed"}
    /\ expectedSeqNo \in Nat /\ snd_pkt \in Packet
    /\ dataQ \in Seq(Packet) /\ Len(dataQ) <= Cap
    /\ ackQ \in Seq(Packet) /\ Len(ackQ) <= Cap
    /\ written \in Seq(0..NumChunks)
    /\ check \in BOOLEAN /\ lastPkt \in Packet
    /\ connection \in Connection

TcpInit ==
    /\ Init
    /\ check = FALSE /\ connection = "open"
    /\ lastPkt = DataPacket(0, 0)

-----------------------------------------------------------------------------
(* Plausible bug: the position is one packet ahead. *)
EndOfDataEarly == ~EndOfBuffer /\ Chunk(bufFirst + currseq + 3) = Empty

(* compute() returns 1: the data ends at the position behind the packet.   *)
EndOfData == ~EndOfBuffer /\ Chunk(bufFirst + currseq + 2) = Empty

(* One turn of the sending loop.  The buffer is never to be filled when    *)
(* the file is closed: see EndsComplete.                                   *)
Sending == client = "running" /\ WindowNotFull /\ ~check

TcpSendNext ==
    /\ Sending /\ server \in {"running", "wild_pkt"}
    /\ Len(dataQ) < Cap
    /\ ReadInput
    /\ check' = EndOfData
    /\ dataQ' = Append(dataQ, NextPacket)
    /\ sent_packets' =
          [sent_packets EXCEPT ![nextseqnum % WINDOW_SIZE] = NextPacket]
    /\ nextseqnum' = nextseqnum + 1
    /\ UNCHANGED <<client, base, tv, ackQ, serverVars, lastPkt, connection>>

(* select() is called while there is something to wait for. *)
TcpSelecting ==
    /\ client = "running" /\ ~Sending /\ (~check \/ base < nextseqnum)
    /\ server \in {"running", "wild_pkt"}

TcpTimeout ==
    /\ TcpSelecting /\ tv = "valid" /\ ~Readable(ackQ)
    /\ Len(dataQ) + Len(ResendWindow) <= Cap
    /\ dataQ' = dataQ \o ResendWindow
    /\ UNCHANGED <<clientTcp, serverVars, ackQ, lastPkt, connection>>

TcpAck ==
    /\ TcpSelecting /\ tv = "valid" /\ Readable(ackQ)
    /\ ackQ' = Tail(ackQ)
    /\ LET ack == Head(ackQ) IN
          IF ack.isAck = 1 /\ ack.seqNo >= base
          THEN base' = AckedUpTo(ack) /\ UNCHANGED tv
          ELSE /\ \E late \in LateReturns :
                     tv' = IF late THEN "negative" ELSE "valid"
               /\ UNCHANGED base
    /\ UNCHANGED <<client, nextseqnum, sent_packets, inputVars, check,
                   serverVars, dataQ, lastPkt, connection>>

(* A client that ends closes the connection. *)
ClientEnds(how) ==
    /\ client' = how
    /\ connection' = AfterClose(ackQ)
    /\ UNCHANGED <<base, nextseqnum, sent_packets, inputVars, tv, check,
                   serverVars, dataQ, ackQ, lastPkt>>

(* The main loop ends. *)
Finish ==
    client = "running" /\ check /\ base >= nextseqnum /\ ClientEnds("finished")

TcpSelectFails == TcpSelecting /\ tv = "negative" /\ ClientEnds("select_failed")

(* The server has died at its first packet, and the connection is reset:   *)
(* the client's next send() or recv() fails.                               *)
ServerLost ==
    /\ client = "running" /\ server = "recv_failed"
    /\ client' = "no_server"
    /\ UNCHANGED <<base, nextseqnum, sent_packets, inputVars, tv, check,
                   serverVars, dataQ, ackQ, lastPkt, connection>>

TcpClient ==
    TcpSendNext \/ TcpTimeout \/ TcpAck \/ Finish \/ TcpSelectFails \/ ServerLost

-----------------------------------------------------------------------------
(* recv() cannot write through pkt, or there is nothing left to receive    *)
(* and the connection was reset.                                           *)
TcpReceiveFails ==
    /\ \/ server = "wild_pkt" /\ Readable(dataQ)
       \/ server = "running" /\ RecvFails(dataQ, connection)
    /\ server' = "recv_failed"
    /\ UNCHANGED <<clientTcp, expectedSeqNo, snd_pkt, written, dataQ, ackQ,
                   lastPkt, connection>>

(* recv() returns the next packet, or 0 when the client has closed the     *)
(* connection: *pkt then keeps the packet of the turn before, and the rest *)
(* of the turn evaluates it once more.                                     *)
TcpReceiving ==
    /\ server = "running"
    /\ \/ Readable(dataQ) /\ dataQ' = Tail(dataQ) /\ lastPkt' = Head(dataQ)
       \/ ReturnsZero(dataQ, connection) /\ UNCHANGED <<dataQ, lastPkt>>

TcpDropPacket ==
    TcpReceiving /\ UNCHANGED <<clientTcp, serverVars, ackQ, connection>>

(* send() waits for room in the client's buffer. *)
SendAck ==
    /\ Arrives(connection) => Len(ackQ) < Cap
    /\ ackQ' = IF Arrives(connection) THEN Append(ackQ, snd_pkt') ELSE ackQ
    /\ connection' = AfterSend(connection)
    /\ server' = IF SendFails(connection) THEN "send_failed" ELSE server

(* The packet expected is written and acknowledged. *)
TcpAcceptPacket ==
    /\ TcpReceiving
    /\ IsExpected(lastPkt')
    /\ written' = Append(written, lastPkt'.payload)
    /\ snd_pkt' = [snd_pkt EXCEPT !.seqNo = expectedSeqNo]
    /\ expectedSeqNo' = expectedSeqNo + 1
    /\ SendAck
    /\ UNCHANGED clientTcp

(* Any other one is answered with the last packet written. *)
TcpRepeatAck ==
    /\ TcpReceiving
    /\ ~IsExpected(lastPkt')
    /\ UNCHANGED <<written, snd_pkt, expectedSeqNo>>
    /\ SendAck
    /\ UNCHANGED clientTcp

TcpServer == TcpReceiveFails \/ TcpDropPacket \/ TcpAcceptPacket \/ TcpRepeatAck

TcpNext == TcpClient \/ TcpServer

TcpSpec == TcpInit /\ [][TcpNext]_tcpVars

(* As in GoBackN: no turn is skipped, and dropPacket() does not throw away *)
(* every packet of an endless sequence.                                    *)
TcpFairness ==
    /\ WF_tcpVars(TcpClient) /\ WF_tcpVars(TcpReceiveFails)
    /\ SF_tcpVars(TcpAcceptPacket) /\ SF_tcpVars(TcpRepeatAck)

TcpLiveSpec == TcpSpec /\ TcpFairness

-----------------------------------------------------------------------------
(* A client that ends its main loop leaves a complete output.txt: neither  *)
(* the end of a buffer nor the end of the file stops it early.  And        *)
(* getfilestream() is never asked for a file that it has closed, which     *)
(* would end the client with packets unacknowledged: behind the data there *)
(* is at most one empty packet (client.c:11-14,54-67,117,125-129).         *)
EndsComplete ==
    /\ client = "finished" => Len(written) >= NumChunks
    /\ ~(Sending /\ InputUsedUp)

(* With a server that can receive, the client finishes, unless it was held *)
(* up past a deadline, and the server ends after the client, although it   *)
(* has no exit but a failing call (client.c:117; server.c:45-72).          *)
BothEnd ==
    server = "running" ~>
        /\ client \in {"finished", "select_failed"}
        /\ server \in {"recv_failed", "send_failed"}
=============================================================================
