----------------------------- MODULE ListMerger -----------------------------
(***************************************************************************)
(* The list merger of Practice - 2023: server.c takes one field from the   *)
(* first client and one from the second in turn, and writes them to        *)
(* list.txt.  It reads only the socket of the client whose turn it is, so  *)
(* the packets of the other one wait in their buffer and are sent again    *)
(* and again meanwhile.                                                    *)
(***************************************************************************)
EXTENDS FileSenders

CONSTANTS First,    \* the client of PORT1
          Second    \* the client of PORT2

ASSUME ClientsAssumption == First # Second /\ Clients = {First, Second}

VARIABLES sstate,    \* state of the server's switch, 0 to 3
          written    \* history: the fields written to list.txt

vars == <<senderVars, sstate, written>>

TypeOK ==
    /\ SenderTypeOK
    /\ sstate \in 0..3
    /\ written \in Seq([from : Clients, item : Nat])

Init == SenderInit /\ sstate = 0 /\ written = <<>>

(* Whose turn it is, and the number the server waits for from it. *)
Served == IF sstate \in {0, 2} THEN First ELSE Second
expected_seq == sstate \div 2

(* Plausible bug: the states are taken in the order of the comment at the  *)
(* top of server.c, the first client's two before the second client's.     *)
NextStateAfterComment == (sstate + 2) % 4

server_next_state == (sstate + 1) % 4

Receiving ==
    /\ Readable(dataQ[Served])
    /\ dataQ' = [dataQ EXCEPT ![Served] = Tail(@)]
    /\ UNCHANGED clientVars

(* dropPacket() throws the packet away. *)
DropPacket == Receiving /\ UNCHANGED <<ackQ, sstate, written>>

Acknowledge(seq) == ackQ' = [ackQ EXCEPT ![Served] = SendTo(@, seq)]

(* Plausible bug: a packet is written whatever its number. *)
IsExpectedAlways(p) == TRUE

IsExpected(p) == p.seq_no = expected_seq

(* The packet expected: acknowledged and written; it is the other client's *)
(* turn.                                                                   *)
AcceptPacket ==
    /\ Receiving
    /\ LET p == Head(dataQ[Served]) IN
          /\ IsExpected(p)
          /\ Acknowledge(p.seq_no)
          /\ written' = Append(written, [from |-> Served, item |-> p.data])
    /\ sstate' = server_next_state

(* A packet written in an earlier turn: acknowledged again. *)
ReacknowledgeOld ==
    /\ Receiving
    /\ LET p == Head(dataQ[Served]) IN ~IsExpected(p) /\ Acknowledge(p.seq_no)
    /\ UNCHANGED <<sstate, written>>

Server == DropPacket \/ AcceptPacket \/ ReacknowledgeOld

(* completed is never set: the server has no last step. *)
Next ==
    \/ \E c \in Clients : Sender(c) /\ UNCHANGED <<sstate, written>>
    \/ Server

Spec == Init /\ [][Next]_vars

(* dropPacket() is an independent draw with probability PDR < 1, so it     *)
(* does not throw away every packet of an endless sequence.                *)
Fairness ==
    /\ \A c \in Clients : SenderFairness(c)
    /\ SF_vars(AcceptPacket) /\ SF_vars(ReacknowledgeOld)

LiveSpec == Spec /\ Fairness

-----------------------------------------------------------------------------
(* How many fields of a client are written. *)
WrittenFrom(c) == IF c = First THEN (Len(written) + 1) \div 2 ELSE Len(written) \div 2

(* list.txt takes the fields of the two files in turn, each file in its    *)
(* order, nothing twice and nothing left out, although the packets of both *)
(* carry the same two numbers and pile up while the other client is served *)
(* (server.c:61-110,127-172).                                              *)
MergedInTurn ==
    \A i \in 1..Len(written) :
        written[i] = [from |-> IF i % 2 = 1 THEN First ELSE Second,
                      item |-> (i + 1) \div 2]

(* The fields that have a turn are all written: each file up to the end of *)
(* the shorter one, and one more of the first file if that is the longer.  *)
(* The client of the shorter file, or each of two equal ones, exits.  The  *)
(* rest of the longer file is not written: the server waits for ever for   *)
(* the client that has exited, and the other is left resending             *)
(* (server.c:59,75,135; client-2.c:179-183).                               *)
MergedLength ==
    IF NumItems[First] <= NumItems[Second]
    THEN 2 * NumItems[First] ELSE 2 * NumItems[Second] + 1
Shortest(c) == \A d \in Clients : NumItems[c] <= NumItems[d]
EverythingMerged ==
    <>[](Len(written) = MergedLength /\ \A c \in Clients : Shortest(c) => ~running[c])

-----------------------------------------------------------------------------
(* Each client and the server's part for it are a stop-and-wait pair of    *)
(* their own, whatever the other client does.  The pair's server waits for *)
(* the number after the one it took last from this client.                 *)
PairPacket(p) == [sq |-> p.seq_no, data |-> p.data]
PairPackets(c) == [i \in 1..Len(dataQ[c]) |-> PairPacket(dataQ[c][i])]
PairBit(c) == WrittenFrom(c) % 2
PairSent(c) == [i \in 1..itemsRead[c] |-> i]
PairDelivered(c) ==
    [i \in 1..WrittenFrom(c) |-> written[IF c = First THEN 2 * i - 1 ELSE 2 * i].item]

FirstPair == INSTANCE StopAndWait
    WITH Message <- 0..NumItems[First], MaxMessages <- NumItems[First],
         cstate <- state[First], sendPkt <- PairPacket(pkt[First]),
         sstate <- PairBit(First), dataQ <- PairPackets(First),
         ackQ <- ackQ[First], sent <- PairSent(First),
         delivered <- PairDelivered(First)

SecondPair == INSTANCE StopAndWait
    WITH Message <- 0..NumItems[Second], MaxMessages <- NumItems[Second],
         cstate <- state[Second], sendPkt <- PairPacket(pkt[Second]),
         sstate <- PairBit(Second), dataQ <- PairPackets(Second),
         ackQ <- ackQ[Second], sent <- PairSent(Second),
         delivered <- PairDelivered(Second)

(* Every step of the three programs is, for the first client and the       *)
(* server, a step of the stop-and-wait pair of lab6 or nothing; and for    *)
(* the second one (server.c:59-189, client-2.c:162-438).                   *)
BothAreStopAndWait == FirstPair!Spec /\ SecondPair!Spec
=============================================================================
