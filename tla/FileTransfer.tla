---------------------------- MODULE FileTransfer ----------------------------
(***************************************************************************)
(* The pair of Lab10: the sending program with one client, and server.c,   *)
(* which acknowledges every packet with the packet's own number and prints *)
(* it, also when it has it already.  server.sh kills a server that runs    *)
(* and starts a new one while the client goes on.                          *)
(***************************************************************************)
EXTENDS FileSenders

CONSTANT TheClient

ASSUME OneClientAssumption == Clients = {TheClient}

VARIABLES sstate,    \* state of the server's switch, 0 or 1
          printed    \* history: the fields printed, a repetition of the last
                     \* one left out

vars == <<senderVars, sstate, printed>>

TypeOK ==
    /\ SenderTypeOK
    /\ sstate \in Bit
    /\ printed \in Seq(Nat)

Init == SenderInit /\ sstate = 0 /\ printed = <<>>

Receiving == Readable(dataQ[TheClient]) /\ UNCHANGED clientVars

TakeHead == dataQ' = [dataQ EXCEPT ![TheClient] = Tail(@)]

(* dropPacket() throws the packet away. *)
DropPacket == Receiving /\ TakeHead /\ UNCHANGED <<ackQ, sstate, printed>>

Repeats(data) == Len(printed) > 0 /\ printed[Len(printed)] = data
Printed(p) == IF Repeats(p.data) THEN printed ELSE Append(printed, p.data)

(* Plausible bug: the acknowledgement carries the number the server waits  *)
(* for next.                                                               *)
AckNumberExpected(p) == (p.seq_no + 1) % 2

AckNumber(p) == p.seq_no

(* Every packet kept is printed and acknowledged; one with the number of   *)
(* the state changes the state.                                            *)
ReceivePacket ==
    /\ Receiving /\ TakeHead
    /\ LET p == Head(dataQ[TheClient]) IN
          /\ printed' = Printed(p)
          /\ sstate' = IF p.seq_no = sstate THEN (sstate + 1) % 2 ELSE sstate
          /\ ackQ' = [ackQ EXCEPT ![TheClient] = SendTo(@, AckNumber(p))]

(* server.sh: the server is killed with kill -9, and what is in its socket *)
(* is lost; so is what the client sends before the new one has bound the   *)
(* port, which is as if it had been in the socket.  The server may be      *)
(* killed while it waits, or when it has printed a packet and not yet      *)
(* acknowledged it.                                                        *)
Restart ==
    /\ \/ UNCHANGED printed
       \/ Readable(dataQ[TheClient]) /\ printed' = Printed(Head(dataQ[TheClient]))
    /\ sstate' = 0
    /\ dataQ' = [dataQ EXCEPT ![TheClient] = <<>>]
    /\ UNCHANGED <<clientVars, ackQ>>

Next ==
    \/ Sender(TheClient) /\ UNCHANGED <<sstate, printed>>
    \/ DropPacket \/ ReceivePacket \/ Restart

Spec == Init /\ [][Next]_vars

(* dropPacket() is an independent draw with probability PDR < 1, and       *)
(* nobody restarts the server before every packet it would receive.        *)
Fairness == SenderFairness(TheClient) /\ SF_vars(ReceivePacket)

LiveSpec == Spec /\ Fairness

-----------------------------------------------------------------------------
(* The client sends its whole file and exits. *)
Terminates == <>(~running[TheClient] /\ Len(printed) = NumItems[TheClient])

-----------------------------------------------------------------------------
Transfer == INSTANCE WindowedTransfer
    WITH Data <- 1..NumItems[TheClient], Window <- 1,
         submitted <- [i \in 1..itemsRead[TheClient] |-> i],
         delivered <- printed,
         confirmed <- IF Outstanding(TheClient)
                      THEN itemsRead[TheClient] - 1 ELSE itemsRead[TheClient]

(* The pair is a windowed transfer with a window of one field, the         *)
(* repeated prints and the restarts changing nothing of it: the fields are *)
(* printed in the order of the file with none left out, and the client     *)
(* goes on, or exits, only when all before have been printed.  The state   *)
(* the server loses when it is killed is not needed for it (client.c:70-80,*)
(* server.c:45-70, server.sh:10-16).                                       *)
ImplementsTransfer == Transfer!Spec
=============================================================================
