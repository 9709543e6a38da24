----------------------------- MODULE FileSenders -----------------------------
(***************************************************************************)
(* The sending program that Lab10/client.c and the two clients of          *)
(* Practice - 2023 share: it sends the fields of a file one at a time with *)
(* the alternating sequence numbers 0 and 1, and exits at the end of the   *)
(* file.  Every client has its own socket, and the server one for each.    *)
(*                                                                         *)
(* The data of a packet is the position of the field in the file; an       *)
(* acknowledgement is its sequence number.                                 *)
(***************************************************************************)
EXTENDS UdpSocket

CONSTANTS Clients,
          NumItems   \* how many fields read_packet() finds in a client's file

ASSUME NumItemsAssumption == NumItems \in [Clients -> Nat]

VARIABLES running,     \* whether the client has not called exit()
          state,       \* state of the client's switch, 0 to 3
          itemsRead,   \* how many fields it has read
          pkt,         \* the packet, kept for retransmission
          dataQ,       \* receive buffer of the server's socket for the client
          ackQ         \* receive buffer of the client's socket

clientVars == <<running, state, itemsRead, pkt>>
senderVars == <<clientVars, dataQ, ackQ>>

Bit == {0, 1}
Packet == [seq_no : Bit, data : Nat]

SenderTypeOK ==
    /\ running \in [Clients -> BOOLEAN]
    /\ state \in [Clients -> 0..3]
    /\ itemsRead \in [Clients -> Nat]
    /\ \A c \in Clients : itemsRead[c] <= NumItems[c]
    /\ pkt \in [Clients -> Packet]
    /\ dataQ \in [Clients -> Seq(Packet)] /\ ackQ \in [Clients -> Seq(Bit)]
    /\ \A c \in Clients : Len(dataQ[c]) <= Cap /\ Len(ackQ[c]) <= Cap

(* pkt is not sent before read_packet() has filled it. *)
SenderInit ==
    /\ running = [c \in Clients |-> TRUE]
    /\ state = [c \in Clients |-> 0]
    /\ itemsRead = [c \in Clients |-> 0]
    /\ pkt = [c \in Clients |-> [seq_no |-> 0, data |-> 0]]
    /\ dataQ = [c \in Clients |-> <<>>] /\ ackQ = [c \in Clients |-> <<>>]

(* The next field goes out, numbered 0 in state 0 and 1 in state 2. *)
ReadPacket(c) ==
    /\ running[c] /\ state[c] \in {0, 2}
    /\ itemsRead[c] < NumItems[c]
    /\ itemsRead' = [itemsRead EXCEPT ![c] = @ + 1]
    /\ pkt' = [pkt EXCEPT ![c] =
                  [seq_no |-> state[c] \div 2, data |-> itemsRead[c] + 1]]
    /\ dataQ' = [dataQ EXCEPT ![c] = SendTo(@, pkt'[c])]
    /\ state' = [state EXCEPT ![c] = @ + 1]
    /\ UNCHANGED <<running, ackQ>>

(* read_packet() finds no field: the client closes its file and exits. *)
EndOfFile(c) ==
    /\ running[c] /\ state[c] \in {0, 2}
    /\ itemsRead[c] = NumItems[c]
    /\ running' = [running EXCEPT ![c] = FALSE]
    /\ UNCHANGED <<state, itemsRead, pkt, dataQ, ackQ>>

Waiting(c) == running[c] /\ state[c] \in {1, 3}
ack_no(c) == (state[c] - 1) \div 2

(* Plausible bug: the state after 3 is 4. *)
next_stateNoWrap(c) == state[c] + 1

next_state(c) == (state[c] + 1) % 4

(* Plausible bug: any acknowledgement ends the wait. *)
HandleAnyAck(c) ==
    /\ Waiting(c) /\ Readable(ackQ[c])
    /\ ackQ' = [ackQ EXCEPT ![c] = Tail(@)]
    /\ state' = [state EXCEPT ![c] = next_state(c)]
    /\ UNCHANGED <<running, itemsRead, pkt, dataQ>>

(* The acknowledgement of the packet ends the wait, the other one does     *)
(* nothing.  The second test of the code (number 1 in state 3) never       *)
(* decides: the first one has caught that case.                            *)
HandleAck(c) ==
    /\ Waiting(c) /\ Readable(ackQ[c])
    /\ ackQ' = [ackQ EXCEPT ![c] = Tail(@)]
    /\ state' = [state EXCEPT ![c] =
                    IF Head(ackQ[c]) = ack_no(c) THEN next_state(c) ELSE @]
    /\ UNCHANGED <<running, itemsRead, pkt, dataQ>>

(* Plausible bug: the timeout sends nothing. *)
HandleTimeoutSilently(c) ==
    /\ Waiting(c) /\ ~Readable(ackQ[c])
    /\ UNCHANGED senderVars

(* select() reports nothing for TIMEOUT_SEC: the packet is sent again. *)
HandleTimeout(c) ==
    /\ Waiting(c) /\ ~Readable(ackQ[c])
    /\ dataQ' = [dataQ EXCEPT ![c] = SendTo(@, pkt[c])]
    /\ UNCHANGED <<clientVars, ackQ>>

Sender(c) == ReadPacket(c) \/ EndOfFile(c) \/ HandleAck(c) \/ HandleTimeout(c)

(* The loop of a client never skips a turn. *)
SenderFairness(c) ==
    /\ WF_senderVars(ReadPacket(c)) /\ WF_senderVars(EndOfFile(c))
    /\ WF_senderVars(HandleTimeout(c)) /\ SF_senderVars(HandleAck(c))

(* The client is in state 1 or 3: a packet is sent and not acknowledged. *)
Outstanding(c) == state[c] \in {1, 3}
=============================================================================
