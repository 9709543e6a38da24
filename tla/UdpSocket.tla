------------------------------ MODULE UdpSocket ------------------------------
(***************************************************************************)
(* The receive buffer of a UDP socket on the loopback interface, as the    *)
(* programs of this repository use it.  sendto() puts a datagram straight  *)
(* into the receiver's buffer, so the order of the datagrams of one sender *)
(* is kept; a buffer that is full loses the datagram without telling the   *)
(* sender; recvfrom() takes the oldest datagram, blocks on an empty        *)
(* buffer; and select() reports a timeout only when the buffer is empty.   *)
(***************************************************************************)
EXTENDS Naturals, Sequences

CONSTANT Cap   \* how many datagrams the receive buffer of a socket holds

ASSUME CapAssumption == Cap \in Nat \ {0}

(* sendto() of one datagram m to the socket whose buffer is q. *)
SendTo(q, m) == IF Len(q) < Cap THEN Append(q, m) ELSE q

(* sendto() of the datagrams ms, in order: those that find no room are lost. *)
SendAll(q, ms) ==
    LET room  == Cap - Len(q)
        fit   == IF Len(ms) <= room THEN Len(ms) ELSE room
    IN  q \o SubSeq(ms, 1, fit)

(* select() reports the socket readable. *)
Readable(q) == q # <<>>
=============================================================================
