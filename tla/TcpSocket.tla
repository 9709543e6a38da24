------------------------------ MODULE TcpSocket ------------------------------
(***************************************************************************)
(* A TCP connection on the loopback interface, as the programs of this     *)
(* repository use it: a queue of messages in each direction, in which      *)
(* nothing is lost, and what the end of a client does to the server's      *)
(* calls.  The messages are small; each is received as it was sent.        *)
(***************************************************************************)
EXTENDS Naturals, Sequences

(* The connection as the server sees it: "fin" when the client has closed  *)
(* it; "fin_reset" when the client's side has then answered a send() with  *)
(* a reset; "reset" when the client ended with messages unread.            *)
Connection == {"open", "fin", "fin_reset", "reset"}

(* A client ends with toClient in its receive buffer. *)
AfterClose(toClient) == IF toClient = <<>> THEN "fin" ELSE "reset"

(* recv() of the server, when nothing is left to receive: it returns 0     *)
(* after a FIN, whatever came later, and fails after a reset.              *)
ReturnsZero(q, connection) == q = <<>> /\ connection \in {"fin", "fin_reset"}
RecvFails(q, connection) == q = <<>> /\ connection = "reset"

(* send() of the server to a client that has gone: the first one after a   *)
(* FIN is lost and provokes a reset, after a reset it fails or its signal  *)
(* SIGPIPE ends the program.                                               *)
SendFails(connection) == connection \in {"fin_reset", "reset"}
AfterSend(connection) == IF connection = "fin" THEN "fin_reset" ELSE connection
Arrives(connection) == connection = "open"
=============================================================================
