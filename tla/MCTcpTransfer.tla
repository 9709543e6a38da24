---------------------------- MODULE MCTcpTransfer ----------------------------
(* The instances of TcpTransfer for TLC take numbers only. *)
EXTENDS TcpTransfer
=============================================================================
