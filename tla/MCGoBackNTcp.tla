---------------------------- MODULE MCGoBackNTcp ----------------------------
(* The instances of GoBackNTcp for TLC take numbers only. *)
EXTENDS GoBackNTcp
=============================================================================
