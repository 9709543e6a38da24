------------------------------ MODULE MCGoBackN ------------------------------
(* Small instances of GoBackN for TLC; the constants are in the .cfg files. *)
EXTENDS GoBackN
=============================================================================
