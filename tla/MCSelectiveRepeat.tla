-------------------------- MODULE MCSelectiveRepeat --------------------------
(* Small instances of SelectiveRepeat for TLC; the constants are in the     *)
(* .cfg files.                                                              *)
EXTENDS SelectiveRepeat
=============================================================================
