--------------------------- MODULE MCFileTransfer ---------------------------
(* Small instances of FileTransfer for TLC: Items fields in the file. *)
EXTENDS FileTransfer, TLC

CONSTANT Items

ItemsOf == TheClient :> Items
=============================================================================
