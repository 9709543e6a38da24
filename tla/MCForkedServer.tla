--------------------------- MODULE MCForkedServer ---------------------------
(* Small instances of ForkedServer for TLC; the constants are in the .cfg.  *)
EXTENDS ForkedServer
=============================================================================
