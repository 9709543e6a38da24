---------------------------- MODULE MCListMerger ----------------------------
(* Small instances of ListMerger for TLC: two clients, Items1 fields in the *)
(* file of the first and Items2 in that of the second.                      *)
EXTENDS ListMerger, TLC

CONSTANTS Items1, Items2

ItemsOf == First :> Items1 @@ Second :> Items2
=============================================================================
