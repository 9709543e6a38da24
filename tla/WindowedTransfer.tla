-------------------------- MODULE WindowedTransfer --------------------------
(***************************************************************************)
(* What every acknowledged transfer program of the repository promises,    *)
(* whatever it does about lost packets: the receiving program takes the    *)
(* items handed to the sending program one by one and in their order, the  *)
(* sending program learns of it later, and it never has more than Window   *)
(* items it does not yet know to have arrived.  Window is 1 for the        *)
(* stop-and-wait programs and WINDOW_SIZE for Go-Back-N.                   *)
(***************************************************************************)
EXTENDS Naturals, Sequences

CONSTANTS Data,     \* the items that can be transferred
          Window    \* how many items may be outstanding

VARIABLES submitted,   \* the items handed to the sending program, in order
          delivered,   \* the items the receiving program took, in order
          confirmed    \* how many items the sending program knows delivered

absVars == <<submitted, delivered, confirmed>>

Init == submitted = <<>> /\ delivered = <<>> /\ confirmed = 0

(* The sending program takes a new item: only when its window has room. *)
Submit ==
    /\ Len(submitted) < confirmed + Window
    /\ \E d \in Data : submitted' = Append(submitted, d)
    /\ UNCHANGED <<delivered, confirmed>>

(* The receiving program takes the next item: never another, never twice. *)
Deliver ==
    /\ Len(delivered) < Len(submitted)
    /\ delivered' = Append(delivered, submitted[Len(delivered) + 1])
    /\ UNCHANGED <<submitted, confirmed>>

(* The sending program learns that more items were delivered. *)
Confirm ==
    /\ \E n \in confirmed + 1 .. Len(delivered) : confirmed' = n
    /\ UNCHANGED <<submitted, delivered>>

Next == Submit \/ Deliver \/ Confirm

Spec == Init /\ [][Next]_absVars

LiveSpec == Spec /\ WF_absVars(Deliver) /\ WF_absVars(Confirm)
=============================================================================
