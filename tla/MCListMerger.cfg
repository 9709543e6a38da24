\* Both sequence numbers are reused by both clients, with old packets and
\* acknowledgements still in the buffers.  The first file
\* is the shorter one: the merge stops at its end.
CONSTANTS
    Clients = {C1, C2}
    First = C1
    Second = C2
    Items1 = 4
    Items2 = 5
    NumItems <- ItemsOf
    Cap = 4
SPECIFICATION LiveSpec
INVARIANTS
    MergedInTurn
PROPERTIES
    BothAreStopAndWait
    EverythingMerged
\* The server waits for ever for the client that has ended.
CHECK_DEADLOCK FALSE
