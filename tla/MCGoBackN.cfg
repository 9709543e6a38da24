\* Seven chunks in buffers of four packets: a full buffer, one that holds three
\* chunks and an empty packet, and the empty one behind it.  The window slides
\* over each of its three slots three times, and eleven packets are sent.
CONSTANTS
    WINDOW_SIZE = 3
    PacketsPerBuffer = 4
    NumChunks = 7
    LateReturns = {FALSE, TRUE}
    Cap = 5
SPECIFICATION LiveSpec
INVARIANTS
    TypeOK
    ResendsWhatWasSent
    DeathAfterDelivery
    Agreement
PROPERTIES
    ImplementsTransfer
    EverythingWritten
\* The client ends, and the server then waits for ever.
CHECK_DEADLOCK FALSE
