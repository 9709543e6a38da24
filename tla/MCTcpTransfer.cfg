\* Five chunks in buffers of three packets: a full buffer, one that ends with an
\* empty packet, and the empty one behind it.  Timeouts come at any moment, up
\* to three copies of a packet are under way at once.
CONSTANTS
    PacketsPerBuffer = 3
    NumChunks = 5
    Cap = 3
SPECIFICATION LiveSpec
INVARIANTS
    TypeOK
    ResendsUnacknowledged
PROPERTIES
    ImplementsTransfer
    EndsOrOverwritten
\* Both programs end.
CHECK_DEADLOCK FALSE
