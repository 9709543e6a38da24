\* Three slots, an odd number as in the code, so that a slot changes from one
\* relay to the other when it is reused; seven packets, so that the first slot
\* is used three times.  One timeout comes while packets are under way, at any
\* moment; the others mean a loss.  A burst of the window fits into the two
\* receive buffers, two bursts do not.  The numbers do not wrap around.
CONSTANTS
    WINDOW_SIZE = 3
    MAX_SEQ_NO = 12
    NumPackets = 7
    MaxEarly = 1
    Cap = 2
SPECIFICATION LiveSpec
INVARIANTS
    TypeOK
    WrittenOnce
    OrderWithinWindow
    AcksTruthful
    SlidesOverWritten
    AgreeAtRest
PROPERTY
    Terminates
\* The client ends, and the relays and the server then wait for ever.
CHECK_DEADLOCK FALSE
