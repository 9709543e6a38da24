\* Eight chunks in buffers of four packets: the data ends with a buffer, so that
\* an empty packet follows.  Each of the three slots is used three times, and
\* the stream holds two bursts of the window.
CONSTANTS
    WINDOW_SIZE = 3
    PacketsPerBuffer = 4
    NumChunks = 8
    LateReturns = {FALSE, TRUE}
    Cap = 6
SPECIFICATION TcpLiveSpec
INVARIANTS
    EndsComplete
PROPERTIES
    ImplementsTransfer
    BothEnd
\* Both programs end.
CHECK_DEADLOCK FALSE
