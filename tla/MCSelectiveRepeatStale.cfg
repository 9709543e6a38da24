\* The comment at the client's sliding loop, with a packet that is under way for
\* longer than the timeout.
CONSTANTS
    WINDOW_SIZE = 2
    MAX_SEQ_NO = 9
    NumPackets = 4
    MaxEarly = 1
    Cap = 2
SPECIFICATION Spec
INVARIANT
    NothingSkipped
CHECK_DEADLOCK FALSE
