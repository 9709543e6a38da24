\* The comment at the client's sending loop, with a file of more packets than
\* there are sequence numbers; as in the code, the window does not divide their
\* count.
CONSTANTS
    WINDOW_SIZE = 2
    MAX_SEQ_NO = 6
    NumPackets = 10
    MaxEarly = 0
    Cap = 3
SPECIFICATION Spec
INVARIANT
    WindowRespected
CHECK_DEADLOCK FALSE
