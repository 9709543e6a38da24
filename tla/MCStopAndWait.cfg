\* Two different messages and five rounds: both sequence numbers are reused
\* twice, with packets and acknowledgements of earlier rounds still around.  No
\* symmetry between the messages, because of the temporal properties.
CONSTANTS
    Message = {m1, m2}
    MaxMessages = 5
    Cap = 3
SPECIFICATION LiveSpec
INVARIANTS
    TypeOK
    Agreement
PROPERTIES
    ImplementsTransfer
    ImplementsLiveTransfer
\* The user may stop typing.
CHECK_DEADLOCK FALSE
