\* Each of the two servers, with two clients that type up to three lines of up to
\* two bytes, in a buffer of three.  There may be no process for the second child.
CONSTANTS
    Clients = {C1, C2}
    BUFFERSIZE = 3
    FreeProcesses = {1, 2}
    MaxMessages = 3
SPECIFICATION ForkLiveSpec
INVARIANTS
    ForkTypeOK
    EchoKeepsOlder
    AnswersTheirClient
PROPERTIES
    EveryoneAnswered
    EchoChildrenEnd
\* The users may stop typing, and a client that has sent an empty line waits for
\* ever.
CHECK_DEADLOCK FALSE
