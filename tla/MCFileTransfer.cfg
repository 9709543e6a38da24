\* Both sequence numbers are used four times; the server can be restarted in
\* every state, any number of times.
CONSTANTS
    Clients = {C1}
    TheClient = C1
    Items = 8
    NumItems <- ItemsOf
    Cap = 4
SPECIFICATION LiveSpec
INVARIANTS
    TypeOK
PROPERTIES
    ImplementsTransfer
    Terminates
