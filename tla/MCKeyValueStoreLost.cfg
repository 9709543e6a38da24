\* The reply to a put, with a del at the same time.
CONSTANTS
    Child = {c1, c2}
    k1 = k1
    k2 = k2
    v1 = v1
    v2 = v2
    Key = {k1, k2}
    Value = {v1, v2}
    None = None
    InitialLines <- Lines
    MAXPROC = 4
    MaxCommands = 2
SPECIFICATION Spec
INVARIANT
    AddedPairsStay
CHECK_DEADLOCK FALSE
