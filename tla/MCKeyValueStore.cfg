\* Two children and four commands in all: a put, two dels and a get at the same
\* time or in turn, with three lines to begin with.
CONSTANTS
    Child = {c1, c2}
    k1 = k1
    k2 = k2
    v1 = v1
    v2 = v2
    Key = {k1, k2}
    Value = {v1, v2}
    None = None
    InitialLines <- Lines
    MAXPROC = 4
    MaxCommands = 4
SPECIFICATION Spec
INVARIANTS
    TypeOK
    SerialStore
    TempIsPrivate
    RefusedOnlyAfterBye
PROPERTY
    AnswersCurrent
SYMMETRY Symmetry
\* All children may have ended.
CHECK_DEADLOCK FALSE
