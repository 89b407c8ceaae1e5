SPECIFICATION RaceSpec
CONSTANTS
    t1 = t1
    t2 = t2
    Null = Null
    Thread = {t1, t2}
    MAX_OPEN_FILES = 4
    Stream = {s1, s2, s3, s4}
    Literal <- MCLiteral
    UseFreeFile = FALSE
    ClosesAll = {}
    Deferred = TRUE
CHECK_DEADLOCK FALSE
INVARIANTS NumbersAreMine
