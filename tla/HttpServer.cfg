SPECIFICATION FairSpec
CONSTANTS
    w1 = w1
    w2 = w2
    c1 = c1
    c2 = c2
    c3 = c3
    Worker = {w1, w2}
    Job = {c1, c2, c3}
    NoJob = NoJob
    Stopper = {}
    Difficult = {c1}
    Scripts <- MCScripts
    MaxCount = 2
    Chunks = 1
CHECK_DEADLOCK FALSE
INVARIANTS PoolSound AnswersSound ClosedOnce
PROPERTIES ServerEnds
