SPECIFICATION Spec
CONSTANTS
    t1 = t1
    t2 = t2
    Thread = {t1}
    Directory <- MCDirectory
    Entries <- MCEntries
    Root <- MCRoot
    MayFail = {"a", "b", "top"}
    NoEntry = ""
    MAX_DIR_LEVEL = 5
    ClosesAlways = TRUE
    MayThrow = FALSE
CHECK_DEADLOCK FALSE
INVARIANTS PrintsOwnEntries
