SPECIFICATION LifeFairSpec
CONSTANTS
    t1 = t1
    t2 = t2
    x = x
    y = y
    Thread = {t1, t2}
    Main = t1
    Func = {f, g}
    Line = {1}
    MaxDepth = 2
    CatchesCallee = {t2}
    Lib = {x, y}
    Present = {x, y}
    Declares <- MCDeclares
    GUI = TRUE
CHECK_DEADLOCK FALSE
INVARIANTS NoUnderflow Exact OwnReportRight CallsLand FinalizedBackwards
PROPERTIES UncaughtEnds
