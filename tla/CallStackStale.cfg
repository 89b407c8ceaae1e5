SPECIFICATION Spec
CONSTANTS
    t1 = t1
    t2 = t2
    Thread = {t1}
    Main = t1
    Func = {f, g}
    Line = {1}
    MaxDepth = 2
    CatchesCallee = {t1}
CHECK_DEADLOCK FALSE
SYMMETRY Symmetric
INVARIANTS ReportRight
