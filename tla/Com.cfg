SPECIFICATION MCSpec
CONSTANTS
    Object = {o1, o2}
    Var = {app, wb, ws}
    EventVar = {wb, ws}
    None = None
    Nothing = Nothing
    NUL = NUL
    StrVar = {s1, s2}
    VarVar = {v1, v2}
    RawVar = {p1}
    Texts <- MCTexts
    Type = {"I4", "R8"}
    MaxBlocks = 7
    MaxSteps = 4
    MaxSinks = 3
    MaxStatements = 4
    MaxDepth = 3
SYMMETRY Symmetric
INVARIANTS CountsSound EventsRight OneOwner ValuesKept
CHECK_DEADLOCK FALSE
