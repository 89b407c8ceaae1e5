SPECIFICATION MCSpec
CONSTANTS
    g = g
    h = h
    o1 = o1
    o2 = o2
    o3 = o3
    ar = ar
    br = br
    t1 = t1
    c1 = c1
    c2 = c2
    dict = dict
    k1 = k1
    k2 = k2
    Null = Null
    Var <- MCVar
    Obj <- MCObj
    BaseVar = {h}
    HandlerOps = 2
    MaxTerms = 1
    MaxLost = 1
INVARIANTS CountsSound OnlyCyclesLeak ArraysSound CollectionsRight StringsRight ListingSound
PROPERTIES RefinesTable EverythingEnds
CHECK_DEADLOCK FALSE
