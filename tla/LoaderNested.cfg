SPECIFICATION FairSpec
CONSTANTS
    c1 = c1
    c2 = c2
    c3 = c3
    c4 = c4
    l1 = l1
    l2 = l2
    None = None
    Calls = {c1, c2, c3, c4}
    Loaders = {l1, l2}
    Keys = {k1}
    Built = {l1, l2}
    Caller <- TwoNested
    MayCall <- Ordered
PROPERTIES
    EveryCallReturns
