SPECIFICATION Spec
CONSTANTS
    c1 = c1
    c2 = c2
    c3 = c3
    c4 = c4
    l1 = l1
    l2 = l2
    None = None
    Calls = {c1, c2, c3}
    Loaders = {l1, l2}
    Keys = {k1, k2}
    Built = {l1}
    Caller <- NoNesting
    MayCall <- NoCalls
INVARIANTS
    TypeOK
    SingleFlight
    WarmedIsKnown
    FailuresAreForgotten
    KnownIsServed
PROPERTIES
    SettledForever
    ImplementsRequestCache
