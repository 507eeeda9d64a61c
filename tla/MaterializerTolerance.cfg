SPECIFICATION Spec
CONSTANTS
    a1 = a1  a2 = a2  b1 = b1  b2 = b2  b3 = b3
    Resources <- MCResources
    Rows <- MCRows
    Keys <- MCKeys
    KeyOrder <- MCKeyOrder
    Inputs <- Unasked
    None = None
    Null = Null
    NoId = NoId
    Absent = Absent
    MaxCalls = 1
    Repeatable = {}
    Cancellable = {}
    IntHalf = 1000000
INVARIANT ToleranceIsSilent
