SPECIFICATION Spec
CONSTANTS
    None = None
    IntHalf = 32768
    Resources <- MCResources
    Keys <- MCKeys
    KeyOrder <- MCKeyOrder
    Inputs <- WideCalls
INVARIANTS
    CostIsCapped
