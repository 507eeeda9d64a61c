SPECIFICATION Spec
CONSTANTS
    None = None
    IntHalf = 536870912
    Resources <- MCResources
    Keys <- MCKeys
    KeyOrder <- MCKeyOrder
    Inputs <- RequiredCalls
INVARIANTS
    RequiredAlwaysPlanned
