SPECIFICATION Spec
CONSTANTS
    None = None
    IntHalf = 536870912
    Resources <- MCResources
    Keys <- MCKeys
    KeyOrder <- MCKeyOrder
    Inputs <- AllCalls
INVARIANTS
    TypeOK
    PlanIsWhatWasAsked
    VerdictIsRight
    ExcludeIsExact
    SchemaMirrorsPlan
    PublishedPathsAreServed
PROPERTIES
    Returns
