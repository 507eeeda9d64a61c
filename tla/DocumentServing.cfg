SPECIFICATION Spec
CONSTANTS
    None = None
    Startup = Startup
    Nodes <- MCNodes
    Types <- MCTypes
    Worlds <- MCWorlds
    Library <- MCLibrary
    Callers = {r1, r2}
    MaxLookups = 2
INVARIANTS
    InlineIsExact
    DanglingOnlyByDeclaration
    FieldsFollowBindings
    OneSchemaPerName
    ServedIsRegistered
CHECK_DEADLOCK FALSE
