SPECIFICATION Spec
CONSTANTS
    None = None
    Startup = Startup
    Nodes <- MCNodes
    Types <- MCTypes
    Worlds <- Namesakes
    Library <- MCLibrary
    Callers = {r1, r2}
    MaxLookups = 2
INVARIANT NoComponentForTwoShapes
CHECK_DEADLOCK FALSE
