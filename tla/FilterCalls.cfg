SPECIFICATION Spec
CONSTANTS
    Nil = Nil
    Resources <- MCResources
    Keys <- MCKeys
    Quants <- MCQuants
    Fields <- MCFields
    Ops <- MCOps
    Edges <- MCEdges
    Columns <- MCColumns
    DefaultLimits <- MCDefaults
    Inputs <- MCInputs
INVARIANTS
    TypeOK
    VerdictIsRight
    FirstFaultWins
    ResolvedMirrorsFilter
    WorkIsBounded
    EchoIsBounded
