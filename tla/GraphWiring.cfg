SPECIFICATION Spec
CONSTANTS
    NoTag = NoTag
    None = None
    Structs <- MCStructs
    Wires <- MCWires
    Unsafe <- MCUnsafe
    Scripts <- MCScripts
    Extras <- MCExtras
    MaxSlips = 1
    Raws <- MCRaws
INVARIANTS
    GraphIsServable
    NothingIsInert
    CyclesAreReported
    NeedsAreExact
    NoFalseAlarm
    ListingsMatchDocument
