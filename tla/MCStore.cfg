CONSTANTS
    Key = {k1, k2}
    Value = {x}
    None = None
    Dead = Dead
    MaxVersion = 2
    MaxDepth = 2
SPECIFICATION Spec
SYMMETRY Symmetry
CHECK_DEADLOCK FALSE
INVARIANTS LatestIsHistory RootsAreOfTheirVersion ViewsAreCommitted
PROPERTY ImplementsVersionedMap
