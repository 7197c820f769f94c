CONSTANTS
    TableCells = 4
    MaxCells = 4
    StackSlots = 2
    Ops <- AllOps
    MaxScopes = 1
    MaxOplines = 1
    MaxEnvList = 1
SPECIFICATION FairSpec
INVARIANTS
    TypeOK
    FreeCellsExact
    CollectionComplete
PROPERTIES
    ReclaimsOnlyGarbage
    ImplementsObjects
    AllocationReturns
