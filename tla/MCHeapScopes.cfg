CONSTANTS
    TableCells = 4
    MaxCells = 8
    StackSlots = 1
    Ops <- ScopeOps
    MaxScopes = 2
    MaxOplines = 1
    MaxEnvList = 1
SPECIFICATION Spec
INVARIANTS
    NoDangling
    TakeNeverNull
    RootEnvironmentKept
