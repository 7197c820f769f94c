CONSTANTS
    MaxSlot = 2
    MaxTurns = 2
    MaxOperands = 2
    MaxClauses = 3
    Programs <- MCPrograms
SPECIFICATION FairSpec
CHECK_DEADLOCK FALSE
INVARIANTS
    MemorySound
    Evaluates
    BindsInScope
PROPERTY FormEnds
