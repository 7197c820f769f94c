CONSTANTS
    Names = {a, b}
    NULL = NULL
    nil = nil
    T = T
    MaxDepth = 4
    MaxLeaked = 1
    MaxEnvList = 2
SPECIFICATION FairSpec
INVARIANTS
    FramesSound
    EnvironmentMatches
    CallersListed
    LostOnlyAfterDrain
PROPERTIES
    UnwindingEnds
