CONSTANTS
    Names = {a}
    NULL = NULL
    nil = nil
    T = T
    MaxDepth = 2
    MaxLeaked = 1
    MaxEnvList = 1
SPECIFICATION Spec
INVARIANTS
    StopsOnError
