CONSTANTS
    a = a
    car = car
    Names = {a, car}
    Values = {1, 2, NULL}
    Buckets <- MCBuckets
    Hash <- MCHash
    StaticList <- MCStatic
    NULL = NULL
    Error = Error
    StaticFunction = StaticFunction
    MaxEnvironments = 3
SPECIFICATION FairSpec
INVARIANT TablesSound
PROPERTIES
    ImplementsBindings
    WalkEnds
