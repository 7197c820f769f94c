CONSTANTS
    IntBits = 5
    Precision = 3
    LastFinite = 27
    UnitsPerOne = 8
    Strings <- MCStrings
    Inputs <- MCInputs
SPECIFICATION Spec
CHECK_DEADLOCK FALSE
INVARIANTS
    ArithmeticExact
    FunctionsExact
    ComparisonsAgree
