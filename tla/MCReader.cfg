CONSTANTS
    IntBits = 5
    Texts <- MCTexts
    Offered <- MCOffered
    MaxTokens = 7
    MaxCollections = 1
SPECIFICATION MCSpec
CHECK_DEADLOCK FALSE
INVARIANTS
    RootsHeld
    CellsKept
    ReadsTheLanguage
    PrintReadsBack
    IntegerValue
    TokensStable
