CONSTANTS
    IntBits = 4
    MaxPieces = 3
    MaxListPieces = 5
    MaxFailures = 1
    Texts <- MCTexts
SPECIFICATION FairSpec
CHECK_DEADLOCK FALSE
INVARIANTS
    SessionSound
    FormsInOrder
PROPERTY SessionEnds
