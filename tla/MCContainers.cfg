CONSTANTS
    Values = {a, b}
    Garbage = Garbage
    InitialCapacity = 2
    MaxSize = 6
    Letter = letter
    Digit = digit
    Chars = {letter, digit}
    Junk = Junk
    Nul = Nul
    InitialSpace = 3
    MaxText = 9
    MaxLength = 13
    Texts <- MCTexts
    Numerals <- MCNumerals
    StackSize = 4
    MaxPush = 2
    MaxOffset = 2
    MaxDepth = 6
SPECIFICATION Spec
CHECK_DEADLOCK FALSE
INVARIANT StackSound
PROPERTIES
    ArrayIsSequence
    OverrunsOnly
    BufferIsSequence
