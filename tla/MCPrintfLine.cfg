SPECIFICATION Spec
CONSTANTS
    CharBits = 3
    ShortBits = 5
    IntBits = 7
    SizeBits = 7
    LongBits = 21
    MaxBits = 21
    IntMax = 63
    ConvertLength = 7
    BufSize = 8
    Uses <- MCUses
    Ints <- MCInts
    Stars <- MCStars
    Strings <- MCStrings
INVARIANT LineFits
