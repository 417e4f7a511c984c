SPECIFICATION Spec
CONSTANTS
    Base = 4
    LongLong = 2
    LetterB = 2
    NoDigit = 99
    Minus = 97
    Quote = 98
    Apostrophe = 96
    Colon = 95
    Space = 94
    Escape = 93
    Shown <- MCShown
    ReprOf <- MCReprOf
    LongDouble <- MCLongDouble
    InpSize = 10
    Generators = {"random", "klee", "afl", "crest", "cpatiger"}
    Memories <- MCMemories
    Values <- MCValues
    Rooms = {3, 4}
    Lines <- MCLines
    MaxValues = 2
    MaxLines = 3
INVARIANTS
    HarnessInv
    ValuesSurvive
    SameValues
\* The program ends.
CHECK_DEADLOCK FALSE
