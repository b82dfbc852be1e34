SPECIFICATION Spec
CONSTANTS
    Base = 4
    KeyLen = 2
    SigLen = 3
    KeySpare = 2
    SigSpare = 2
    Caller = {c1, c2}
    Generator <- Generators
    Version = {0, 1}
    Prefix <- OnlyV1
    Far = c1
    Damage <- OneEdit
INVARIANTS RoundTrip  NoMapRace
CHECK_DEADLOCK FALSE
