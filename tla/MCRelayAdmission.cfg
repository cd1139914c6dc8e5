CONSTANTS
    r1 = r1
    r2 = r2
    r3 = r3
    b1 = b1
    b2 = b2
    k1 = k1
    k2 = k2
    Interactive <- MCInteractive
    Background <- MCBackground
    Keys <- MCKeys
    KeyOf <- MCKeyOf
    Slots = 1
    Places = 2
    Room = 2
    BackgroundRoom = 1
SPECIFICATION Spec
INVARIANTS
    NothingLeaks
    TurnIsTheHeads
PROPERTIES
    EveryRequestEnds
