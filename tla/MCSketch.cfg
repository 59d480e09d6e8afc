SPECIFICATION Spec
CONSTANTS
    Pads = {p1, p2}
    Keyboards = {b1, b2}
    Pressable = {"y", "dpadUp"}
    KeyboardKeys = {"Up"}
    Capacity = 2
INVARIANTS
    TypeOK
    NoStuckKey
    NoMissedKey
