SPECIFICATION Spec
CONSTANTS
    Pads = {p1}
    Keyboards = {b1}
    Pressable = {"y", "dpadUp", "share"}
    KeyboardKeys = {"F9"}
    Capacity = 2
INVARIANTS LayoutReleases
