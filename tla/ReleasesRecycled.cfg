\* A field is renamed and its old name is given to a new, required one.
SPECIFICATION Releases
CONSTANTS
    Shipped <- PlainTypes
    Allowed = {"rename", "recycle"}
    Widths = {"i8", "u8"}
    MaxEdits = 2
    HardDepthCap = 4
INVARIANT BackwardIsSound
CHECK_DEADLOCK FALSE
