\* Every release that two edits of nine declarations lead to, but for a wire
\* name that is given to another field, flatten switched on or off.
SPECIFICATION Releases
CONSTANTS
    Shipped <- BaseTypes
    Allowed = {"retype", "rename", "alias", "default", "skip", "skipIf", "policy", "remove",
               "add", "deny", "depth", "variant", "repr", "transparent"}
    Widths = {"i8", "u8", "u16", "i128", "u128"}
    MaxEdits = 2
    HardDepthCap = 3
INVARIANTS
    RoundTrips
    BackwardIsSound
    ForwardIsSound
    AcceptedIsValid
    DepthIsEnforced
    PoliciesAreEnforced
    SchemaAcceptsWritten
\* The edits come to an end.
CHECK_DEADLOCK FALSE
