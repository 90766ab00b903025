\* UBJSON arrays of one type, read as values of any type.
SPECIFICATION Spec
CONSTANTS
    MaxDepth = 2
    Chunk = 2
    SharedLimit = 2
    Shape <- Types
    Inputs <- TypedValues
INVARIANTS
    DocumentsAreAccepted
\* A decoding that ended is over.
CHECK_DEADLOCK FALSE
