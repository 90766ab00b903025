\* Lists of untagged enums in bencode.
SPECIFICATION Spec
CONSTANTS
    MaxDepth = 2
    Chunk = 2
    SharedLimit = 2
    Shape <- Types
    Inputs <- UntaggedElements
INVARIANTS
    ValueIsDocument
\* A decoding that ended is over.
CHECK_DEADLOCK FALSE
