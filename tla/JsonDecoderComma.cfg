\* A stream whose reads may end behind a comma.
SPECIFICATION Spec
CONSTANTS
    MaxDepth = 2
    Chunk = 2
    SharedLimit = 2
    Shape <- Types
    Inputs <- StreamedCommas
INVARIANTS
    AcceptedIsJson
\* A decoding that ended is over.
CHECK_DEADLOCK FALSE
