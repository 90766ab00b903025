\* A stream whose input holds whitespace.
SPECIFICATION Spec
CONSTANTS
    MaxDepth = 2
    Chunk = 2
    SharedLimit = 2
    Shape <- Types
    Inputs <- StreamedBlanks
INVARIANTS
    JsonIsAccepted
\* A decoding that ended is over.
CHECK_DEADLOCK FALSE
