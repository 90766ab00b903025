\* Every reader, every edit of the documents.
SPECIFICATION FairSpec
CONSTANTS
    MaxDepth = 2
    Chunk = 2
    SharedLimit = 2
    Shape <- Types
    Inputs <- AllInputs
INVARIANTS
    TypeOK
    DepthIsOpen
    FramesAreContainers
    AcceptsExactly
    ValueIsDocument
PROPERTIES
    Terminates
\* A decoding that ended is over.
CHECK_DEADLOCK FALSE
