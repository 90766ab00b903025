\* Every edit of the documents, a writer that may fail.
SPECIFICATION FairSpec
CONSTANTS
    MaxDepth = 2
    SinkFails = TRUE
    Inputs <- AllInputs
INVARIANTS
    SinkNeverRefuses
    DepthIsOpen
    RelaysTheDocument
PROPERTIES
    Terminates
\* A relay that ended is over.
CHECK_DEADLOCK FALSE
