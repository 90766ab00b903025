\* Callers of every kind, a writer that may fail.
SPECIFICATION Spec
CONSTANTS
    FlushThreshold = 3
    WriterFails = TRUE
    Callers = {"careful", "careless", "persistent"}
    MaxCalls <- CallsOf
INVARIANTS
    TypeOK
    Lockstep
    OutputIsAccepted
    WireIsPrefix
    NothingIsLost
    FinishedIsDocument
PROPERTIES
    ImplementsEventSink
\* A stopped or finished sink takes no more calls.
CHECK_DEADLOCK FALSE
