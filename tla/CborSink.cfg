\* A caller that stops at the first error, a writer that may fail.
SPECIFICATION Spec
CONSTANTS
    FlushThreshold = 3
    WriterFails = TRUE
    Offered = {"word", "text", "nonfinite", "begin_array", "end_array",
               "begin_object", "object_key", "end_object"}
    Callers = {"careful"}
    MaxCalls = 8
INVARIANTS
    FinishedIsItem
PROPERTIES
    ImplementsEventSink
\* A stopped or finished sink takes no more calls.
CHECK_DEADLOCK FALSE
