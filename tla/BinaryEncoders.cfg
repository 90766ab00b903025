\* Every order of calls on the checked encoders, every document on the others.
SPECIFICATION Spec
CONSTANTS
    Formats <- AllFormats
    AnyOrder <- Flattened
    Offered <- Writes
    MaxCalls = 12
    FlattenCalls = 8
    FixMax = 0
    U8Max = 1
    U16Max = 2
    U32Max = 3
    Payload = 1
    Width = 4
    DocumentMax = 11
INVARIANTS
    PlacesInBuffer
    CodecInStep
    EncodedIsDocument
    OuterIsKept
PROPERTIES
    RefusesTheInexpressible
    MembersInOrder
\* An encoding that ended is over.
CHECK_DEADLOCK FALSE
