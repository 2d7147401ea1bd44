CONSTANTS
    Stream = {1, 2}
    MaxFrames = 3
    MaxPayload = 2
    HeaderSize = 2
    ReadAhead = TRUE
    Modes <- MCPlain
SPECIFICATION Spec
INVARIANTS ConsumesAll
\* The container's output comes to an end.
CHECK_DEADLOCK FALSE
