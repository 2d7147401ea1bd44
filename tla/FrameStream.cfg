CONSTANTS
    Stream = {0, 1, 2}
    MaxFrames = 3
    MaxPayload = 2
    HeaderSize = 2
    ReadAhead = FALSE
    Modes <- MCModes
SPECIFICATION FairSpec
INVARIANTS EndsRightly
PROPERTIES InOrder Prompt Terminates
\* The container's output comes to an end.
CHECK_DEADLOCK FALSE
