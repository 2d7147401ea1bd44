CONSTANTS
    OtherClients = FALSE
    Faults = FALSE
    MaxRestarts = 0
SPECIFICATION RunSpec
INVARIANTS NonZeroRaisesContainerError
CHECK_DEADLOCK FALSE
