CONSTANTS
    OtherClients = TRUE
    Faults = TRUE
    MaxRestarts = 2
SPECIFICATION FairRunSpec
INVARIANTS MadeOnce ResultTellsExit NotLeftBehind
PROPERTIES RunEnds
CHECK_DEADLOCK FALSE
