CONSTANTS
    Base = 2
    Default = 1
    Timeout = {0, 2}
    StopTimeout = {1, 4}
    Api = {24, 30}
    None = None
    MaxCalls = 3
    MaxOthers = 3
SPECIFICATION Spec
INVARIANTS ExecIsWhole ClientOutlastsStop
PROPERTIES CallsConclude
CHECK_DEADLOCK FALSE
