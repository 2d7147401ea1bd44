CONSTANTS
    Use = {"events"}
    Id = {a}
    None = None
    MaxSent = 1
    MaxOthers = 0
SPECIFICATION Spec
INVARIANT EventsRaise
CHECK_DEADLOCK FALSE
