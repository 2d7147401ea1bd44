CONSTANTS
    Use = {"events", "push", "pull", "build", "load"}
    Id = {a, b}
    None = None
    MaxSent = 3
    MaxOthers = 1
SPECIFICATION Spec
INVARIANTS ReadsFaithfully ResultIsTrue
PROPERTIES Implements CloseEnds
CHECK_DEADLOCK FALSE
