\* Volumes only, and nobody else: one of them is beyond the reach of its driver.
CONSTANTS
    Kind = {"volume"}
    Id = {i1, i2, i3}
    Name = {a, b}
    MaxCalls = 2
    MaxOthers = 0
SPECIFICATION Spec
INVARIANT ForceRemoves
CHECK_DEADLOCK FALSE
