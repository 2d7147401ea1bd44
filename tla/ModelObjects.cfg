CONSTANTS
    Kind = {"container", "network", "volume", "image", "secret", "config", "node", "plugin"}
    Id = {i1, i2, i3}
    Name = {a, b}
    MaxCalls = 2
    MaxOthers = 2
SPECIFICATION Spec
INVARIANTS ListIsRight NotFoundIsGone CreateReturnsOwn
PROPERTIES SameObject
CHECK_DEADLOCK FALSE
