\* Two threads that use one and the same Service object.
CONSTANTS
    Thread = {t1, t2}
    Object = {s}
    Obj <- MCShared
    Plain = {}
    Value <- MCValue
    None = None
    Request <- MCRequest
    Replicas = {"b"}
    Initial <- MCInitial
    Modern = {t1, t2}
    MaxVersion = 2
    MaxForce = 1
SPECIFICATION Spec
CONSTRAINT Bounded
PROPERTIES NoLostUpdate
CHECK_DEADLOCK FALSE
