\* Two threads with a client and a Service object each, one of an old API, and others.
CONSTANTS
    Thread = {t1, t2}
    Object = {t1, t2}
    Obj <- MCOwn
    Plain = {}
    Value <- MCValue
    None = None
    Request <- MCModeRequest
    Replicas = {"b"}
    Initial <- MCOld
    Modern = {t1}
    MaxVersion = 2
    MaxForce = 2
SPECIFICATION Spec
CONSTRAINT Bounded
PROPERTIES Implements NoLostUpdate ForceTakesEffect RetryNotApplied ScaleKeepsGlobal
CHECK_DEADLOCK FALSE
