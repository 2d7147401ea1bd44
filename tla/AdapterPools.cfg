CONSTANTS
    Thread = {t1, t2}
    Closer = {t2}
    Url = {u1, u2, u3}
    PoolId = {p1, p2, p3, p4, p5}
    NumPools = 2
    Ssh = TRUE
    Drops = TRUE
    None = None
SPECIFICATION FairSpec
INVARIANTS PoolsAccountedFor RefusedUnderPressure
PROPERTIES Releases
