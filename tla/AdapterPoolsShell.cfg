CONSTANTS
    Thread = {t1, t2}
    Closer = {t2}
    Url = {u1, u2}
    PoolId = {p1, p2, p3, p4, p5}
    NumPools = 2
    Ssh = TRUE
    Drops = FALSE
    None = None
SPECIFICATION FairSpec
PROPERTIES NeverShellsOut
