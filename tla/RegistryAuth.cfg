CONSTANTS
    Thread = {t1, t2}
    Key <- Names
    HostOf <- Hosts
    Hub = "docker.io"
    HubUrl = "hub url"
    HubHost = "index.docker.io"
    Section = {"auths"}
    Disk <- Disks
    Secret = {"new", "bad"}
    Logins <- SomeLogins
    MaxCalls = 3
    MaxEdits = 1
SPECIFICATION Spec
SYMMETRY Alike
INVARIANTS OwnCredentials NewestLoginUsed BuildSendsWhatPullSends
PROPERTIES LoadedWhenNeeded
CHECK_DEADLOCK FALSE
