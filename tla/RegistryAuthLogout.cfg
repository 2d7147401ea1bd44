CONSTANTS
    Thread = {t1}
    Key <- Names
    HostOf <- Hosts
    Hub = "docker.io"
    HubUrl = "hub url"
    HubHost = "index.docker.io"
    Section = {"auths"}
    Disk <- AfterLogout
    Secret = {"new", "bad"}
    Logins <- SomeLogins
    MaxCalls = 2
    MaxEdits = 1
SPECIFICATION Spec
PROPERTIES NoDataIsReloaded
CHECK_DEADLOCK FALSE
