CONSTANTS
    Path <- MCPath
    Dir = {"a"}
    Link = {"l"}
    Sockets = {"s"}
    Dockerfile = "Dockerfile"
    Dockerignore = ".dockerignore"
    Temp = ".dockerfile"
    Begins <- MCBegins
    Trees <- MCTrees
    Ignores <- MCIgnores
    Dockerfiles <- MCDockerfiles
    MaxOthers = 1
SPECIFICATION BuildSpec
INVARIANTS OneEntryEach SendsWhatIsNotIgnored NeededIsSent
CHECK_DEADLOCK FALSE
