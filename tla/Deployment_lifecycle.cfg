SPECIFICATION Spec
CONSTANTS
    Deployments = {d1}
    Projects = {p1}
    Backends = {"ollama"}
    Models = {m1}
    Ports = {1}
    Clients = {c1}
    Workers = {w1, w2}
    Tasks = {t1, t2}
    Containers = {k1, k2, k3}
    ApiKinds = {"start", "stop", "restart", "delete", "logs"}
    GpuAvailable = FALSE
    ChildKills = TRUE
    MaxFaults = 1
    None = None
SYMMETRY Symmetry
INVARIANTS RunningHasContainer BuilderOwnsContainer OneBuilder
PROPERTIES RecordedContainerKept DeletedStaysDeleted
