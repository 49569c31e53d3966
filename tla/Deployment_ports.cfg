SPECIFICATION Spec
CONSTANTS
    Deployments = {d1, d2, d3}
    Projects = {p1, p2}
    Backends = {"vllm"}
    Models = {m1}
    Ports = {1, 2}
    Clients = {c1, c2}
    Workers = {w1}
    Tasks = {t1}
    Containers = {k1, k2, k3}
    ApiKinds = {"delete"}
    GpuAvailable = TRUE
    ChildKills = FALSE
    MaxFaults = 1
    None = None
SYMMETRY Symmetry
INVARIANTS PortsDistinctPerOwner
