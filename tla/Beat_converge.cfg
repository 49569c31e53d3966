SPECIFICATION BeatSpec
CONSTANTS
    Deployments = {d1}
    Projects = {p1}
    Backends = {"vllm"}
    Models = {m1}
    Ports = {1}
    Clients = {c1}
    Workers = {w1, w2}
    Tasks = {t1, t2}
    Containers = {k1, k2}
    ApiKinds = {"stop", "delete"}
    GpuAvailable = TRUE
    ChildKills = FALSE
    MaxFaults = 1
    None = None
    Providers = {1, 2}
    Urls = {u1, u2}
    Sweepers = {s1}
    Checkers = {q1}
    MaxTurns = 3
PROPERTIES PollConverges  HealthSettles
