SPECIFICATION Spec
CONSTANTS
    None = None
    Hosts = {h1}
    Paths = {p, q}
    Origins = {a, b, l}
    Local = {l}
    ExposeTo <- AllExposed
    ReadOnly = {b}
    ManyWriters = {a}
    OwnerOf <- OneMachine
    Threads = {t1}
    Handlers = {t1}
    LeaseLoop = t1
    InitialTrees <- SomeTrees
    Jobs = {"mount", "unmount", "dispatch", "add", "drop", "views", "lease"}
    FaultKinds = {"link", "midway", "refuse", "bind", "expire"}
    MaxGen = 3
    MaxPods = 2
    MaxFaults = 2
VIEW Seen
INVARIANTS
    GenerationMeansTree
