SPECIFICATION Spec
CONSTANTS
    None = None
    Hosts = {h1, h2}
    Paths = {p}
    Origins = {a, b}
    Local = {}
    ExposeTo <- NothingExposed
    ReadOnly = {}
    ManyWriters = {}
    OwnerOf <- OwnMachine
    Threads = {t1}
    Handlers = {t1}
    LeaseLoop = t1
    InitialTrees <- SomeTrees
    Jobs = {"mount", "unmount", "dispatch", "add", "drop", "views", "lease"}
    FaultKinds = {"refuse", "bind", "unbind", "expire"}
    MaxGen = 2
    MaxPods = 3
    MaxFaults = 1
SYMMETRY HostSymmetry
VIEW Seen
INVARIANTS
    OneWriter
