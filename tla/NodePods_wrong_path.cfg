SPECIFICATION Spec
CONSTANTS
    None = None
    Hosts = {h1}
    Paths = {p}
    Origins = {a, b}
    Local = {}
    ExposeTo <- NothingExposed
    ReadOnly = {}
    ManyWriters = {}
    OwnerOf <- OwnMachine
    Threads = {t1}
    Handlers = {t1}
    LeaseLoop = t1
    InitialTrees <- SomeTrees
    Jobs = {"mount", "unmount", "dispatch", "lease"}
    FaultKinds = {"link"}
    MaxGen = 2
    MaxPods = 2
    MaxFaults = 1
VIEW Seen
INVARIANTS
    NeverAWrongPath
