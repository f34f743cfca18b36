SPECIFICATION FairSpec
CONSTANTS
    None = None
    Hosts = {h1}
    Paths = {p, q}
    Origins = {a, b}
    Local = {}
    ExposeTo <- NothingExposed
    ReadOnly = {}
    ManyWriters = {}
    OwnerOf <- OwnMachine
    Threads = {t1}
    Handlers = {t1}
    LeaseLoop = t1
    InitialTrees <- SomeTrees
    Jobs = {"mount", "unmount", "add", "lease", "dispatch", "views", "drop"}
    FaultKinds = {"link", "bind", "expire"}
    MaxGen = 2
    MaxPods = 2
    MaxFaults = 2

    
PROPERTIES
    CatchesUp
    
