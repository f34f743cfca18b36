SPECIFICATION Spec
CONSTANTS
    None = None
    Hosts = {h1}
    Paths = {p, q}
    Origins = {a, b}
    Local = {}
    ExposeTo <- NothingExposed
    ReadOnly = {}
    ManyWriters = {}
    OwnerOf <- OwnMachine
    Threads = {t1, t2}
    Handlers = {t1, t2}
    LeaseLoop = t1
    InitialTrees <- SomeTrees
    Jobs = {"mount", "add"}
    FaultKinds = {}
    MaxGen = 2
    MaxPods = 3
    MaxFaults = 2
VIEW Seen
INVARIANTS
    GenerationMeansTree
