SPECIFICATION Spec
CONSTANTS
    None = None
    Hosts = {h1, h2}
    Paths = {p}
    Origins = {a}
    Local = {}
    ExposeTo <- NothingExposed
    ReadOnly = {}
    ManyWriters = {}
    OwnerOf <- OwnMachine
    Threads = {t1, t2}
    Handlers = {t1, t2}
    LeaseLoop = t1
    InitialTrees <- SomeTrees
    Jobs = {"mount", "add", "drop"}
    FaultKinds = {}
    MaxGen = 1
    MaxPods = 4
    MaxFaults = 0
SYMMETRY BothSymmetry
VIEW Seen
INVARIANTS
    SplitOnlyByStop
    TypeOK
