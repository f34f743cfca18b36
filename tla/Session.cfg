SPECIFICATION Spec
CONSTANTS
    None = None
    Pod = pod
    Machines = {pod, m1}
    Home = pod
    Movers = {t1}
    Clients = {c1, c2}
    First = c1
    Framed = {c1}
    FaultKinds = {"open", "gone", "down"}
    MaxFaults = 1
    MaxShells = 2
    MaxChunks = 1
CHECK_DEADLOCK FALSE
INVARIANTS
    TypeOK
    NothingMissed
    EndsWithPrimary
    CodeIsLeft
