SPECIFICATION Spec
CONSTANTS
    None = None
    Pod = pod
    Machines = {pod, m1, m2}
    Home = pod
    Movers = {t1}
    Clients = {c1}
    First = c1
    Framed = {c1}
    FaultKinds = {}
    MaxFaults = 0
    MaxShells = 3
    MaxChunks = 0
CHECK_DEADLOCK FALSE
INVARIANTS
    CommandsFollowShell
