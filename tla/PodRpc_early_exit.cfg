SPECIFICATION Spec
CONSTANTS
    None = None
    MaxCalls = 1
    Sessions = {s1}
    FaultKinds = {}
CHECK_DEADLOCK FALSE
INVARIANTS
    NoExitMissed
