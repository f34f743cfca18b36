SPECIFICATION PartFairSpec
CONSTANTS
    None = None
    MaxCalls = 2
    Sessions = {s1}
    FaultKinds = {"slow", "refuse", "crash"}
    Parts = {"RPC", "NS", "PL", "SY", "DI", "SB", "CK"}
    NodeRequests = {"h1"}
    Downs = {"d1"}
    Commands = {"c1", "c2"}
    MaxEdits = 1
    MaxLines = 1
    MaxLoads = 2
    Programs = {}
CHECK_DEADLOCK FALSE
PROPERTIES
    ImplementsCalls
    EndIsHeard
    FreedWhenPodDies
    AbandonedEnds
    EveryoneAnswered
    DeadIsRemoved
    EveryDispatchRuns
    EveryEndIsTold
    InterruptIsHeard
    ComesBack
    LeavesWithTheSession
    ShowsWhatThereIs
