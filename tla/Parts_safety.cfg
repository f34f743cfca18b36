SPECIFICATION PartSpec
CONSTANTS
    None = None
    MaxCalls = 2
    Sessions = {s1, s2}
    FaultKinds = {"slow", "refuse", "crash"}
    Parts = {"RPC", "NS", "PL", "SY", "MT", "TU", "DI", "EB", "SB", "CK", "SC", "ET", "DS"}
    NodeRequests = {"h1", "h2"}
    Downs = {"d1", "d2"}
    Commands = {"c1", "c2"}
    MaxEdits = 3
    MaxLines = 2
    MaxLoads = 1
    Programs = {"c1", "c2"}
CHECK_DEADLOCK FALSE
INVARIANTS
    TypesOK
    ReplyIsOwn
    ExitIsOwn
    NodeKeepsCount
    EachNameHasOne
    TableIsThePods
    TunnelsFollowMounts
    RunsOnceToldOnce
    NothingFallsBetween
    
    BytesAreWhole
    CommandsAreShown
PROPERTIES
    EraseSparesMounts
    ExpiryLeavesNothing
    ConflictIsKept
    DeletedThereStays
    SyncedIsThere
