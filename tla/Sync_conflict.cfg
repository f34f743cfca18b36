SPECIFICATION Spec
CONSTANTS
    None = None
    Files = {f}
    Commands = {c1, c2}
    Closer = closer
    Starter = starter
    MaxEdits = 4
    FaultKinds = {}
CHECK_DEADLOCK FALSE
PROPERTIES
    ConflictAlwaysKept
