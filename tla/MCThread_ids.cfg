SPECIFICATION Spec
CONSTANTS
    Slots = 3
    Kinds = {"update", "replace", "idle"}
    None = None
    MaxTasks = 3
    MaxRoll = 2
    LinkCap = 2
    ShareCap = 1
    MaxFaults = 1
CHECK_DEADLOCK FALSE
INVARIANTS
    NoncesMatched
    SharesAreOfValidTasks
