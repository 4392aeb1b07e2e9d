SPECIFICATION FairSpec
CONSTANTS
    Slots = 2
    Kinds = {"update", "replace", "idle"}
    None = None
    MaxTasks = 2
    MaxRoll = 2
    LinkCap = 2
    ShareCap = 1
    MaxFaults = 1
CHECK_DEADLOCK FALSE
PROPERTIES
    ThreadProgresses
