SPECIFICATION LiveSpec
CONSTANTS
    Scenarios = {"follow", "outlive"}
    None = None
    Commands <- FollowCommands
    Powers = {110}
    Flash <- NewFlash
    EnvTarget = None
    Rc = {TRUE}
    Idling = FALSE
    Restarts = {"relaunch"}
    MaxRestarts = 1
    MaxWrites = 3
    MaxChecks = 1
    MaxTasks = 1
    IpcCap = 3
    NonceCap = 1
    History = 2
INVARIANTS
    ChainFollows
PROPERTIES
    ManualVoltageKept
    ChainComesBack
