SPECIFICATION ScenarioSpec
CONSTANTS
    Scenarios = {"power", "jobs", "pauses"}
    None = None
    Commands <- AllCommands
    Powers = {100}
    Flash <- NewFlash
    EnvTarget = None
    Rc = {TRUE, FALSE}
    Idling = TRUE
    Restarts = {"reboot", "relaunch"}
    MaxRestarts = 1
    MaxWrites = 2
    MaxChecks = 1
    MaxTasks = 3
    IpcCap = 3
    NonceCap = 2
    History = 2
INVARIANTS
    VoltageInModeRange
    ChainWorksOnTask
    NoncesKnown
