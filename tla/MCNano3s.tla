------------------------------ MODULE MCNano3s ------------------------------
(***************************************************************************)
(* Instances of Nano3s for TLC.  A scenario fixes what the operator may    *)
(* ask for, what may fail and how often; a run checks a set of them, which *)
(* have nothing in common but the values no scenario changes.              *)
(***************************************************************************)
EXTENDS Nano3s

CONSTANT Scenarios
VARIABLE scenario

\* A new device, and one left in bypass with a voltage only bypass allows.
NewFlash       == [mode |-> "stock", tune |-> None]
BypassFlash    == [mode |-> "bypass", tune |-> [freq |-> "tuned", volt |-> 4000, watts |-> 150]]

\* A raw voltage above the range of stock mode, with a target above the power.
ModeCommands   == {Mode("stock"), Mode("bypass"), Tune(None, 3900, 150)}
PauseCommands  == {Pause, Resume}
FollowCommands == {Pause, Resume, Tune("tuned", 3400, None), PowerTarget(100)}
AllCommands    == ModeCommands \cup FollowCommands

-----------------------------------------------------------------------------
\* Modes, raw voltages, the loop and restarts anywhere; every send may fail.
Power == INSTANCE Nano3s WITH
    Commands <- ModeCommands, Flash <- BypassFlash, Idling <- FALSE,
    Restarts <- {"reboot", "relaunch"}, MaxRestarts <- 1, MaxWrites <- 2, MaxChecks <- 0, MaxTasks <- 0

\* Tasks and nonces around idling; every send may fail.
Jobs == INSTANCE Nano3s WITH
    Commands <- {}, Idling <- TRUE, Restarts <- {}, MaxRestarts <- 0, MaxWrites <- 0,
    MaxChecks <- 0, MaxTasks <- 3

\* Tasks around pauses of the operator and a relaunch; every send may fail.
Pauses == INSTANCE Nano3s WITH
    Commands <- PauseCommands, Idling <- FALSE, Restarts <- {"relaunch"}, MaxRestarts <- 1,
    MaxWrites <- 2, MaxChecks <- 0, MaxTasks <- 2

\* Tuning, a target and pauses, with sends that succeed.
Follow == INSTANCE Nano3s WITH
    Commands <- FollowCommands, Powers <- {110}, Rc <- {TRUE}, Idling <- FALSE, Restarts <- {},
    MaxRestarts <- 0, MaxWrites <- 3, MaxChecks <- 1, MaxTasks <- 1, NonceCap <- 1

\* Pauses and a relaunch, with sends that succeed.
Outlive == INSTANCE Nano3s WITH
    Commands <- PauseCommands, Rc <- {TRUE}, Idling <- FALSE, Restarts <- {"relaunch"},
    MaxRestarts <- 1, MaxWrites <- 3, MaxChecks <- 0, MaxTasks <- 0

ScenarioInit ==
    /\ scenario \in Scenarios
    /\ CASE scenario = "power"   -> Power!Init
         [] scenario = "jobs"    -> Jobs!Init
         [] scenario = "pauses"  -> Pauses!Init
         [] scenario = "follow"  -> Follow!Init
         [] scenario = "outlive" -> Outlive!Init

ScenarioNext ==
    /\ UNCHANGED scenario
    /\ \/ scenario = "power" /\ Power!Next
       \/ scenario = "jobs" /\ Jobs!Next
       \/ scenario = "pauses" /\ Pauses!Next
       \/ scenario = "follow" /\ Follow!Next
       \/ scenario = "outlive" /\ Outlive!Next

ScenarioSpec == ScenarioInit /\ [][ScenarioNext]_<<vars, scenario>>

\* For scenarios whose sends succeed, when the constants say so too.
LiveSpec == ScenarioSpec /\ Fairness
=============================================================================
