------------------------------ MODULE MCBench -------------------------------
(***************************************************************************)
(* The smaller components, each with the inputs of its Init, in one model: *)
(* bench says which of them runs.  The others stay in a state of their     *)
(* own in which nothing is to be done, so nothing is multiplied.           *)
(***************************************************************************)
EXTENDS Daemon, Backplane, ShareHeader, PoolFormats, ChipProtocol, ControlChannel, Peripherals,
        Bitaxe, CpuMiner, Monitors, Serial, TLC

CONSTANTS
    Benches,    \* the components to run
    p1, p2, p3, \* plugs, and
    serial      \* the serial number two of them share

VARIABLE bench

MCSerialOf == p1 :> serial @@ p2 :> serial @@ p3 :> p3

\* In quarters of a megahertz.
MCFrequencies == {f \in 200..3200 : f % 7 = 0}

MCPortConfigs ==
    {[speed |-> 1, data |-> d, stop |-> s, parity |-> p] : <<d, s, p>> \in
        {<<8, 1, "None">>, <<7, 2, "Even">>, <<8, 1, "Odd">>, <<9, 1, "None">>, <<8, 3, "None">>}}

MCLeftovers ==
    {[speed |-> 2, csize |-> 7, cstopb |-> b, parenb |-> b, parodd |-> b] : b \in BOOLEAN}

vars == <<bench, ringVars, backVars, matchVars, rangeVars, headerVars, fmt, chipVars, ctrlVars,
          perIn, boardVars, cpuVars, monVars, serialVars>>

-----------------------------------------------------------------------------
Starts(name, Start, Rest) == IF bench = name THEN Start ELSE Rest

BenchInit ==
    /\ bench \in Benches
    /\ Starts("daemon", DaemonInit, wiring = "dummy" /\ DaemonInit)
    /\ Starts("backplane", BackInit, config = {"nano3s"} /\ plugged = {} /\ BackInit)
    /\ Starts("patterns", MatchInit, patterns = <<>> /\ device = <<>>)
    /\ Starts("ranges", En2Init, /\ range = NewRange(0, 0, 1) /\ ways = 1
                                 /\ current = 0 /\ seen = <<>>)
    /\ Starts("headers", HeaderInit, /\ board = "cpu" /\ job = NoValue /\ template = NoValue
                                     /\ hashed = NoValue /\ share = NoValue /\ submitted = NoValue)
    /\ Starts("formats", FormatsInit, fmt = Empty)
    /\ Starts("chips", ChipInit, /\ wire = <<>> /\ ramp = 0 /\ chipIn = [kind |-> "none"]
                                 /\ rxbuf = <<>> /\ rxReady = FALSE /\ frames = <<>>
                                 /\ plls = <<>> /\ sentGood = {})
    /\ CtrlInit
    /\ Starts("peripherals", PerInit, perIn = [kind |-> "none"])
    /\ Starts("bitaxe", BitaxeInit, vout = FALSE /\ nrst = FALSE /\ BitaxeInit)
    /\ CpuInit /\ MonInit
    /\ Starts("serial", SerialInit,
              cfg = (CHOOSE c \in PortConfigs : TRUE) /\ termios = (CHOOSE t \in Leftovers : TRUE) /\ SerialInit)

BenchNext ==
    /\ UNCHANGED <<bench, matchVars, fmt, perIn>>
    /\ \/ /\ bench = "daemon" /\ DaemonNext
          /\ UNCHANGED <<backVars, rangeVars, headerVars, chipVars, ctrlVars, boardVars, cpuVars, monVars, serialVars>>
       \/ /\ bench = "backplane" /\ BackNext
          /\ UNCHANGED <<ringVars, rangeVars, headerVars, chipVars, ctrlVars, boardVars, cpuVars, monVars, serialVars>>
       \/ /\ bench = "ranges" /\ En2Next
          /\ UNCHANGED <<ringVars, backVars, headerVars, chipVars, ctrlVars, boardVars, cpuVars, monVars, serialVars>>
       \/ /\ bench = "headers" /\ HeaderNext
          /\ UNCHANGED <<ringVars, backVars, rangeVars, chipVars, ctrlVars, boardVars, cpuVars, monVars, serialVars>>
       \/ /\ bench = "chips" /\ ChipNext
          /\ UNCHANGED <<ringVars, backVars, rangeVars, headerVars, ctrlVars, boardVars, cpuVars, monVars, serialVars>>
       \/ /\ bench = "control" /\ CtrlNext
          /\ UNCHANGED <<ringVars, backVars, rangeVars, headerVars, chipVars, boardVars, cpuVars, monVars, serialVars>>
       \/ /\ bench = "bitaxe" /\ BitaxeNext
          /\ UNCHANGED <<ringVars, backVars, rangeVars, headerVars, chipVars, ctrlVars, cpuVars, monVars, serialVars>>
       \/ /\ bench = "ember" /\ EmberNext
          /\ UNCHANGED <<ringVars, backVars, rangeVars, headerVars, chipVars, ctrlVars, cpuVars, monVars, serialVars>>
       \/ /\ bench = "cpu" /\ CpuNext
          /\ UNCHANGED <<ringVars, backVars, rangeVars, headerVars, chipVars, ctrlVars, boardVars, monVars, serialVars>>
       \/ /\ bench = "estimator" /\ EstNext
          /\ UNCHANGED <<ringVars, backVars, rangeVars, headerVars, chipVars, ctrlVars, boardVars, cpuVars, serialVars>>
       \/ /\ bench = "alarm" /\ AlarmNext
          /\ UNCHANGED <<ringVars, backVars, rangeVars, headerVars, chipVars, ctrlVars, boardVars, cpuVars, serialVars>>
       \/ /\ bench = "serial" /\ SerialNext
          /\ UNCHANGED <<ringVars, backVars, rangeVars, headerVars, chipVars, ctrlVars, boardVars, cpuVars, monVars>>

\* Every task is scheduled, every timer fires, every device that is there works.
BenchFairness ==
    /\ WF_ringVars(bench = "daemon" /\ RingSteps)
    /\ WF_ringVars(bench = "daemon" /\ ExitDue)
    /\ WF_ctrlVars(bench = "control" /\ DeviceAnswers)
    /\ WF_ctrlVars(bench = "control" /\ Receive)
    /\ WF_ctrlVars(bench = "control" /\ RequestTimesOut)
    /\ WF_ctrlVars(bench = "control" /\ SendPacket)
    /\ WF_ctrlVars(bench = "control" /\ ~hung /\ Write)
    /\ WF_boardVars(bench = "bitaxe" /\ MonitorTick)
    /\ WF_boardVars(bench = "bitaxe" /\ ShutdownStep)
    /\ WF_cpuVars(bench = "cpu" /\ MiningLoop)

BenchSpec == BenchInit /\ [][BenchNext]_vars /\ BenchFairness
=============================================================================
