------------------------------- MODULE Bitaxe -------------------------------
(***************************************************************************)
(* The Bitaxe board (board/bitaxe.rs) with its power controller            *)
(* (peripheral/tps546.rs) and its hash thread, as far as the reset line    *)
(* goes; and the emberOne/00 board (board/emberone00.rs).                  *)
(*                                                                         *)
(* A write over the control channel that fails may have taken effect.      *)
(***************************************************************************)
EXTENDS Naturals, Sequences

CONSTANTS
    BadLimit,   \* BAD_READING_LIMIT (3)
    MaxInits    \* bound: times the hash thread initialises its chip

ASSUME BitaxeConstants == BadLimit \in Nat \ {0} /\ MaxInits \in Nat

VARIABLES
    axe,      \* the step of the factory or the shutdown, "run", "down" or "failed"
    fan,        \* "unset", "full" or "low"
    vout, nrst, \* core voltage on; chip out of reset
    limits,     \* the configuration of the power controller has been written
    since,      \* enabled_since: "none", "fresh" or "settled"
    badCount,   \* bad_thermal_count
    cancel,     \* the board is asked to stop
    asicThread, \* the thread: "new", "idle", "init", "on" or "gone"
    removal,    \* ThreadRemovalSignal has been sent
    inits,      \* history: initialisations of the chip
    die,        \* the die is "cool" or "hot"
    missed,     \* history: a write of the shutdown failed
    ember, emberTask, vddio, emberIo  \* emberOne/00: step, monitor task, supply; I2C after reboot

bitaxeVars == <<axe, fan, vout, nrst, limits, since, badCount, cancel, asicThread, removal,
                inits, die, missed>>
emberVars == <<ember, emberTask, vddio, emberIo>>
boardVars == <<bitaxeVars, emberVars>>

\* A board may still be powered from an earlier run.
BitaxeInit ==
    /\ axe = "hold" /\ fan = "unset" /\ vout \in BOOLEAN /\ nrst \in BOOLEAN
    /\ limits = FALSE /\ since = "none" /\ badCount = 0 /\ cancel = FALSE
    /\ asicThread = "new" /\ removal = FALSE /\ inits = 0 /\ die = "cool" /\ missed = FALSE
    /\ ember = "supply" /\ emberTask = "new" /\ vddio = FALSE /\ emberIo = FALSE

-----------------------------------------------------------------------------
(* The factory: create_from_usb.                                           *)

VoltageFirst == <<"hold", "fan", "off", "volt", "config", "release", "discover", "rehold">> \* mutant: order

\* The order of its steps.
FactorySteps == <<"hold", "fan", "off", "config", "volt", "release", "discover", "rehold">>

After(s) ==
    LET i == CHOOSE k \in DOMAIN FactorySteps : FactorySteps[k] = s
    IN  IF i = Len(FactorySteps) THEN "run" ELSE FactorySteps[i + 1]

\* Tps546::init turns the output off before it writes the configuration.
OutputAfter(s) == CASE s = "off" -> FALSE [] s = "volt" -> TRUE [] OTHER -> vout

\* write_config is many writes: the limits stand when the last has been made.
LimitsAfter(s, done) == limits \/ (s = "config" /\ done)

\* What a step does to the hardware.
Effect(s, done) ==
    /\ nrst' = CASE s \in {"hold", "rehold"} -> FALSE [] s = "release" -> TRUE [] OTHER -> nrst
    /\ fan' = IF s = "fan" THEN "full" ELSE fan
    /\ vout' = OutputAfter(s) /\ limits' = LimitsAfter(s, done)

\* A device that is not the one expected, or a write that never got through.
NoEffect == UNCHANGED <<nrst, fan, vout, limits>>

\* A step succeeds, or fails with or without its effect and the factory gives
\* up as it is; discovery fails when no chip answers or one of a wrong type.
FactoryStep ==
    /\ axe \in {FactorySteps[i] : i \in DOMAIN FactorySteps}
    /\ \/ Effect(axe, TRUE) /\ axe' = After(axe)
       \/ (Effect(axe, FALSE) \/ NoEffect) /\ axe' = "failed"
    /\ UNCHANGED <<since, badCount, cancel, asicThread, removal, inits, die, missed, emberVars>>

-----------------------------------------------------------------------------
(* The hash thread and the reset line.                                     *)

\* Asserting and releasing reset: enabled_since follows a write that succeeds.
Disable ==
    \/ nrst' = FALSE /\ since' = "none"
    \/ nrst' \in {nrst, FALSE} /\ UNCHANGED since
Enable ==
    \/ nrst' = TRUE /\ since' = "fresh"
    \/ nrst' \in {nrst, TRUE} /\ UNCHANGED since

\* The actor disables the chip when it starts.
ThreadStarts ==
    /\ axe \in {"run", "signal", "disable", "voltage", "fan_low", "down"}
    /\ asicThread = "new" /\ asicThread' = "idle" /\ Disable
    /\ UNCHANGED <<axe, fan, vout, limits, badCount, cancel, removal, inits, die, missed, emberVars>>

\* initialize_chip, on the first task and after each failure of it; the loop may
\* take the command although the removal signal has been sent.
ThreadTask ==
    /\ asicThread = "idle" /\ inits < MaxInits
    /\ asicThread' = "init" /\ inits' = inits + 1
    /\ UNCHANGED <<axe, fan, vout, nrst, limits, since, badCount, cancel, removal, die, missed, emberVars>>

ThreadEnables ==
    /\ asicThread = "init" /\ asicThread' \in {"on", "idle"} /\ Enable
    /\ UNCHANGED <<axe, fan, vout, limits, badCount, cancel, removal, inits, die, missed, emberVars>>

\* The removal signal ends the loop, nothing else.
ThreadRemoved ==
    /\ removal /\ asicThread \in {"idle", "on"} /\ asicThread' = "gone"
    /\ UNCHANGED <<axe, fan, vout, nrst, limits, since, badCount, cancel, removal, inits, die, missed, emberVars>>

\* DIODE_SETTLE passes.
Settle ==
    /\ since = "fresh" /\ since' = "settled"
    /\ UNCHANGED <<axe, fan, vout, nrst, limits, badCount, cancel, asicThread, removal, inits, die, missed, emberVars>>

\* The die may heat up and cool down.
DieChanges ==
    /\ axe = "run" /\ die' = (IF die = "hot" THEN "cool" ELSE "hot")
    /\ UNCHANGED <<axe, fan, vout, nrst, limits, since, badCount, cancel, asicThread, removal, inits, missed, emberVars>>

-----------------------------------------------------------------------------
(* The monitor.                                                            *)

CountsHighOnly(reading, n) == IF reading = "high" THEN n + 1 ELSE 0 \* mutant: a failed read resets

\* A reading that is implausible, too high or failed counts, a normal one resets.
Thermal(reading, n) == IF reading = "normal" THEN 0 ELSE n + 1

\* monitor_tick: regulator faults are cleared, telemetry is published; enough
\* bad readings in a row are an emergency.
MonitorTick ==
    /\ axe = "run"
    /\ \E reading \in {"failed", "implausible", IF die = "hot" THEN "high" ELSE "normal"} :
          badCount' = IF since = "settled" THEN Thermal(reading, badCount) ELSE 0
    /\ IF badCount' >= BadLimit THEN axe' = "signal" /\ fan' \in {fan, "full"}
       ELSE UNCHANGED <<axe, fan>>
    /\ UNCHANGED <<vout, nrst, limits, since, cancel, asicThread, removal, inits, die, missed, emberVars>>

\* The shutdown future cancels the token; a tick that has begun ends first.
CancelBoard ==
    /\ axe = "run" /\ ~cancel /\ cancel' = TRUE
    /\ UNCHANGED <<axe, fan, vout, nrst, limits, since, badCount, asicThread, removal, inits, die, missed, emberVars>>

MonitorCancelled ==
    /\ axe = "run" /\ cancel /\ axe' = "signal"
    /\ UNCHANGED <<fan, vout, nrst, limits, since, badCount, cancel, asicThread, removal, inits, die, missed, emberVars>>

VoltageOff ==
    /\ axe' = IF badCount >= BadLimit THEN "down" ELSE "fan_low"
    /\ \/ vout' = FALSE /\ UNCHANGED missed
       \/ vout' \in {vout, FALSE} /\ missed' = TRUE

\* shutdown: the thread is told and given a moment, then reset, then power.
ShutdownStep ==
    /\ \/ /\ axe = "signal" /\ removal' = TRUE /\ axe' = "disable"
          /\ UNCHANGED <<nrst, since, vout, missed, fan>>
       \/ axe = "disable" /\ Disable /\ axe' = "voltage" /\ UNCHANGED <<removal, vout, missed, fan>>
       \/ axe = "voltage" /\ VoltageOff /\ UNCHANGED <<removal, nrst, since, fan>>
       \/ axe = "fan_low" /\ fan' \in {fan, "low"} /\ axe' = "down"
          /\ UNCHANGED <<removal, nrst, since, vout, missed>>
    /\ UNCHANGED <<limits, badCount, cancel, asicThread, inits, die, emberVars>>

-----------------------------------------------------------------------------
(* emberOne/00: supply and sensors, a monitor task, and a shutdown that    *)
(* ends with a reboot of the board.                                        *)

EmberStep ==
    /\ \/ /\ ember = "supply" /\ vddio' \in {vddio, TRUE}
          /\ ember' \in IF vddio' THEN {"sensors", "failed"} ELSE {"failed"}
          /\ UNCHANGED <<emberTask, emberIo>>
       \/ /\ ember = "sensors" /\ ember' \in {"run", "failed"}
          /\ emberTask' = IF ember' = "run" THEN "idle" ELSE emberTask
          /\ UNCHANGED <<vddio, emberIo>>
       \/ ember = "run" /\ ember' = "await" /\ UNCHANGED <<vddio, emberTask, emberIo>>
    /\ UNCHANGED bitaxeVars

\* A reading of the sensors, three requests; the token is seen between two.
EmberMonitor ==
    /\ \/ emberTask = "idle" /\ ember # "run" /\ emberTask' = "gone" /\ UNCHANGED emberIo
       \/ emberTask = "idle" /\ emberTask' = "reading" /\ UNCHANGED emberIo
       \/ /\ emberTask = "reading" /\ emberTask' = "idle"
          /\ emberIo' = (emberIo \/ ember = "rebooted")
    /\ UNCHANGED <<ember, vddio, bitaxeVars>>

AwaitsTask == emberTask = "gone"

\* EmberOne00::shutdown.
EmberShutdown ==
    /\ \/ ember = "await" /\ AwaitsTask /\ ember' = "supply_off" /\ UNCHANGED vddio
       \/ ember = "supply_off" /\ vddio' \in {vddio, FALSE} /\ ember' = "rebooted"
    /\ UNCHANGED <<emberTask, emberIo, bitaxeVars>>

BitaxeNext ==
    \/ FactoryStep \/ ThreadStarts \/ ThreadTask \/ ThreadEnables \/ ThreadRemoved \/ Settle
    \/ DieChanges \/ MonitorTick \/ CancelBoard \/ MonitorCancelled \/ ShutdownStep

EmberNext == EmberStep \/ EmberMonitor \/ EmberShutdown

BoardSpec == BitaxeInit /\ [][BitaxeNext \/ EmberNext]_boardVars

-----------------------------------------------------------------------------
(* Properties.                                                             *)

\* Whatever step fails, the core voltage is on only under limits this run has
\* written, unless it was on before the run turned it off (tps546.rs:139).
OutputProtected ==
    vout => limits \/ axe \in {"hold", "fan", "off", "failed"}

\* A board that went down has its core voltage off, whether it was told to or
\* overheated, unless a write of its shutdown failed (bitaxe.rs:442).
DownMeansOff == axe = "down" => ~vout \/ missed

\* A die that stays hot while its diode can be read stops the board, also when
\* readings fail in between (bitaxe.rs:326).
HotDieStops ==
    (die = "hot" /\ since = "settled" /\ axe = "run")
        ~> (axe = "down" \/ die = "cool" \/ since # "settled")

\* Nothing is asked of an emberOne that has been rebooted (emberone00.rs:259).
QuietAfterReboot == ~emberIo

\* Whatever fails and races, the boards are powered only under their limits
\* and quiet once they are down (tps546.rs:139, bitaxe.rs:442).
BoardStaysSafe == OutputProtected /\ DownMeansOff /\ QuietAfterReboot
=============================================================================
