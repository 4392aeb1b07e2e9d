--------------------------- MODULE HardwareProofs ---------------------------
(***************************************************************************)
(* Proofs about what is next to the chips: the boards of Bitaxe, the       *)
(* serial port of Serial and the mining loop of CpuMiner.                  *)
(*                                                                         *)
(* Boards.  Once the configuration of the power controller is written it   *)
(* stays, and every step of the factory after it, the one that raises the  *)
(* voltage included, finds it written (PoweredUnderLimits).                *)
(*                                                                         *)
(* Serial port.  Only the holder of the lock is between reading the        *)
(* settings of the tty and storing the rate (OneSetter), so what it read   *)
(* is what the tty still has, and at the store it differs from the         *)
(* configuration in the rate alone (SettingsKnown).  Bytes taken while     *)
(* nobody calls are gone from the queue before the rate changes            *)
(* (QuietBytesFirst).                                                      *)
(*                                                                         *)
(* CPU miner.  Every call waits for its answer and a dropped handle makes  *)
(* no more, so at most one command is in the channel (OneCommand); tasks   *)
(* are numbered, and the one in the channel is newer than the one at work  *)
(* and all that were handed back (TasksInOrder).  The nonces tried for a   *)
(* task and an ntime lie right behind the next one, over the wrap: none is *)
(* further back than there are of them (TriedBehind).  The loop looks at   *)
(* the clock every ClockEvery hashes and ends the cycle when the next look *)
(* could come too late, so there are always fewer of them than nonces when *)
(* one is tried (RoomLeft).                                                *)
(***************************************************************************)
EXTENDS Bitaxe, Serial, CpuMiner, FiniteSetTheorems, SequenceTheorems, TLAPS

-----------------------------------------------------------------------------
(* The boards.                                                             *)

PoweredUnderLimits ==
    /\ axe \notin {"hold", "fan", "off", "config", "failed"} => limits
    /\ OutputProtected

OffOnceDown == axe \in {"fan_low", "down"} => ~vout \/ missed

TaskGoneFirst ==
    /\ ember \in {"supply_off", "rebooted"} => emberTask = "gone"
    /\ QuietAfterReboot

BoardInv == PoweredUnderLimits /\ OffOnceDown /\ TaskGoneFirst

\* The step after each step of the factory.
LEMMA FactoryOrder ==
    /\ {FactorySteps[i] : i \in DOMAIN FactorySteps}
          = {"hold", "fan", "off", "config", "volt", "release", "discover", "rehold"}
    /\ After("hold") = "fan" /\ After("fan") = "off" /\ After("off") = "config"
    /\ After("config") = "volt" /\ After("volt") = "release" /\ After("release") = "discover"
    /\ After("discover") = "rehold" /\ After("rehold") = "run"
  <1>1. /\ DOMAIN FactorySteps = 1..8 /\ Len(FactorySteps) = 8
        /\ FactorySteps[1] = "hold" /\ FactorySteps[2] = "fan" /\ FactorySteps[3] = "off"
        /\ FactorySteps[4] = "config" /\ FactorySteps[5] = "volt" /\ FactorySteps[6] = "release"
        /\ FactorySteps[7] = "discover" /\ FactorySteps[8] = "rehold"
    BY DEF FactorySteps
  <1>2. \A i \in 1..8 : i = 1 \/ i = 2 \/ i = 3 \/ i = 4 \/ i = 5 \/ i = 6 \/ i = 7 \/ i = 8
    OBVIOUS
  <1>3. ASSUME NEW i \in 1..8
        PROVE  After(FactorySteps[i]) = IF i = 8 THEN "run" ELSE FactorySteps[i + 1]
    <2>1. \A k \in 1..8 : FactorySteps[k] = FactorySteps[i] => k = i
      BY <1>1, <1>2
    <2>2. (CHOOSE k \in DOMAIN FactorySteps : FactorySteps[k] = FactorySteps[i]) = i
      BY <1>1, <2>1
    <2> QED BY <1>1, <2>2 DEF After
  <1>4. {FactorySteps[i] : i \in DOMAIN FactorySteps}
          = {"hold", "fan", "off", "config", "volt", "release", "discover", "rehold"}
    BY <1>1, <1>2
  <1>5. After("hold") = "fan" /\ After("fan") = "off" /\ After("off") = "config"
        /\ After("config") = "volt" /\ After("volt") = "release" /\ After("release") = "discover"
        /\ After("discover") = "rehold" /\ After("rehold") = "run"
    BY <1>1, <1>3
  <1> QED BY <1>4, <1>5

LEMMA BoardStep == BoardInv /\ [BitaxeNext \/ EmberNext]_boardVars => BoardInv'
  <1> SUFFICES ASSUME BoardInv, [BitaxeNext \/ EmberNext]_boardVars PROVE BoardInv'
    OBVIOUS
  <1> USE DEF BoardInv
  <1>1. ASSUME UNCHANGED <<vout, limits, missed, emberVars>>,
               axe' = axe \/ (axe = "run" /\ axe' = "signal") \/ (axe = "signal" /\ axe' = "disable")
                 \/ (axe = "disable" /\ axe' = "voltage") \/ (axe = "fan_low" /\ axe' = "down")
        PROVE  BoardInv'
    BY <1>1 DEF PoweredUnderLimits, OutputProtected, OffOnceDown, TaskGoneFirst, QuietAfterReboot, emberVars
  <1>2. CASE FactoryStep
    <2>1. TaskGoneFirst'
      BY <1>2 DEF FactoryStep, TaskGoneFirst, QuietAfterReboot, emberVars
    <2>2. axe \in {"hold", "fan", "off", "config", "volt", "release", "discover", "rehold"}
      BY <1>2, FactoryOrder DEF FactoryStep
    <2>3. CASE Effect(axe, TRUE) /\ axe' = After(axe)
      BY <2>1, <2>2, <2>3, FactoryOrder
         DEF Effect, OutputAfter, LimitsAfter, PoweredUnderLimits, OutputProtected, OffOnceDown
    <2>4. CASE axe' = "failed"
      BY <2>1, <2>4 DEF PoweredUnderLimits, OutputProtected, OffOnceDown
    <2> QED BY <1>2, <2>3, <2>4 DEF FactoryStep
  <1>3. CASE ThreadStarts \/ ThreadTask \/ ThreadEnables \/ ThreadRemoved \/ Settle \/ DieChanges
    BY <1>1, <1>3 DEF ThreadStarts, ThreadTask, ThreadEnables, ThreadRemoved, Settle, DieChanges
  <1>4. CASE MonitorTick \/ CancelBoard \/ MonitorCancelled
    BY <1>1, <1>4 DEF MonitorTick, CancelBoard, MonitorCancelled
  <1>5. CASE ShutdownStep
    <2>1. CASE axe = "voltage" /\ VoltageOff
      <3>1. TaskGoneFirst' /\ limits' = limits
        BY <1>5 DEF ShutdownStep, TaskGoneFirst, QuietAfterReboot, emberVars
      <3>2. axe' \in {"fan_low", "down"} /\ (vout' = vout \/ vout' = FALSE)
        BY <2>1 DEF VoltageOff
      <3>3. OffOnceDown'
        BY <2>1 DEF VoltageOff, OffOnceDown
      <3> QED BY <2>1, <3>1, <3>2, <3>3 DEF PoweredUnderLimits, OutputProtected
    <2>2. CASE ~(axe = "voltage" /\ VoltageOff)
      <3>1. UNCHANGED <<vout, limits, missed, emberVars>>
        BY <1>5, <2>2 DEF ShutdownStep
      <3>2. (axe = "signal" /\ axe' = "disable") \/ (axe = "disable" /\ axe' = "voltage")
              \/ (axe = "fan_low" /\ axe' = "down")
        BY <1>5, <2>2 DEF ShutdownStep
      <3> QED BY <1>1, <3>1, <3>2
    <2> QED BY <2>1, <2>2
  <1>6. CASE EmberNext
    <2>1. PoweredUnderLimits' /\ OffOnceDown'
      <3>1. UNCHANGED <<axe, vout, limits, missed>>
        BY <1>6, Zenon DEF EmberNext, EmberStep, EmberMonitor, EmberShutdown, bitaxeVars
      <3> QED BY <3>1 DEF PoweredUnderLimits, OutputProtected, OffOnceDown
    <2>2. TaskGoneFirst'
      <3>1. CASE EmberStep
        <4>1. emberIo' = emberIo
          BY <3>1, Zenon DEF EmberStep
        <4>2. ember' \in {"sensors", "failed", "run", "await"}
          <5>1. CASE ember = "supply"
            <6>1. ember' \in {"sensors", "failed"} \/ ember' \in {"failed"}
              BY <3>1, <5>1, Zenon DEF EmberStep
            <6> QED BY <6>1
          <5>2. CASE ember # "supply"
            BY <3>1, <5>2 DEF EmberStep
          <5> QED BY <5>1, <5>2
        <4> QED BY <4>1, <4>2 DEF TaskGoneFirst, QuietAfterReboot
      <3>2. CASE EmberMonitor
        <4>1. ember' = ember /\ (emberTask = "gone" => FALSE)
          BY <3>2 DEF EmberMonitor
        <4>2. ember # "rebooted" /\ ember # "supply_off"
          BY <4>1 DEF TaskGoneFirst
        <4>3. ~emberIo'
          BY <3>2, <4>2, Zenon DEF EmberMonitor, TaskGoneFirst, QuietAfterReboot
        <4> QED BY <4>1, <4>2, <4>3 DEF TaskGoneFirst, QuietAfterReboot
      <3>3. CASE EmberShutdown
        BY <3>3 DEF EmberShutdown, AwaitsTask, TaskGoneFirst, QuietAfterReboot
      <3> QED BY <1>6, <3>1, <3>2, <3>3 DEF EmberNext
    <2> QED BY <2>1, <2>2
  <1>7. CASE UNCHANGED boardVars
    BY <1>1, <1>7 DEF boardVars, bitaxeVars
  <1> QED BY <1>2, <1>3, <1>4, <1>5, <1>6, <1>7 DEF BitaxeNext

\* Whatever write fails or takes effect without being answered, and wherever
\* the thread, the monitor and the shutdown are: the core voltage is on only
\* under limits that were written, a board that is down has it off, and a
\* rebooted emberOne is left alone (tps546.rs:139, bitaxe.rs:442).
THEOREM BoardsStaySafe == BoardSpec => []BoardStaysSafe
  <1>1. BitaxeInit => BoardInv
    BY DEF BitaxeInit, BoardInv, PoweredUnderLimits, OutputProtected, OffOnceDown,
           TaskGoneFirst, QuietAfterReboot
  <1>2. BoardInv => BoardStaysSafe
    BY DEF BoardInv, PoweredUnderLimits, OffOnceDown, TaskGoneFirst, DownMeansOff, BoardStaysSafe
  <1> QED BY <1>1, <1>2, BoardStep, PTL DEF BoardSpec

-----------------------------------------------------------------------------
(* The serial port.                                                        *)

Settings == [speed : Nat, csize : Nat, cstopb : BOOLEAN, parenb : BOOLEAN, parodd : BOOLEAN]
Configs  == [speed : Nat, data : Nat, stop : Nat, parity : {"None", "Odd", "Even"}]
SetterPlaces == {"idle", "lock", "drain", "set", "store", "done"}
TxBytes  == [rate : Nat, quiet : BOOLEAN]

SerialTypeOK ==
    /\ port \in {"closed", "open", "refused", "unplugged"}
    /\ termios \in Settings /\ cfg \in Configs
    /\ setter \in [Setters -> [at : SetterPlaces, rate : Nat, read : Settings]]
    /\ lock \subseteq Setters
    /\ txq \in Seq(TxBytes)

OneSetter ==
    /\ \A c \in Setters : setter[c].at \in {"drain", "set", "store"} <=> c \in lock
    /\ \A c, d \in lock : c = d
    /\ port \in {"closed", "refused"} => \A c \in Setters : setter[c].at = "idle"

SettingsKnown ==
    /\ port \in {"open", "unplugged"} /\ (\A c \in Setters : setter[c].at # "store") => cfg = LineSays(termios)
    /\ \A c \in Setters : setter[c].at = "store" => [cfg EXCEPT !.speed = setter[c].rate] = LineSays(termios)
    /\ \A c \in Setters : setter[c].at \in {"drain", "set"} => setter[c].read = termios

QuietBytesFirst ==
    /\ \A i \in 1..Len(txq) : txq[i].quiet => txq[i].rate = termios.speed
    /\ (\E c \in Setters : setter[c].at = "set") => \A i \in 1..Len(txq) : ~txq[i].quiet
    /\ port = "closed" => txq = <<>>
    /\ BytesLeaveAtTheirRate

SerialInv == SerialTypeOK /\ OneSetter /\ SettingsKnown /\ QuietBytesFirst

\* The tty does what it was configured for, whatever was left on it.
LEMMA AppliedSays ==
    ASSUME NEW t \in Settings, NEW c \in Configs, ValidConfig(c)
    PROVE  Applied(t, c) \in Settings /\ LineSays(Applied(t, c)) = c
  <1> DEFINE a == Applied(t, c)
  <1>1. a.speed = c.speed /\ a.csize = c.data
    BY DEF Applied
  <1>2. a.cstopb <=> c.stop = 2
    BY DEF Applied
  <1>3. a.parenb <=> c.parity # "None"
    BY DEF Applied
  <1>4. c.parity # "None" => (a.parodd <=> c.parity = "Odd")
    BY DEF Applied
  <1>5. a \in Settings
    BY DEF Applied, Settings, Configs
  <1> HIDE DEF a
  <1>6. LineSays(a) = [speed |-> c.speed, data |-> c.data, stop |-> c.stop, parity |-> c.parity]
    <2>1. (IF a.cstopb THEN 2 ELSE 1) = c.stop
      BY <1>2 DEF ValidConfig, Configs
    <2>2. (IF ~a.parenb THEN "None" ELSE IF a.parodd THEN "Odd" ELSE "Even") = c.parity
      BY <1>3, <1>4 DEF Configs
    <2> QED BY <1>1, <2>1, <2>2 DEF LineSays
  <1>7. LineSays(a) = c
    BY <1>6 DEF Configs
  <1> QED BY <1>5, <1>7 DEF a

\* A new rate changes the rate of the line and nothing else.
LEMMA SpeedSays ==
    ASSUME NEW t \in Settings, NEW r \in Nat
    PROVE  /\ [t EXCEPT !.speed = r] \in Settings
           /\ LineSays([t EXCEPT !.speed = r]) = [LineSays(t) EXCEPT !.speed = r]
  BY DEF Settings, LineSays

\* One call of set_baud_rate moves on; the others do not.
LEMMA GoesTypes ==
    ASSUME SerialTypeOK, NEW c \in Setters, NEW to \in SetterPlaces, Goes(c, to)
    PROVE  /\ setter' \in [Setters -> [at : SetterPlaces, rate : Nat, read : Settings]]
           /\ setter'[c].at = to /\ setter'[c].rate = setter[c].rate /\ setter'[c].read = setter[c].read
           /\ \A d \in Setters : d # c => setter'[d] = setter[d]
  BY DEF SerialTypeOK, Goes

LEMMA OpenStep == ASSUME SerialInv, OpenPort PROVE SerialInv'
  <1> USE DEF SerialInv
  <1>1. UNCHANGED <<cfg, setter, lock, txq, txLog>> /\ port = "closed"
    BY DEF OpenPort
  <1>2. \A c \in Setters : setter[c].at = "idle"
    BY <1>1 DEF OneSetter
  <1>3. OneSetter'
    BY <1>1, <1>2 DEF OneSetter
  <1>4. txq = <<>> /\ Len(txq) = 0
    BY <1>1 DEF QuietBytesFirst
  <1>5. QuietBytesFirst'
    BY <1>1, <1>4 DEF QuietBytesFirst, BytesLeaveAtTheirRate
  <1>6. CASE ValidConfig(cfg) /\ port' = "open" /\ termios' = Applied(termios, cfg)
    <2>1. termios' \in Settings /\ LineSays(termios') = cfg
      BY <1>6, AppliedSays DEF SerialTypeOK
    <2>2. SerialTypeOK'
      BY <1>1, <1>6, <2>1 DEF SerialTypeOK
    <2>3. SettingsKnown'
      BY <1>1, <1>2, <2>1 DEF SettingsKnown
    <2> QED BY <1>3, <1>5, <2>2, <2>3
  <1>7. CASE port' = "refused" /\ UNCHANGED termios
    <2>1. SerialTypeOK'
      BY <1>1, <1>7 DEF SerialTypeOK
    <2>2. SettingsKnown'
      BY <1>1, <1>2, <1>7 DEF SettingsKnown
    <2> QED BY <1>3, <1>5, <2>1, <2>2
  <1> QED BY <1>6, <1>7 DEF OpenPort

\* Reading, and a port that is pulled out, change no settings.
LEMMA QuietStep ==
    ASSUME SerialInv, UNCHANGED <<termios, cfg, setter, lock, txq, txLog>>,
           port' = port \/ (port = "open" /\ port' = "unplugged")
    PROVE  SerialInv'
  <1> USE DEF SerialInv
  <1>1. SerialTypeOK'
    BY DEF SerialTypeOK
  <1>2. OneSetter'
    BY DEF OneSetter
  <1>3. SettingsKnown'
    BY DEF SettingsKnown
  <1>4. QuietBytesFirst'
    BY DEF QuietBytesFirst, BytesLeaveAtTheirRate
  <1> QED BY <1>1, <1>2, <1>3, <1>4

\* A byte leaves the queue at the rate of the line.
LEMMA TransmitStep == ASSUME SerialInv, Transmit PROVE SerialInv'
  <1> USE DEF SerialInv
  <1>1. /\ UNCHANGED <<port, termios, cfg, setter, lock>> /\ port = "open" /\ txq # <<>> /\ txq' = Tail(txq)
        /\ txLog' = txLog \cup {[byte |-> Head(txq), rate |-> termios.speed]} /\ txq \in Seq(TxBytes)
    BY DEF Transmit, SerialTypeOK
  <1>2. /\ txq' \in Seq(TxBytes) /\ Head(txq) = txq[1] /\ 1 \in 1..Len(txq)
        /\ \A i \in 1..Len(txq') : i + 1 \in 1..Len(txq) /\ txq'[i] = txq[i + 1]
    BY <1>1
  <1>3. SerialTypeOK' /\ OneSetter' /\ SettingsKnown'
    BY <1>1, <1>2 DEF SerialTypeOK, OneSetter, SettingsKnown
  <1>4. \A i \in 1..Len(txq') : txq'[i].quiet => txq'[i].rate = termios'.speed
    BY <1>1, <1>2 DEF QuietBytesFirst
  <1>5. (\E c \in Setters : setter'[c].at = "set") => \A i \in 1..Len(txq') : ~txq'[i].quiet
    BY <1>1, <1>2 DEF QuietBytesFirst
  <1>6. BytesLeaveAtTheirRate'
    <2> SUFFICES ASSUME NEW b \in txLog', b.byte.quiet PROVE b.rate = b.byte.rate
      BY DEF BytesLeaveAtTheirRate
    <2>1. CASE b \in txLog
      BY <2>1 DEF QuietBytesFirst, BytesLeaveAtTheirRate
    <2>2. CASE b = [byte |-> Head(txq), rate |-> termios.speed]
      BY <2>2, <1>2 DEF QuietBytesFirst
    <2> QED BY <1>1, <2>1, <2>2
  <1> QED BY <1>1, <1>3, <1>4, <1>5, <1>6 DEF QuietBytesFirst

\* The elements of two sequences put together.
LEMMA ConcatElements ==
    ASSUME NEW S, NEW s \in Seq(S), NEW n \in Nat, NEW x \in S
    PROVE  /\ s \o [i \in 1..n |-> x] \in Seq(S)
           /\ \A i \in 1..Len(s \o [j \in 1..n |-> x]) :
                 \/ i \in 1..Len(s) /\ (s \o [j \in 1..n |-> x])[i] = s[i]
                 \/ (s \o [j \in 1..n |-> x])[i] = x
  <1> DEFINE t == [i \in 1..n |-> x]
  <1>1. t \in Seq(S) /\ Len(t) = n /\ \A i \in 1..n : t[i] = x
    OBVIOUS
  <1> HIDE DEF t
  <1>2. s \o t \in Seq(S) /\ Len(s \o t) = Len(s) + Len(t) /\ Len(s) \in Nat
    BY <1>1
  <1>3. ASSUME NEW i \in 1..Len(s \o t)
        PROVE  (i \in 1..Len(s) /\ (s \o t)[i] = s[i]) \/ (s \o t)[i] = x
    <2>1. CASE i <= Len(s)
      BY <1>1, <1>2, <2>1
    <2>2. CASE i > Len(s)
      <3>1. i - Len(s) \in 1..n /\ (s \o t)[i] = t[i - Len(s)]
        BY <1>1, <1>2, <2>2
      <3> QED BY <3>1, <1>1
    <2> QED BY <1>2, <2>1, <2>2
  <1> QED BY <1>2, <1>3 DEF t

\* Bytes are taken into the queue: quiet ones only while nobody calls.
LEMMA WriteStep == ASSUME SerialInv, PollWrite PROVE SerialInv'
  <1> USE DEF SerialInv
  <1>1. UNCHANGED <<port, termios, cfg, setter, lock, txLog>> /\ port = "open" /\ txq \in Seq(TxBytes)
    BY DEF PollWrite, SerialTypeOK
  <1>2. PICK n \in Nat : txq' = txq \o [i \in 1..n |-> [rate |-> termios.speed, quiet |-> Calling = {}]]
    BY DEF PollWrite
  <1>3. PICK x \in TxBytes : x = [rate |-> termios.speed, quiet |-> Calling = {}]
    <2>1. termios.speed \in Nat /\ (Calling = {}) \in BOOLEAN
      BY DEF SerialTypeOK, Settings
    <2> QED BY <2>1, Zenon DEF TxBytes
  <1>4. txq' = txq \o [i \in 1..n |-> x]
    BY <1>2, <1>3
  <1>5. /\ txq' \in Seq(TxBytes)
        /\ \A i \in 1..Len(txq') : (i \in 1..Len(txq) /\ txq'[i] = txq[i]) \/ txq'[i] = x
    BY <1>1, <1>4, ConcatElements
  <1>6. x.rate = termios.speed /\ (x.quiet <=> Calling = {})
    BY <1>3
  <1>7. SerialTypeOK' /\ OneSetter' /\ SettingsKnown'
    BY <1>1, <1>5 DEF SerialTypeOK, OneSetter, SettingsKnown
  <1>8. \A i \in 1..Len(txq') : txq'[i].quiet => txq'[i].rate = termios'.speed
    BY <1>1, <1>5, <1>6 DEF QuietBytesFirst
  <1>9. ASSUME NEW c \in Setters, setter'[c].at = "set", NEW i \in 1..Len(txq') PROVE ~txq'[i].quiet
    <2>1. c \in Calling
      BY <1>1, <1>9 DEF Calling
    <2>2. ~x.quiet
      BY <1>6, <2>1
    <2> QED BY <1>1, <1>5, <1>9, <2>2 DEF QuietBytesFirst
  <1> QED BY <1>1, <1>7, <1>8, <1>9 DEF QuietBytesFirst, BytesLeaveAtTheirRate

\* A call moves that holds no lock before or after: nothing of the line changes.
LEMMA OutsideStep ==
    ASSUME SerialInv, NEW c \in Setters, UNCHANGED <<port, termios, cfg, lock, txq, txLog>>,
           port \in {"open", "unplugged"}, setter[c].at \in {"idle", "lock", "done"},
           setter' \in [Setters -> [at : SetterPlaces, rate : Nat, read : Settings]],
           setter'[c].at \in {"idle", "lock", "done"},
           \A d \in Setters : d # c => setter'[d] = setter[d]
    PROVE  SerialInv'
  <1> USE DEF SerialInv
  <1>1. SerialTypeOK'
    BY DEF SerialTypeOK
  <1>2. OneSetter'
    BY DEF OneSetter
  <1>3. SettingsKnown'
    BY DEF SettingsKnown
  <1>4. QuietBytesFirst'
    BY DEF QuietBytesFirst, BytesLeaveAtTheirRate
  <1> QED BY <1>1, <1>2, <1>3, <1>4

\* The holder of the lock leaves before it has set anything, an error.
LEMMA GivesUpStep ==
    ASSUME SerialInv, NEW c \in Setters, UNCHANGED <<port, termios, cfg, txq, txLog>>,
           port \in {"open", "unplugged"}, setter[c].at \in {"drain", "set"},
           Goes(c, "done"), lock' = lock \ {c}
    PROVE  SerialInv'
  <1> USE DEF SerialInv
  <1>1. /\ setter' \in [Setters -> [at : SetterPlaces, rate : Nat, read : Settings]]
        /\ setter'[c].at = "done"
        /\ \A d \in Setters : d # c => setter'[d] = setter[d]
    BY GoesTypes DEF SetterPlaces
  <1>2. SerialTypeOK'
    BY <1>1 DEF SerialTypeOK
  <1>3. OneSetter'
    BY <1>1 DEF OneSetter
  <1>4. SettingsKnown'
    BY <1>1 DEF SettingsKnown
  <1>5. QuietBytesFirst'
    BY <1>1 DEF QuietBytesFirst, BytesLeaveAtTheirRate
  <1> QED BY <1>2, <1>3, <1>4, <1>5

LEMMA TakeLockStep == ASSUME SerialInv, NEW c \in Setters, TakeLock(c) PROVE SerialInv'
  <1> USE DEF SerialInv
  <1>1. UNCHANGED <<port, termios, cfg, txq, txLog>> /\ setter[c].at = "lock" /\ lock = {}
    BY DEF TakeLock, LockFree
  <1>2. port \in {"open", "unplugged"}
    BY <1>1 DEF OneSetter, SerialTypeOK
  <1>3. CASE port = "open"
    <2>1. lock' = {c} /\ setter' = [setter EXCEPT ![c].at = "drain", ![c].read = termios]
      BY <1>1, <1>3 DEF TakeLock
    <2>2. /\ setter' \in [Setters -> [at : SetterPlaces, rate : Nat, read : Settings]]
          /\ setter'[c].at = "drain" /\ setter'[c].read = termios
          /\ \A d \in Setters : d # c => setter'[d] = setter[d]
      BY <2>1 DEF SerialTypeOK, SetterPlaces
    <2>3. SerialTypeOK'
      BY <1>1, <2>1, <2>2 DEF SerialTypeOK
    <2>4. OneSetter'
      BY <1>1, <1>2, <2>1, <2>2 DEF OneSetter
    <2>5. SettingsKnown'
      BY <1>1, <2>2 DEF SettingsKnown
    <2>6. QuietBytesFirst'
      BY <1>1, <2>2 DEF QuietBytesFirst, BytesLeaveAtTheirRate
    <2> QED BY <2>3, <2>4, <2>5, <2>6
  <1>4. CASE port # "open"
    <2>1. Goes(c, "done") /\ lock' = lock
      BY <1>4 DEF TakeLock
    <2> QED BY <1>1, <1>2, <2>1, GoesTypes, OutsideStep DEF SetterPlaces
  <1> QED BY <1>3, <1>4

LEMMA DrainStep == ASSUME SerialInv, NEW c \in Setters, WaitsDrained(c) PROVE SerialInv'
  <1> USE DEF SerialInv
  <1>1. UNCHANGED <<port, termios, cfg, txq, txLog>> /\ setter[c].at = "drain"
    BY DEF WaitsDrained
  <1>2. port \in {"open", "unplugged"}
    BY <1>1 DEF OneSetter, SerialTypeOK
  <1>3. CASE port = "open"
    <2>1. lock' = lock /\ Goes(c, "set") /\ txq = <<>> /\ Len(txq) = 0
      BY <1>3 DEF WaitsDrained, Drained
    <2>2. /\ setter' \in [Setters -> [at : SetterPlaces, rate : Nat, read : Settings]]
          /\ setter'[c].at = "set" /\ setter'[c].read = setter[c].read
          /\ \A d \in Setters : d # c => setter'[d] = setter[d]
      BY <2>1, GoesTypes DEF SetterPlaces
    <2>3. SerialTypeOK'
      BY <1>1, <2>1, <2>2 DEF SerialTypeOK
    <2>4. OneSetter'
      BY <1>1, <1>2, <2>1, <2>2 DEF OneSetter
    <2>5. SettingsKnown'
      BY <1>1, <2>2 DEF SettingsKnown
    <2>6. QuietBytesFirst'
      BY <1>1, <2>1, <2>2 DEF QuietBytesFirst, BytesLeaveAtTheirRate
    <2> QED BY <2>3, <2>4, <2>5, <2>6
  <1>4. CASE port # "open"
    <2>1. Goes(c, "done") /\ lock' = lock \ {c}
      BY <1>4 DEF WaitsDrained
    <2> QED BY <1>1, <1>2, <2>1, GivesUpStep
  <1> QED BY <1>3, <1>4

\* The rate of the line changes: no byte that was taken quietly is left.
LEMMA SetAttrStep == ASSUME SerialInv, NEW c \in Setters, SetAttr(c) PROVE SerialInv'
  <1> USE DEF SerialInv
  <1>1. UNCHANGED <<port, cfg, txq, txLog>> /\ setter[c].at = "set"
    BY DEF SetAttr
  <1>2. port \in {"open", "unplugged"}
    BY <1>1 DEF OneSetter, SerialTypeOK
  <1>3. CASE port = "open"
    <2>1. lock' = lock /\ Goes(c, "store") /\ termios' = [setter[c].read EXCEPT !.speed = setter[c].rate]
      BY <1>3 DEF SetAttr
    <2>2. /\ setter' \in [Setters -> [at : SetterPlaces, rate : Nat, read : Settings]]
          /\ setter'[c].at = "store" /\ setter'[c].rate = setter[c].rate
          /\ \A d \in Setters : d # c => setter'[d] = setter[d]
      BY <2>1, GoesTypes DEF SetterPlaces
    <2>3. /\ c \in lock /\ \A d \in Setters : d # c => setter[d].at \notin {"drain", "set", "store"}
      BY <1>1 DEF OneSetter
    <2>4. setter[c].read = termios /\ termios \in Settings /\ setter[c].rate \in Nat
      BY <1>1 DEF SettingsKnown, SerialTypeOK
    <2>5. termios' \in Settings /\ LineSays(termios') = [LineSays(termios) EXCEPT !.speed = setter[c].rate]
      BY <2>1, <2>4, SpeedSays
    <2>6. cfg = LineSays(termios)
      BY <1>1, <1>2, <2>3 DEF SettingsKnown
    <2>7. SerialTypeOK'
      BY <1>1, <2>1, <2>2, <2>5 DEF SerialTypeOK
    <2>8. OneSetter'
      BY <1>1, <1>2, <2>1, <2>2 DEF OneSetter
    <2>9. SettingsKnown'
      <3>1. [cfg' EXCEPT !.speed = setter'[c].rate] = LineSays(termios')
        BY <1>1, <2>2, <2>5, <2>6
      <3>2. \A d \in Setters : setter'[d].at \in {"drain", "set", "store"} => d = c
        BY <2>2, <2>3
      <3> QED BY <2>2, <3>1, <3>2 DEF SettingsKnown
    <2>10. QuietBytesFirst'
      <3>1. \A i \in 1..Len(txq') : ~txq'[i].quiet
        BY <1>1 DEF QuietBytesFirst
      <3> QED BY <1>1, <1>2, <3>1 DEF QuietBytesFirst, BytesLeaveAtTheirRate
    <2> QED BY <2>7, <2>8, <2>9, <2>10
  <1>4. CASE port # "open"
    <2>1. Goes(c, "done") /\ lock' = lock \ {c} /\ UNCHANGED termios
      BY <1>4 DEF SetAttr
    <2> QED BY <1>1, <1>2, <2>1, GivesUpStep
  <1> QED BY <1>3, <1>4

LEMMA StoreStep == ASSUME SerialInv, NEW c \in Setters, StoreRate(c) PROVE SerialInv'
  <1> USE DEF SerialInv
  <1>1. /\ UNCHANGED <<port, termios, txq, txLog>> /\ setter[c].at = "store" /\ Goes(c, "done")
        /\ lock' = lock \ {c} /\ cfg' = [cfg EXCEPT !.speed = setter[c].rate]
    BY DEF StoreRate
  <1>2. /\ setter' \in [Setters -> [at : SetterPlaces, rate : Nat, read : Settings]]
        /\ setter'[c].at = "done"
        /\ \A d \in Setters : d # c => setter'[d] = setter[d]
    BY <1>1, GoesTypes DEF SetterPlaces
  <1>3. /\ c \in lock /\ \A d \in Setters : d # c => setter[d].at \notin {"drain", "set", "store"}
    BY <1>1 DEF OneSetter
  <1>4. SerialTypeOK'
    <2>1. cfg' \in Configs
      BY <1>1 DEF SerialTypeOK, Configs
    <2> QED BY <1>1, <1>2, <2>1 DEF SerialTypeOK
  <1>5. OneSetter'
    BY <1>1, <1>2, <1>3 DEF OneSetter
  <1>6. SettingsKnown'
    <2>1. cfg' = LineSays(termios')
      BY <1>1 DEF SettingsKnown
    <2>2. \A d \in Setters : setter'[d].at \notin {"drain", "set", "store"}
      BY <1>2, <1>3
    <2> QED BY <2>1, <2>2 DEF SettingsKnown
  <1>7. QuietBytesFirst'
    BY <1>1, <1>2 DEF QuietBytesFirst, BytesLeaveAtTheirRate
  <1> QED BY <1>4, <1>5, <1>6, <1>7

LEMMA SerialStep == SerialInv /\ [SerialNext]_serialVars => SerialInv'
  <1> SUFFICES ASSUME SerialInv, [SerialNext]_serialVars PROVE SerialInv'
    OBVIOUS
  <1>1. CASE OpenPort \/ Transmit \/ PollWrite
    BY <1>1, OpenStep, TransmitStep, WriteStep
  <1>2. CASE PortGone \/ Arrive \/ PollRead
    BY <1>2, QuietStep DEF PortGone, Arrive, PollRead
  <1>3. ASSUME NEW c \in Setters, NEW rate \in BaudRates, CallSet(c, rate) PROVE SerialInv'
    <2>1. /\ port = "open" /\ setter[c].at = "idle" /\ UNCHANGED <<port, termios, cfg, lock, txq, txLog>>
          /\ setter' = [setter EXCEPT ![c] = [@ EXCEPT !.at = "lock", !.rate = rate]] /\ rate \in Nat
      BY <1>3, SerialConstants DEF CallSet
    <2>2. /\ setter' \in [Setters -> [at : SetterPlaces, rate : Nat, read : Settings]]
          /\ setter'[c].at = "lock" /\ \A d \in Setters : d # c => setter'[d] = setter[d]
      BY <2>1 DEF SerialInv, SerialTypeOK, SetterPlaces
    <2> QED BY <2>1, <2>2, OutsideStep
  <1>4. ASSUME NEW c \in Setters, LockTimesOut(c) PROVE SerialInv'
    <2>1. /\ setter[c].at = "lock" /\ Goes(c, "done") /\ UNCHANGED <<port, termios, cfg, lock, txq, txLog>>
      BY <1>4 DEF LockTimesOut
    <2>2. port \in {"open", "unplugged"}
      BY <2>1 DEF SerialInv, OneSetter, SerialTypeOK
    <2>3. /\ setter' \in [Setters -> [at : SetterPlaces, rate : Nat, read : Settings]]
          /\ setter'[c].at = "done" /\ \A d \in Setters : d # c => setter'[d] = setter[d]
      BY <2>1, GoesTypes DEF SerialInv, SetterPlaces
    <2> QED BY <2>1, <2>2, <2>3, OutsideStep
  <1>5. ASSUME NEW c \in Setters, TakeLock(c) \/ WaitsDrained(c) \/ SetAttr(c) \/ StoreRate(c)
        PROVE  SerialInv'
    BY <1>5, TakeLockStep, DrainStep, SetAttrStep, StoreStep
  <1>6. CASE UNCHANGED serialVars
    BY <1>6, QuietStep DEF serialVars
  <1> QED BY <1>1, <1>2, <1>3, <1>4, <1>5, <1>6 DEF SerialNext, SetterSteps

\* However many tasks set the rate, however their calls, errors, time-outs and
\* an unplug interleave, and whatever was left on the tty: with no call on its
\* way current_config is what the line does, and a byte taken in between calls
\* leaves at the rate it was written for (serial.rs:453, serial.rs:457).
THEOREM LineStaysAsConfigured == SerialSpec => []LineAsConfigured
  <1>1. SerialInit => SerialInv
    <2> SUFFICES ASSUME SerialInit PROVE SerialInv
      OBVIOUS
    <2>1. termios \in Settings /\ cfg \in Configs /\ cfg.speed \in Nat
      BY SerialConstants DEF SerialInit, Settings, Configs
    <2>2. setter \in [Setters -> [at : SetterPlaces, rate : Nat, read : Settings]]
      BY <2>1 DEF SerialInit, SetterPlaces
    <2>3. \A c \in Setters : setter[c].at = "idle"
      BY DEF SerialInit
    <2>4. txq \in Seq(TxBytes) /\ Len(txq) = 0 /\ txq = <<>>
      BY DEF SerialInit
    <2>5. port = "closed" /\ lock = {} /\ txLog = {}
      BY DEF SerialInit
    <2>6. SerialTypeOK
      BY <2>1, <2>2, <2>4, <2>5 DEF SerialTypeOK
    <2>7. OneSetter /\ SettingsKnown /\ QuietBytesFirst
      BY <2>3, <2>4, <2>5 DEF OneSetter, SettingsKnown, QuietBytesFirst, BytesLeaveAtTheirRate
    <2> QED BY <2>6, <2>7 DEF SerialInv
  <1>2. SerialInv => LineAsConfigured
    <2> SUFFICES ASSUME SerialInv PROVE LineAsConfigured
      OBVIOUS
    <2>1. ASSUME port = "open", Calling = {} PROVE cfg = LineSays(termios)
      <3>1. \A c \in Setters : setter[c].at # "store"
        BY <2>1 DEF Calling
      <3> QED BY <2>1, <3>1 DEF SerialInv, SettingsKnown
    <2> QED BY <2>1 DEF SerialInv, QuietBytesFirst, LineAsConfigured, ConfigMatchesLine
  <1> QED BY <1>1, <1>2, SerialStep, PTL DEF SerialSpec

-----------------------------------------------------------------------------
(* The mining loop.                                                        *)

LoopStates == {"top", "drain", "hash", "send", "sleep", "exited"}
CpuTasks   == 1..MaxCpuTasks
Nonces     == 0..(NonceSpace - 1)
CpuCommands ==
    [kind : {"update", "replace"}, task : CpuTasks] \cup [kind : {"idle", "shutdown"}, task : {0}]

CpuTypeOK ==
    /\ hasher \in LoopStates
    /\ cpuCmds \in Seq(CpuCommands)
    /\ cpuShut \in BOOLEAN /\ cpuTwice \in BOOLEAN
    /\ cpuTask \in 0..MaxCpuTasks /\ cpuRoot \in 0..MaxCpuTasks
    /\ cpuNonce \in Nonces /\ cpuHashes \in 0..(ClockEvery - 1)
    /\ cpuGiven \in 0..MaxCpuTasks
    /\ cpuTried \subseteq Nonces /\ cpuBack \subseteq CpuTasks

OneCommand ==
    /\ Len(cpuCmds) <= 1
    /\ (cpuCall = "none" /\ ~cpuShut) => cpuCmds = <<>>

TasksInOrder ==
    /\ cpuTask \notin cpuBack
    /\ cpuTask <= cpuGiven /\ \A b \in cpuBack : b <= cpuGiven
    /\ (Len(cpuCmds) = 1 /\ cpuCmds[1].task # 0) =>
          cpuCmds[1].task > cpuTask /\ \A b \in cpuBack : cpuCmds[1].task > b
    /\ Len(cpuCmds) = 1 => cpuCmds[1].task <= cpuGiven
    /\ hasher # "exited" =>
          \A t \in 1..cpuGiven : t \in cpuBack \/ t = cpuTask \/ (Len(cpuCmds) = 1 /\ cpuCmds[1].task = t)

RootMatches ==
    /\ cpuRoot = 0 \/ cpuRoot = cpuTask
    /\ hasher = "send" => cpuRoot # 0
    /\ hasher \in {"hash", "send"} => cpuTask # 0

\* The nonce the loop will try next, and how far behind it another one lies.
Upcoming == IF hasher = "send" THEN (cpuNonce + 1) % NonceSpace ELSE cpuNonce
Behind(x, m) == IF x < m THEN m - x ELSE m - x + NonceSpace

TriedBehind ==
    cpuTask # 0 => /\ \A x \in cpuTried : Behind(x, Upcoming) <= Cardinality(cpuTried)
                   /\ cpuRoot = 0 => cpuTried = {}

RoomLeft ==
    cpuTask # 0 =>
        IF hasher = "send" THEN Cardinality(cpuTried) <= NonceSpace - ClockEvery + cpuHashes + 1
        ELSE IF cpuHashes = 0 THEN Cardinality(cpuTried) <= NonceSpace
        ELSE Cardinality(cpuTried) <= NonceSpace - ClockEvery + cpuHashes

CpuInv == CpuTypeOK /\ OneCommand /\ TasksInOrder /\ RootMatches /\ TriedBehind /\ RoomLeft /\ HashesOnce

-----------------------------------------------------------------------------
(* Lemmas.                                                                 *)

LEMMA TriedFinite ==
    ASSUME CpuTypeOK
    PROVE  IsFiniteSet(cpuTried) /\ Cardinality(cpuTried) \in Nat
  <1>1. IsFiniteSet(Nonces)
    BY CpuConstants, FS_Interval DEF Nonces
  <1> QED BY <1>1, FS_Subset, FS_CardinalityType DEF CpuTypeOK

\* The next nonce, over the wrap.
LEMMA NextNonce ==
    ASSUME NEW n \in Nonces
    PROVE  /\ (n + 1) % NonceSpace \in Nonces
           /\ (n + 1) % NonceSpace = IF n = NonceSpace - 1 THEN 0 ELSE n + 1
  <1>1. NonceSpace \in Nat \ {0}
    BY CpuConstants
  <1>2. CASE n = NonceSpace - 1
    BY <1>1, <1>2 DEF Nonces
  <1>3. CASE n # NonceSpace - 1
    BY <1>1, <1>3 DEF Nonces
  <1> QED BY <1>2, <1>3

LEMMA NextCount ==
    ASSUME NEW h \in 0..(ClockEvery - 1)
    PROVE  /\ (h + 1) % ClockEvery \in 0..(ClockEvery - 1)
           /\ (h + 1) % ClockEvery = IF h = ClockEvery - 1 THEN 0 ELSE h + 1
  <1>1. ClockEvery \in Nat \ {0}
    BY CpuConstants
  <1>2. CASE h = ClockEvery - 1
    BY <1>1, <1>2
  <1>3. CASE h # ClockEvery - 1
    BY <1>1, <1>3
  <1> QED BY <1>2, <1>3

\* The next nonce becomes one behind, every other one moves one further.
LEMMA BehindMoves ==
    ASSUME NEW n \in Nonces, NEW x \in Nonces
    PROVE  /\ Behind(n, (n + 1) % NonceSpace) = 1
           /\ Behind(n, n) = NonceSpace
           /\ x # n => Behind(x, (n + 1) % NonceSpace) = Behind(x, n) + 1
           /\ Behind(x, n) \in Nat
  <1> DEFINE m == (n + 1) % NonceSpace
  <1>1. m = (IF n = NonceSpace - 1 THEN 0 ELSE n + 1) /\ m \in Nat
    BY NextNonce DEF Nonces
  <1>2. NonceSpace \in Nat \ {0} /\ n \in 0..(NonceSpace - 1) /\ x \in 0..(NonceSpace - 1)
    BY CpuConstants DEF Nonces
  <1> HIDE DEF m
  <1>3. Behind(n, m) = 1
    BY <1>1, <1>2 DEF Behind
  <1>4. Behind(n, n) = NonceSpace /\ Behind(x, n) \in Nat
    BY <1>2 DEF Behind
  <1>5. ASSUME x # n PROVE Behind(x, m) = Behind(x, n) + 1
    BY <1>1, <1>2, <1>5 DEF Behind
  <1> QED BY <1>3, <1>4, <1>5 DEF m

LEMMA SingleElement ==
    ASSUME NEW S, NEW s \in Seq(S), Len(s) = 1
    PROVE  Head(s) = s[1] /\ s[1] \in S /\ Tail(s) = <<>> /\ Tail(s) \in Seq(S)
  <1>1. Tail(s) \in Seq(S) /\ Len(Tail(s)) = 0
    OBVIOUS
  <1>2. Tail(s) = <<>>
    BY <1>1, EmptySeq
  <1> QED BY <1>1, <1>2

\* A channel of at most one command: what is at the head, and what is left.
LEMMA OnlyCommand ==
    ASSUME CpuTypeOK, OneCommand, cpuCmds # <<>>
    PROVE  /\ Len(cpuCmds) = 1 /\ Head(cpuCmds) = cpuCmds[1] /\ cpuCmds[1] \in CpuCommands
           /\ Tail(cpuCmds) = <<>> /\ Tail(cpuCmds) \in Seq(CpuCommands)
  <1>1. cpuCmds \in Seq(CpuCommands)
    BY DEF CpuTypeOK
  <1>2. Len(cpuCmds) \in Nat \ {0}
    BY <1>1, EmptySeq
  <1>3. Len(cpuCmds) <= 1
    BY DEF OneCommand
  <1>4. Len(cpuCmds) = 1
    <2>1. \A n \in Nat \ {0} : n <= 1 => n = 1
      OBVIOUS
    <2> QED BY <1>2, <1>3, <2>1, Zenon
  <1> QED BY <1>1, <1>4, SingleElement, Zenon

\* Room and order of the nonces depend on these only.
LEMMA NoncesKept ==
    ASSUME TriedBehind, RoomLeft, UNCHANGED <<cpuTask, cpuRoot, cpuNonce, cpuHashes, cpuTried>>,
           hasher # "send", hasher' # "send"
    PROVE  TriedBehind' /\ RoomLeft'
  BY DEF TriedBehind, RoomLeft, Upcoming, Behind

\* A task or an ntime that is new has tried none.
LEMMA NothingTried ==
    ASSUME cpuTried' = {}, hasher' # "send", cpuHashes' \in 0..(ClockEvery - 1)
    PROVE  TriedBehind' /\ RoomLeft'
  <1>1. Cardinality(cpuTried') = 0
    BY FS_EmptySet
  <1>2. RoomLeft'
    BY <1>1, CpuConstants DEF RoomLeft
  <1> QED BY <1>2 DEF TriedBehind

LEMMA NoTask ==
    ASSUME cpuTask' = 0 PROVE TriedBehind' /\ RoomLeft'
  BY DEF TriedBehind, RoomLeft

-----------------------------------------------------------------------------
(* The steps.                                                              *)

\* A command is handled: the task at work goes back, the new one is at work.
LEMMA CommandStep ==
    ASSUME CpuInv, cpuCmds # <<>>, NEW after \in {"drain", "sleep"}, HandleCommand(after),
           hasher \in {"drain", "hash"}, UNCHANGED <<cpuHashes, cpuTwice, cpuShut, cpuGiven>>
    PROVE  CpuInv'
  <1> USE DEF CpuInv
  <1> DEFINE c == cpuCmds[1]
  <1>1. /\ Len(cpuCmds) = 1 /\ Head(cpuCmds) = c /\ c \in CpuCommands
        /\ cpuCmds' = <<>> /\ cpuCmds' \in Seq(CpuCommands) /\ Len(cpuCmds') = 0
    <2>1. cpuCmds' = Tail(cpuCmds)
      BY DEF HandleCommand
    <2> QED BY <2>1, OnlyCommand
  <1>2. OneCommand'
    BY <1>1 DEF OneCommand
  <1>3. CASE c.kind = "shutdown"
    <2>1. hasher' = "exited" /\ UNCHANGED <<cpuTask, cpuRoot, cpuNonce, cpuTried, cpuBack, cpuCall>>
      BY <1>1, <1>3 DEF HandleCommand
    <2>2. CpuTypeOK'
      BY <1>1, <2>1 DEF CpuTypeOK, LoopStates
    <2>3. TasksInOrder'
      BY <1>1, <2>1 DEF TasksInOrder
    <2>4. RootMatches' /\ HashesOnce'
      BY <2>1 DEF RootMatches, HashesOnce
    <2>5. TriedBehind' /\ RoomLeft'
      BY <2>1, NoncesKept
    <2> QED BY <1>2, <2>2, <2>3, <2>4, <2>5
  <1>4. CASE c.kind # "shutdown"
    <2>1. /\ hasher' = after /\ cpuBack' = cpuBack \cup ({cpuTask} \ {0})
          /\ cpuTask' = TaskAfter(c) /\ cpuRoot' \in RootsFor(c)
          /\ IF c.kind = "idle" THEN UNCHANGED <<cpuNonce, cpuTried>>
             ELSE cpuNonce' = 0 /\ cpuTried' = {}
      BY <1>1, <1>4 DEF HandleCommand
    <2>2. c.task \in 0..MaxCpuTasks /\ (c.kind = "idle" => c.task = 0) /\ TaskAfter(c) = c.task
      BY <1>1, CpuConstants DEF CpuCommands, CpuTasks, TaskAfter
    <2>3. cpuTask' = c.task /\ (cpuRoot' = 0 \/ cpuRoot' = c.task)
      BY <2>1, <2>2 DEF RootsFor
    <2>4. hasher' \in LoopStates /\ hasher' # "send" /\ hasher' # "hash"
      BY <2>1 DEF LoopStates
    <2>5. cpuNonce' \in Nonces /\ cpuTried' \subseteq Nonces
      <3>1. 0 \in Nonces
        BY CpuConstants DEF Nonces
      <3>2. cpuNonce \in Nonces /\ cpuTried \subseteq Nonces
        BY DEF CpuTypeOK
      <3> QED BY <2>1, <3>1, <3>2
    <2>6. cpuBack' \subseteq CpuTasks
      <3>1. cpuBack \subseteq CpuTasks /\ {cpuTask} \ {0} \subseteq CpuTasks
        BY CpuConstants DEF CpuTypeOK, CpuTasks
      <3> QED BY <2>1, <3>1
    <2>7. CpuTypeOK'
      <3>1. cpuTask' \in 0..MaxCpuTasks /\ cpuRoot' \in 0..MaxCpuTasks
        <4>1. 0 \in 0..MaxCpuTasks
          BY CpuConstants
        <4> QED BY <2>2, <2>3, <4>1, Zenon
      <3>2. cpuShut' \in BOOLEAN /\ cpuTwice' \in BOOLEAN
        BY DEF CpuTypeOK
      <3>3. cpuHashes' \in 0..(ClockEvery - 1) /\ cpuGiven' \in 0..MaxCpuTasks
        BY DEF CpuTypeOK
      <3>4. cpuCmds' \in Seq(CpuCommands)
        BY <1>1
      <3> QED BY <2>4, <2>5, <2>6, <3>1, <3>2, <3>3, <3>4, Zenon DEF CpuTypeOK
    <2>8. TasksInOrder'
      <3>1. cpuTask' \notin cpuBack'
        BY <1>1, <2>1, <2>2, <2>3 DEF TasksInOrder, CpuTypeOK, CpuTasks
      <3>2. cpuTask' <= cpuGiven' /\ \A b \in cpuBack' : b <= cpuGiven'
        BY <1>1, <2>1, <2>3 DEF TasksInOrder
      <3>3. \A t \in 1..cpuGiven' : t \in cpuBack' \/ t = cpuTask'
        BY <1>1, <2>1, <2>3 DEF TasksInOrder
      <3> QED BY <1>1, <3>1, <3>2, <3>3 DEF TasksInOrder
    <2>9. RootMatches' /\ HashesOnce'
      BY <2>3, <2>4 DEF RootMatches, HashesOnce
    <2>10. TriedBehind' /\ RoomLeft'
      <3>1. CASE c.kind = "idle"
        BY <2>2, <2>3, <3>1, NoTask
      <3>2. CASE c.kind # "idle"
        <4>1. cpuHashes' \in 0..(ClockEvery - 1)
          BY DEF CpuTypeOK
        <4> QED BY <2>1, <2>4, <3>2, <4>1, NothingTried
      <3> QED BY <3>1, <3>2
    <2> QED BY <1>2, <2>7, <2>8, <2>9, <2>10
  <1> QED BY <1>3, <1>4

\* A step of the loop that moves nothing but the loop itself.
LEMMA LoopMoves ==
    ASSUME CpuInv, hasher # "send", hasher' \in LoopStates \ {"send"},
           hasher' = "hash" => cpuTask # 0, hasher = "exited" => hasher' = "exited",
           UNCHANGED <<cpuCmds, cpuCall, cpuShut, cpuTask, cpuRoot, cpuNonce, cpuHashes, cpuGiven,
                       cpuTried, cpuTwice, cpuBack>>
    PROVE  CpuInv'
  <1> USE DEF CpuInv
  <1>1. CpuTypeOK'
    BY DEF CpuTypeOK
  <1>2. OneCommand' /\ HashesOnce'
    BY DEF OneCommand, HashesOnce
  <1>3. TasksInOrder'
    BY DEF TasksInOrder
  <1>4. RootMatches'
    BY DEF RootMatches
  <1>5. TriedBehind' /\ RoomLeft'
    BY NoncesKept
  <1> QED BY <1>1, <1>2, <1>3, <1>4, <1>5

\* A nonce is tried: it was not before, and is one behind the next.
LEMMA TryStep ==
    ASSUME CpuInv, TryNonce, UNCHANGED <<cpuShut, cpuGiven>>
    PROVE  CpuInv'
  <1> USE DEF CpuInv
  <1> DEFINE n == Cardinality(cpuTried)
  <1>1. UNCHANGED <<cpuCmds, cpuCall, cpuTask, cpuRoot, cpuBack, cpuShut, cpuGiven>> /\ hasher = "hash"
    BY DEF TryNonce
  <1>2. hasher' \in {"hash", "send"} /\ (hasher' = "send" => cpuRoot # 0)
    BY <1>1 DEF TryNonce
  <1>3. OneCommand' /\ TasksInOrder'
    BY <1>1, <1>2 DEF OneCommand, TasksInOrder
  <1>4. RootMatches'
    BY <1>1, <1>2 DEF RootMatches
  <1>5. /\ cpuNonce \in Nonces /\ cpuHashes \in 0..(ClockEvery - 1) /\ cpuTried \subseteq Nonces
        /\ n \in Nat /\ cpuTask # 0 /\ IsFiniteSet(cpuTried)
    BY <1>1, TriedFinite DEF CpuTypeOK, RootMatches
  <1>6. /\ ClockEvery \in Nat \ {0} /\ NonceSpace \in Nat /\ NonceSpace >= ClockEvery
    BY CpuConstants
  <1>c. ASSUME cpuTried' \subseteq Nonces, cpuTwice' \in BOOLEAN, cpuNonce' \in Nonces,
               cpuHashes' \in 0..(ClockEvery - 1)
        PROVE  CpuTypeOK'
    BY <1>1, <1>2, <1>c DEF CpuTypeOK, LoopStates
  <1>7. CASE cpuRoot = 0
    <2>1. cpuTried = {} /\ UNCHANGED <<cpuTried, cpuTwice, hasher>> /\ NextHash
      BY <1>5, <1>7 DEF TryNonce, TriedBehind
    <2>2. cpuNonce' \in Nonces /\ cpuHashes' \in 0..(ClockEvery - 1)
      BY <1>5, <2>1, NextNonce, NextCount DEF NextHash
    <2>3. CpuTypeOK' /\ HashesOnce'
      BY <1>c, <2>1, <2>2 DEF CpuTypeOK, HashesOnce
    <2>4. TriedBehind' /\ RoomLeft'
      BY <1>1, <2>1, <2>2, NothingTried
    <2> QED BY <1>3, <1>4, <2>3, <2>4
  <1>8. CASE cpuRoot # 0
    <2>1. /\ cpuTwice' = (cpuTwice \/ cpuNonce \in cpuTried) /\ cpuTried' = cpuTried \cup {cpuNonce}
          /\ \/ hasher' = "hash" /\ NextHash
             \/ hasher' = "send" /\ UNCHANGED <<cpuNonce, cpuHashes>>
      BY <1>1, <1>8 DEF TryNonce
    <2>2. n <= NonceSpace - ClockEvery + cpuHashes
      <3>1. CASE cpuHashes = 0
        <4>1. ~(n + ClockEvery > NonceSpace)
          BY <3>1 DEF TryNonce, LooksAtClock
        <4> HIDE DEF n
        <4> QED BY <3>1, <4>1, <1>5, <1>6
      <3>2. CASE cpuHashes # 0
        BY <3>2, <1>1, <1>5 DEF RoomLeft
      <3> QED BY <3>1, <3>2
    <2>3. \A x \in cpuTried : Behind(x, cpuNonce) <= n
      BY <1>1, <1>5 DEF TriedBehind, Upcoming
    <2>4. cpuNonce \notin cpuTried
      <3>1. n < NonceSpace
        <4> HIDE DEF n
        <4> QED BY <2>2, <1>5, <1>6
      <3>2. Behind(cpuNonce, cpuNonce) = NonceSpace
        BY <1>5, BehindMoves
      <3> HIDE DEF n
      <3> QED BY <2>3, <3>1, <3>2, <1>5, <1>6
    <2>5. Cardinality(cpuTried') = n + 1
      BY <1>5, <2>1, <2>4, FS_AddElement
    <2>6. Upcoming' = (cpuNonce + 1) % NonceSpace
      BY <2>1 DEF Upcoming, NextHash
    <2>7. cpuNonce' \in Nonces /\ cpuHashes' \in 0..(ClockEvery - 1)
      BY <1>5, <2>1, NextNonce, NextCount DEF NextHash
    <2>8. CpuTypeOK' /\ HashesOnce'
      <3>1. cpuTried' \subseteq Nonces
        BY <2>1, <1>5
      <3>2. cpuTwice' = FALSE
        BY <2>1, <2>4, Zenon DEF HashesOnce
      <3>3. CpuTypeOK'
        BY <1>c, <2>7, <3>1, <3>2
      <3> QED BY <3>2, <3>3 DEF HashesOnce
    <2>9. ASSUME NEW x \in cpuTried' PROVE Behind(x, Upcoming') <= n + 1
      <3>1. CASE x = cpuNonce
        <4>1. Behind(x, Upcoming') = 1
          BY <3>1, <2>6, <1>5, BehindMoves
        <4> HIDE DEF n
        <4> QED BY <4>1, <1>5
      <3>2. CASE x # cpuNonce
        <4>1. x \in cpuTried /\ x \in Nonces
          BY <3>2, <2>1, <2>9, <1>5
        <4>2. Behind(x, Upcoming') = Behind(x, cpuNonce) + 1 /\ Behind(x, cpuNonce) \in Nat
          BY <3>2, <4>1, <2>6, <1>5, BehindMoves
        <4>3. Behind(x, cpuNonce) <= n
          BY <4>1, <2>3
        <4> HIDE DEF n
        <4> QED BY <4>2, <4>3, <1>5
      <3> QED BY <3>1, <3>2
    <2>10. TriedBehind'
      <3>1. \A x \in cpuTried' : Behind(x, Upcoming') <= Cardinality(cpuTried')
        BY <2>5, <2>9, Zenon
      <3> QED BY <1>1, <1>8, <3>1 DEF TriedBehind, Behind
    <2>11. RoomLeft'
      <3> HIDE DEF n
      <3>1. CASE hasher' = "send"
        <4>1. n + 1 <= NonceSpace - ClockEvery + cpuHashes' + 1
          BY <3>1, <2>1, <2>2, <1>5, <1>6
        <4> QED BY <3>1, <4>1, <2>5 DEF RoomLeft
      <3>2. CASE hasher' = "hash"
        <4>1. cpuHashes' = (IF cpuHashes = ClockEvery - 1 THEN 0 ELSE cpuHashes + 1)
          BY <3>2, <2>1, <1>5, NextCount DEF NextHash
        <4>2. IF cpuHashes' = 0 THEN n + 1 <= NonceSpace ELSE n + 1 <= NonceSpace - ClockEvery + cpuHashes'
          BY <4>1, <2>2, <1>5, <1>6
        <4> QED BY <3>2, <4>2, <2>5 DEF RoomLeft
      <3> QED BY <3>1, <3>2, <1>2
    <2> QED BY <1>3, <1>4, <2>8, <2>10, <2>11
  <1> QED BY <1>7, <1>8

\* A share went to its channel, or was dropped: the loop goes on to the next nonce.
LEMMA SendStep ==
    ASSUME CpuInv, BlockingSend, UNCHANGED <<cpuShut, cpuGiven>>
    PROVE  CpuInv'
  <1> USE DEF CpuInv
  <1>1. /\ UNCHANGED <<cpuCmds, cpuCall, cpuTask, cpuRoot, cpuTried, cpuTwice, cpuBack, cpuShut, cpuGiven>>
        /\ hasher = "send" /\ hasher' = "hash"
        /\ cpuNonce' = (cpuNonce + 1) % NonceSpace /\ cpuHashes' = (cpuHashes + 1) % ClockEvery
    BY DEF BlockingSend, NextHash
  <1>2. cpuNonce \in Nonces /\ cpuHashes \in 0..(ClockEvery - 1)
    BY DEF CpuTypeOK
  <1>3. cpuNonce' \in Nonces /\ cpuHashes' \in 0..(ClockEvery - 1)
    BY <1>1, <1>2, NextNonce, NextCount
  <1>4. CpuTypeOK'
    BY <1>1, <1>3 DEF CpuTypeOK, LoopStates
  <1>5. OneCommand' /\ TasksInOrder' /\ HashesOnce'
    BY <1>1 DEF OneCommand, TasksInOrder, HashesOnce
  <1>6. RootMatches'
    BY <1>1 DEF RootMatches
  <1>7. TriedBehind'
    <2>1. Upcoming' = Upcoming
      BY <1>1 DEF Upcoming
    <2> QED BY <1>1, <2>1 DEF TriedBehind, Behind
  <1>8. RoomLeft'
    <2> DEFINE n == Cardinality(cpuTried)
    <2>1. n \in Nat /\ cpuTask # 0 /\ n <= NonceSpace - ClockEvery + cpuHashes + 1
      BY <1>1, TriedFinite DEF RoomLeft, RootMatches
    <2>2. Cardinality(cpuTried') = n
      BY <1>1
    <2> HIDE DEF n
    <2>3. ClockEvery \in Nat \ {0} /\ NonceSpace \in Nat /\ NonceSpace >= ClockEvery
      BY CpuConstants
    <2>4. cpuHashes' = (IF cpuHashes = ClockEvery - 1 THEN 0 ELSE cpuHashes + 1)
      BY <1>1, <1>2, NextCount
    <2>5. IF cpuHashes' = 0 THEN n <= NonceSpace ELSE n <= NonceSpace - ClockEvery + cpuHashes'
      BY <2>1, <2>3, <2>4, <1>2
    <2> QED BY <1>1, <2>2, <2>5 DEF RoomLeft
  <1> QED BY <1>4, <1>5, <1>6, <1>7, <1>8

\* The scheduler's steps touch only the channel, the call and the receivers.
LEMMA SchedulerKeeps ==
    ASSUME CpuInv, UNCHANGED <<hasher, cpuTask, cpuRoot, cpuNonce, cpuHashes, cpuTried, cpuTwice, cpuBack>>
    PROVE  TriedBehind' /\ RoomLeft' /\ RootMatches' /\ HashesOnce'
  BY DEF CpuInv, TriedBehind, RoomLeft, RootMatches, HashesOnce, Upcoming, Behind

\* A command enters an empty channel.
LEMMA ChannelTakes ==
    ASSUME CpuInv, cpuCall = "none", ~cpuShut, NEW c \in CpuCommands, cpuCmds' = Append(cpuCmds, c)
    PROVE  Len(cpuCmds) = 0 /\ Len(cpuCmds') = 1 /\ cpuCmds'[1] = c /\ cpuCmds' \in Seq(CpuCommands)
  <1>1. cpuCmds = <<>>
    BY DEF CpuInv, OneCommand
  <1>2. cpuCmds' = <<c>>
    BY <1>1
  <1> QED BY <1>1, <1>2

LEMMA NewTaskStep ==
    ASSUME CpuInv, NEW kind \in {"update", "replace"}, CpuNewTask(kind)
    PROVE  CpuInv'
  <1> USE DEF CpuInv
  <1> DEFINE g == cpuGiven + 1
  <1>1. /\ UNCHANGED <<hasher, cpuShut, cpuTask, cpuRoot, cpuNonce, cpuHashes, cpuTried, cpuTwice, cpuBack>>
        /\ cpuCall = "none" /\ ~cpuShut /\ cpuGiven' = g /\ cpuCall' = kind
        /\ cpuCmds' = Append(cpuCmds, [kind |-> kind, task |-> g])
    BY DEF CpuNewTask, CpuCommand
  <1>2. cpuGiven \in Nat /\ g \in CpuTasks /\ g \in 0..MaxCpuTasks
    BY CpuConstants DEF CpuTypeOK, CpuNewTask, CpuTasks
  <1>3. PICK c \in CpuCommands : c = [kind |-> kind, task |-> g]
    BY <1>2 DEF CpuCommands
  <1>4. Len(cpuCmds) = 0 /\ Len(cpuCmds') = 1 /\ cpuCmds'[1] = c /\ cpuCmds' \in Seq(CpuCommands) /\ c.task = g
    BY <1>1, <1>3, ChannelTakes
  <1>5. CpuTypeOK'
    BY <1>1, <1>2, <1>4 DEF CpuTypeOK
  <1>6. OneCommand'
    BY <1>1, <1>4 DEF OneCommand
  <1>7. TasksInOrder'
    <2>1. cpuTask \in Nat /\ cpuBack \subseteq Nat
      BY DEF CpuTypeOK, CpuTasks
    <2>2. cpuTask <= cpuGiven /\ \A b \in cpuBack : b <= cpuGiven
      BY DEF TasksInOrder
    <2>3. cpuTask < g /\ \A b \in cpuBack : b < g
      BY <1>2, <2>1, <2>2
    <2>4. \A t \in 1..g : t \in 1..cpuGiven \/ t = g
      BY <1>2
    <2>5. hasher # "exited" => \A t \in 1..cpuGiven : t \in cpuBack \/ t = cpuTask
      BY <1>4 DEF TasksInOrder
    <2> HIDE DEF g
    <2>6. hasher' # "exited" => \A t \in 1..cpuGiven' :
             t \in cpuBack' \/ t = cpuTask' \/ (Len(cpuCmds') = 1 /\ cpuCmds'[1].task = t)
      BY <1>1, <1>4, <2>4, <2>5
    <2>7. cpuTask' \notin cpuBack'
      BY <1>1 DEF TasksInOrder
    <2>8. /\ cpuTask' <= cpuGiven' /\ \A b \in cpuBack' : b <= cpuGiven'
          /\ cpuCmds'[1].task > cpuTask' /\ \A b \in cpuBack' : cpuCmds'[1].task > b
          /\ cpuCmds'[1].task <= cpuGiven'
      BY <1>1, <1>2, <1>4, <2>1, <2>3 DEF CpuTasks
    <2> QED BY <2>6, <2>7, <2>8 DEF TasksInOrder
  <1> QED BY <1>1, <1>5, <1>6, <1>7, SchedulerKeeps

\* go_idle and the drop of the handle send a command without a task.
LEMMA PlainCommandStep ==
    ASSUME CpuInv, CpuGoIdle \/ CpuDropped
    PROVE  CpuInv'
  <1> USE DEF CpuInv
  <1>1. /\ UNCHANGED <<hasher, cpuTask, cpuRoot, cpuNonce, cpuHashes, cpuTried, cpuTwice, cpuBack, cpuGiven>>
        /\ cpuCall = "none" /\ ~cpuShut /\ cpuShut' \in BOOLEAN /\ (cpuCall' # "none" \/ cpuShut')
    <2>1. CASE CpuGoIdle
      BY <2>1 DEF CpuGoIdle, CpuTypeOK
    <2>2. CASE CpuDropped
      BY <2>2 DEF CpuDropped
    <2> QED BY <2>1, <2>2
  <1>2. PICK k \in {"idle", "shutdown"} : cpuCmds' = Append(cpuCmds, [kind |-> k, task |-> 0])
    BY DEF CpuGoIdle, CpuDropped, CpuCommand
  <1>3. PICK c \in CpuCommands : c = [kind |-> k, task |-> 0]
    BY DEF CpuCommands
  <1>4. Len(cpuCmds) = 0 /\ Len(cpuCmds') = 1 /\ cpuCmds'[1] = c /\ cpuCmds' \in Seq(CpuCommands) /\ c.task = 0
    BY <1>1, <1>2, <1>3, ChannelTakes
  <1>5. CpuTypeOK'
    <2>1. cpuCmds' \in Seq(CpuCommands) /\ cpuShut' \in BOOLEAN
      BY <1>1, <1>4
    <2> QED BY <1>1, <2>1, Zenon DEF CpuTypeOK
  <1>6. OneCommand'
    BY <1>1, <1>4 DEF OneCommand
  <1>7. TasksInOrder'
    <2>1. cpuGiven \in Nat
      BY CpuConstants DEF CpuTypeOK
    <2> QED BY <1>1, <1>4, <2>1 DEF TasksInOrder
  <1> QED BY <1>1, <1>5, <1>6, <1>7, SchedulerKeeps

LEMMA CpuStep == CpuInv /\ [CpuNext]_cpuVars => CpuInv'
  <1> SUFFICES ASSUME CpuInv, [CpuNext]_cpuVars PROVE CpuInv'
    OBVIOUS
  <1>1. CASE CpuNewTask("update") \/ CpuNewTask("replace")
    BY <1>1, NewTaskStep
  <1>2. CASE CpuGoIdle \/ CpuDropped
    BY <1>2, PlainCommandStep
  <1>3. ASSUME UNCHANGED <<hasher, cpuCmds, cpuCall, cpuShut, cpuTask, cpuRoot, cpuNonce, cpuHashes,
                           cpuGiven, cpuTried, cpuTwice, cpuBack>>
        PROVE  CpuInv'
    <2>1. TriedBehind' /\ RoomLeft' /\ RootMatches' /\ HashesOnce'
      BY <1>3, SchedulerKeeps
    <2> QED BY <1>3, <2>1 DEF CpuInv, CpuTypeOK, OneCommand, TasksInOrder
  <1>4. ASSUME NEW t \in 1..MaxCpuTasks, CpuReadShare(t) PROVE CpuInv'
    BY <1>3, <1>4 DEF CpuReadShare
  <1>5. CASE UNCHANGED cpuVars
    BY <1>3, <1>5 DEF cpuVars
  <1>6. CASE MiningLoop
    <2>0. UNCHANGED <<cpuShut, cpuGiven, cpuOpen>>
      BY <1>6 DEF MiningLoop
    <2>1. CASE LoopTop
      <3>1. /\ UNCHANGED <<cpuCmds, cpuCall, cpuTask, cpuRoot, cpuNonce, cpuHashes, cpuTried, cpuTwice, cpuBack>>
            /\ hasher = "top" /\ hasher' \in {"drain", "exited"}
        BY <2>1 DEF LoopTop
      <3> QED BY <2>0, <3>1, LoopMoves DEF LoopStates
    <2>2. CASE Drain
      <3>1. CASE cpuCmds # <<>> /\ HandleCommand("drain")
        BY <2>0, <2>2, <3>1, CommandStep DEF Drain
      <3>2. CASE ~(cpuCmds # <<>> /\ HandleCommand("drain"))
        <4>1. /\ UNCHANGED <<cpuCmds, cpuCall, cpuTask, cpuRoot, cpuNonce, cpuHashes, cpuTried, cpuTwice, cpuBack>>
              /\ hasher = "drain" /\ hasher' = IF cpuTask # 0 THEN "hash" ELSE "top"
          BY <2>2, <3>2 DEF Drain
        <4> QED BY <2>0, <4>1, LoopMoves DEF LoopStates
      <3> QED BY <3>1, <3>2
    <2>3. CASE WorkOver \/ SeesFlag
      <3>1. /\ UNCHANGED <<cpuCmds, cpuCall, cpuTask, cpuRoot, cpuNonce, cpuHashes, cpuTried, cpuTwice, cpuBack>>
            /\ hasher = "hash" /\ hasher' \in {"sleep", "exited"}
        BY <2>3 DEF WorkOver, SeesFlag
      <3> QED BY <2>0, <3>1, LoopMoves DEF LoopStates
    <2>4. CASE Interrupt
      BY <2>0, <2>4, CommandStep DEF Interrupt, LooksAtCommands
    <2>5. CASE TryNonce
      BY <2>0, <2>5, TryStep
    <2>6. CASE BlockingSend
      BY <2>0, <2>6, SendStep
    <2>7. CASE SleepEnds
      <3> USE DEF CpuInv
      <3>1. /\ UNCHANGED <<cpuCmds, cpuCall, cpuTask, cpuRoot, cpuNonce, cpuTwice, cpuBack>>
            /\ hasher = "sleep" /\ hasher' = "top" /\ cpuHashes' \in {cpuHashes, 0}
            /\ cpuTask # 0 => cpuTried' = {}
            /\ cpuTried' = {} \/ cpuTried' = cpuTried
        BY <2>7 DEF SleepEnds, RollTime
      <3>2. cpuHashes' \in 0..(ClockEvery - 1)
        BY <3>1, CpuConstants DEF CpuTypeOK
      <3>3. CpuTypeOK'
        <4>1. cpuTried' \subseteq Nonces
          BY <3>1 DEF CpuTypeOK
        <4> QED BY <2>0, <3>1, <3>2, <4>1 DEF CpuTypeOK, LoopStates
      <3>4. OneCommand' /\ TasksInOrder' /\ RootMatches' /\ HashesOnce'
        BY <2>0, <3>1 DEF OneCommand, TasksInOrder, RootMatches, HashesOnce
      <3>5. TriedBehind' /\ RoomLeft'
        <4>1. CASE cpuTask = 0
          BY <3>1, <4>1, NoTask
        <4>2. CASE cpuTask # 0
          BY <3>1, <3>2, <4>2, NothingTried
        <4> QED BY <4>1, <4>2
      <3> QED BY <3>3, <3>4, <3>5
    <2> QED BY <1>6, <2>1, <2>2, <2>3, <2>4, <2>5, <2>6, <2>7 DEF MiningLoop
  <1> QED BY <1>1, <1>2, <1>4, <1>5, <1>6 DEF CpuNext

LEMMA CpuInitInv == CpuInit => CpuInv
  <1> SUFFICES ASSUME CpuInit PROVE CpuInv
    OBVIOUS
  <1>1. cpuCmds = <<>> /\ cpuCmds \in Seq(CpuCommands) /\ Len(cpuCmds) = 0
    BY DEF CpuInit
  <1>2. CpuTypeOK
    <2>1. 0 \in 0..MaxCpuTasks /\ 0 \in Nonces /\ 0 \in 0..(ClockEvery - 1)
      BY CpuConstants DEF Nonces
    <2> QED BY <1>1, <2>1 DEF CpuInit, CpuTypeOK, LoopStates
  <1>3. OneCommand /\ TasksInOrder
    BY <1>1 DEF CpuInit, OneCommand, TasksInOrder
  <1>4. RootMatches /\ HashesOnce /\ TriedBehind /\ RoomLeft
    BY DEF CpuInit, RootMatches, HashesOnce, TriedBehind, RoomLeft
  <1> QED BY <1>2, <1>3, <1>4 DEF CpuInv

-----------------------------------------------------------------------------
(* The theorem.                                                            *)

\* For every nonce space, every rhythm of looks at the clock and at the
\* commands, and any number of tasks: shares are of the task at work, no nonce
\* is tried twice for a task and an ntime, and every task that was taken is
\* handed back, once (hasher.rs:90).
THEOREM CpuWorkStaysCurrent == CpuSpec => []CpuWorkIsCurrent
  <1>1. CpuInv => CpuWorkIsCurrent
    <2> SUFFICES ASSUME CpuInv PROVE CpuWorkIsCurrent
      OBVIOUS
    <2>1. SharesOfCurrentTask /\ HashesOnce
      BY DEF CpuInv, RootMatches, SharesOfCurrentTask
    <2>2. TasksHandedBack
      <3>1. cpuTask \notin cpuBack
        BY DEF CpuInv, TasksInOrder
      <3>2. ASSUME hasher # "exited", NEW t \in 1..cpuGiven
            PROVE  t \in cpuBack \cup {cpuTask} \cup {cpuCmds[i].task : i \in DOMAIN cpuCmds}
        <4>1. t \in cpuBack \/ t = cpuTask \/ (Len(cpuCmds) = 1 /\ cpuCmds[1].task = t)
          BY <3>2 DEF CpuInv, TasksInOrder
        <4>2. Len(cpuCmds) = 1 => 1 \in DOMAIN cpuCmds
          BY DEF CpuInv, CpuTypeOK
        <4> QED BY <4>1, <4>2
      <3> QED BY <3>1, <3>2 DEF TasksHandedBack
    <2> QED BY <2>1, <2>2 DEF CpuWorkIsCurrent
  <1> QED BY CpuInitInv, CpuStep, <1>1, PTL DEF CpuSpec

=============================================================================
