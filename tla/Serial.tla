------------------------------- MODULE Serial -------------------------------
(***************************************************************************)
(* The serial port under the chips (transport/serial.rs): one descriptor   *)
(* shared by a reader, a writer and a control handle that changes the baud *)
(* rate while the other two go on.  The tty of the kernel is external.     *)
(***************************************************************************)
EXTENDS Naturals, Sequences, FiniteSets

CONSTANTS
    Setters,     \* tasks that hold the control handle
    BaudRates,   \* rates they ask for
    PortConfigs, \* configurations to open the port with
    Leftovers,   \* settings its last user may have left on it
    TxRoom,      \* bytes the output queue of the tty holds
    MaxTx, MaxRx \* bounds: bytes written, bytes that arrive

ASSUME SerialConstants ==
    /\ {TxRoom, MaxTx, MaxRx} \subseteq Nat /\ BaudRates \subseteq Nat
    /\ PortConfigs \subseteq [speed : Nat, data : Nat, stop : Nat, parity : {"None", "Odd", "Even"}]
    /\ Leftovers \subseteq [speed : Nat, csize : Nat, cstopb : BOOLEAN, parenb : BOOLEAN, parodd : BOOLEAN]

VARIABLES
    port,     \* "closed", "open", "refused" or "unplugged"
    termios,  \* of the tty: [speed, csize, cstopb, parenb, parodd]
    cfg,      \* SerialConfig as the atomics of SerialInner keep it
    setter,   \* calls of set_baud_rate: [at, rate, read] of each task
    lock,     \* reconfig_lock: the task that holds it, if any
    txq,      \* output queue: bytes as [rate, quiet] of the moment of their write
    txLog,    \* history: bytes that left, [byte, rate]
    rxq, stats \* bytes to read; SerialStats

serialVars == <<port, termios, cfg, setter, lock, txq, txLog, rxq, stats>>

SerialInit ==
    /\ port = "closed" /\ cfg \in PortConfigs /\ termios \in Leftovers
    /\ setter = [c \in Setters |-> [at |-> "idle", rate |-> cfg.speed, read |-> termios]]
    /\ lock = {} /\ txq = <<>> /\ txLog = {} /\ rxq = 0
    /\ stats = [read |-> 0, written |-> 0]

-----------------------------------------------------------------------------
(* Opening the port.                                                       *)

ValidConfig(c) == c.data \in 5..8 /\ c.stop \in {1, 2}

\* apply_serial_config: without parity the kind of parity is left alone.
Applied(t, c) ==
    [speed |-> c.speed, csize |-> c.data, cstopb |-> c.stop = 2,
     parenb |-> c.parity # "None",
     parodd |-> IF c.parity = "None" THEN t.parodd ELSE c.parity = "Odd"]

OpenPort ==
    /\ port = "closed"
    /\ \/ ValidConfig(cfg) /\ port' = "open" /\ termios' = Applied(termios, cfg)
       \/ ~ValidConfig(cfg) /\ port' = "refused" /\ UNCHANGED termios
    /\ UNCHANGED <<cfg, setter, lock, txq, txLog, rxq, stats>>

-----------------------------------------------------------------------------
(* The tty and the two halves of the stream.                               *)

PortGone == port = "open" /\ port' = "unplugged"
          /\ UNCHANGED <<termios, cfg, setter, lock, txq, txLog, rxq, stats>>

Transmit ==
    /\ port = "open" /\ txq # <<>>
    /\ txq' = Tail(txq) /\ txLog' = txLog \cup {[byte |-> Head(txq), rate |-> termios.speed]}
    /\ UNCHANGED <<port, termios, cfg, setter, lock, rxq, stats>>

Arrive ==
    /\ port = "open" /\ rxq + stats.read < MaxRx /\ rxq' = rxq + 1
    /\ UNCHANGED <<port, termios, cfg, setter, lock, txq, txLog, stats>>

\* poll_read: without bytes it would block; an error changes nothing here.
PollRead ==
    /\ port = "open"
    /\ \E n \in 1..rxq : rxq' = rxq - n /\ stats' = [stats EXCEPT !.read = @ + n]
    /\ UNCHANGED <<port, termios, cfg, setter, lock, txq, txLog>>

Calling == {c \in Setters : setter[c].at \notin {"idle", "done"}}

\* poll_write: as many bytes as there is room for, with no look at the lock.
PollWrite ==
    /\ port = "open" /\ stats.written < MaxTx
    /\ \E n \in 1..(TxRoom - Len(txq)) :
          /\ n <= MaxTx - stats.written
          /\ txq' = txq \o [i \in 1..n |-> [rate |-> termios.speed, quiet |-> Calling = {}]]
          /\ stats' = [stats EXCEPT !.written = @ + n]
    /\ UNCHANGED <<port, termios, cfg, setter, lock, txLog, rxq>>

-----------------------------------------------------------------------------
(* set_baud_rate.                                                          *)

Goes(c, to) == setter' = [setter EXCEPT ![c].at = to]

CallSet(c, rate) ==
    /\ port = "open" /\ setter[c].at = "idle"
    /\ setter' = [setter EXCEPT ![c] = [@ EXCEPT !.at = "lock", !.rate = rate]]
    /\ UNCHANGED <<port, termios, cfg, lock, txq, txLog, rxq, stats>>

LockUnasked(c) == TRUE                       \* mutant: no lock

LockFree(c) == lock = {}

\* tcgetattr and set_speed, under the lock; an error drops the guard.
TakeLock(c) ==
    /\ setter[c].at = "lock" /\ LockFree(c)
    /\ IF port = "open"
       THEN lock' = lock \cup {c} /\ setter' = [setter EXCEPT ![c].at = "drain", ![c].read = termios]
       ELSE Goes(c, "done") /\ UNCHANGED lock
    /\ UNCHANGED <<port, termios, cfg, txq, txLog, rxq, stats>>

\* try_write_for gives up after 5 s.
LockTimesOut(c) ==
    /\ setter[c].at = "lock" /\ lock # {} /\ Goes(c, "done")
    /\ UNCHANGED <<port, termios, cfg, lock, txq, txLog, rxq, stats>>

Drained(c) == txq = <<>>

\* OptionalActions::Drain: the tty waits for its queue, and then sets.
WaitsDrained(c) ==
    /\ setter[c].at = "drain" /\ (Drained(c) \/ port # "open")
    /\ IF port = "open" THEN Goes(c, "set") /\ UNCHANGED lock
       ELSE Goes(c, "done") /\ lock' = lock \ {c}
    /\ UNCHANGED <<port, termios, cfg, txq, txLog, rxq, stats>>

SetAttr(c) ==
    /\ setter[c].at = "set"
    /\ IF port = "open"
       THEN termios' = [setter[c].read EXCEPT !.speed = setter[c].rate] /\ Goes(c, "store") /\ UNCHANGED lock
       ELSE Goes(c, "done") /\ lock' = lock \ {c} /\ UNCHANGED termios
    /\ UNCHANGED <<port, cfg, txq, txLog, rxq, stats>>

StoreRate(c) ==
    /\ setter[c].at = "store" /\ cfg' = [cfg EXCEPT !.speed = setter[c].rate]
    /\ Goes(c, "done") /\ lock' = lock \ {c}
    /\ UNCHANGED <<port, termios, txq, txLog, rxq, stats>>

SetterSteps == \E c \in Setters : TakeLock(c) \/ LockTimesOut(c) \/ WaitsDrained(c) \/ SetAttr(c) \/ StoreRate(c)

SerialNext ==
    \/ OpenPort \/ PortGone \/ Transmit \/ Arrive \/ PollRead \/ PollWrite \/ SetterSteps
    \/ \E c \in Setters, rate \in BaudRates : CallSet(c, rate)

SerialSpec == SerialInit /\ [][SerialNext]_serialVars

-----------------------------------------------------------------------------
(* Properties.                                                             *)

\* What a tty with these settings does.
LineSays(t) ==
    [speed |-> t.speed, data |-> t.csize, stop |-> IF t.cstopb THEN 2 ELSE 1,
     parity |-> IF ~t.parenb THEN "None" ELSE IF t.parodd THEN "Odd" ELSE "Even"]

\* Whatever was left on the port, and however calls of several tasks, their
\* errors and an unplug interleave, with no call on its way current_config is
\* what the line does (serial.rs:457).
ConfigMatchesLine == (port = "open" /\ Calling = {}) => cfg = LineSays(termios)

\* A byte that the port took while nobody was changing the rate leaves at the
\* rate of that time, not at a later one: the chips are told of a new rate at
\* the old (serial.rs:453).
BytesLeaveAtTheirRate == \A b \in txLog : b.byte.quiet => b.rate = b.byte.rate

\* The line is what the port says it is, for every byte (serial.rs:453, :457).
LineAsConfigured == ConfigMatchesLine /\ BytesLeaveAtTheirRate
=============================================================================
