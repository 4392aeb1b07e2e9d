------------------------------- MODULE Nano3s -------------------------------
(***************************************************************************)
(* The Avalon Nano 3S board: the worker thread of                          *)
(* mujina-miner/src/board/nano3s.rs on the Linux side, stage6 of           *)
(* rtos_core/src/main.c on the real-time side, and the shim between them   *)
(* (rtos_core/tools/nano3s_ipc_shim.c).                                    *)
(*                                                                         *)
(* The operator's requests pass the checks of api/v0.rs and are written,   *)
(* one at a time, to a control file.  The worker polls that file, takes    *)
(* the scheduler's tasks, drains the nonces and runs the power-target loop *)
(* on the last status it has, once per pass.  It talks to the RTOS by      *)
(* one-way messages; the RTOS keeps the newest of each kind and its worker *)
(* consumes them once per pass.  Power mode and tuning are files on flash. *)
(*                                                                         *)
(* Data abstraction.  A list of four PLL frequencies is a name; a task is  *)
(* its number; a nonce is the id of its job; of the share channel of a     *)
(* task only whether it is full is kept.  Voltages are the real            *)
(* millivolts, because their grid matters.  Of time only the interval of   *)
(* the power-target loop is kept, as the flag w.due.                       *)
(***************************************************************************)
EXTENDS Integers, Sequences, FiniteSets

CONSTANTS
    None,        \* Rust's Option::None
    Commands,    \* directives the operator may request
    Powers,      \* readings of the power monitor in watts, 0 if unavailable
    Flash,       \* what an earlier session left on flash
    EnvTarget,   \* MUJINA_NANO3S_POWER_TARGET_W
    Rc,          \* outcomes of a send over IPC: {TRUE}, or BOOLEAN if it may fail
    Idling,      \* whether the scheduler calls go_idle
    Restarts,    \* kinds of restart, among "reboot" and "relaunch"
    MaxRestarts, \* bound: restarts
    MaxWrites,   \* bound: directives written
    MaxChecks,   \* bound: expiries of the power-target interval
    MaxTasks,    \* bound: tasks handed to the worker
    IpcCap,      \* bound: messages under way to the RTOS
    NonceCap,    \* NANO3S_NONCE_QUEUE_CAP (64 in the code)
    History      \* jobs remembered (4 in the code)

VARIABLES
    ctl,         \* contents of MUJINA_CONTROL_FILE
    file,        \* flash: POWER_MODE_FILE and TUNING_FILE
    pc, cmd,     \* the worker's position in its pass, the directive read
    w,           \* the worker's locals
    task,        \* current_task
    jobs,        \* jobs: the id and the task of each job remembered
    nextJob,     \* job_id_counter
    ipc,         \* messages under way to the RTOS
    rtos,        \* struct stage6_ctx and g_stage6_persist_paused
    dcdc,        \* core voltage set in the DC/DC controller
    shim,        \* g_last_status (its voltage), None before the first
    nonces,      \* g_nonce_queue
    given,       \* number of tasks handed over
    full,        \* tasks whose share channel is full
    restarts, writes, checks, \* counters for the bounds
    want,        \* history: the last pause or resume the worker read
    hand,        \* history: the operator's last word on voltage was a raw one
    raw,         \* history: the last raw voltage latched in this mode and session
    unsent,      \* history: paused by the operator, and no task sent since
    left         \* history: paused by a process that has ended, by none since

rtosVars == <<ipc, rtos, dcdc, shim, nonces>>
jobVars  == <<task, jobs, nextJob, given, full>>
histVars == <<want, hand, raw, unsent, left>>
counters == <<restarts, writes, checks>>
vars     == <<ctl, file, pc, cmd, w, jobVars, rtosVars, counters, histVars>>

Modes == {"stock", "oc", "bypass"}
Freqs == {"cold", "low", "high", "tuned"}
Watts == 20..250

\* Directives of the control file.
Pause            == [op |-> "pause"]
Resume           == [op |-> "resume"]
Mode(m)          == [op |-> "mode", mode |-> m]
Tune(f, mv, p)   == [op |-> "tune", freq |-> f, volt |-> mv, watts |-> p]
PowerTarget(p)   == [op |-> "target", watts |-> p]

\* What the API lets through: the widest range of any mode.
Accepted(c) ==
    CASE c.op = "mode"   -> c.mode \in Modes
      [] c.op = "tune"   -> /\ c.freq \in Freqs \cup {None}
                            /\ c.volt \in (3000..4095) \cup {None}
                            /\ c.watts \in Watts \cup {None}
                            /\ <<c.freq, c.volt, c.watts>> # <<None, None, None>>
      [] c.op = "target" -> c.watts \in Watts \cup {None}
      [] OTHER           -> TRUE

-----------------------------------------------------------------------------
(* The power modes.                                                        *)

RampTarget(m) == IF m = "stock" THEN "low" ELSE "high"
VMin(m)       == IF m = "bypass" THEN 3000 ELSE 3300
VMax(m)       == IF m = "bypass" THEN 4095 ELSE 3800

Clamp(mv, m) ==
    IF mv < VMin(m) THEN VMin(m) ELSE IF mv > VMax(m) THEN VMax(m) ELSE mv

\* Contents of the tuning file.
Tunings == [freq : Freqs, volt : Int \cup {None}, watts : Watts \cup {None}]

ASSUME Nano3sConstants ==
    /\ \A c \in Commands : Accepted(c)
    /\ Powers \subseteq Nat
    /\ Flash \in [mode : Modes, tune : Tunings \cup {None}]
    /\ Flash.tune # None =>
         Flash.tune.volt \in (3000..4095) \cup {None}
    /\ EnvTarget \in Watts \cup {None}
    /\ Rc \in SUBSET BOOLEAN /\ TRUE \in Rc
    /\ Idling \in BOOLEAN
    /\ Restarts \subseteq {"reboot", "relaunch"}
    /\ {MaxRestarts, MaxWrites, MaxChecks, MaxTasks} \subseteq Nat
    /\ IpcCap \in Nat /\ IpcCap >= 3
    /\ {NonceCap, History} \subseteq Nat \ {0}
    /\ None \notin Int /\ None \notin Freqs

SafetyTrip(m, target) ==
    CASE m = "stock"  -> 120
      [] m = "oc"     -> IF target = None THEN 133 ELSE target + 8
      [] m = "bypass" -> None

StepMv   == 26
DeadBand == 5
AvoidMv  == 3600

\* What the DC/DC controller is really set to: whole steps from 3600 mV,
\* counted towards zero and at most 127 of them.
Quantised(mv) ==
    LET magnitude == (IF mv >= 3600 THEN mv - 3600 ELSE 3600 - mv) \div 26
        steps     == IF magnitude > 127 THEN 127 ELSE magnitude
    IN  IF mv >= 3600 THEN 3600 + 26 * steps ELSE 3600 - 26 * steps

-----------------------------------------------------------------------------
(* Messages to the RTOS, and its state when stage6 begins.                 *)

Post(ok, m)  == IF ok THEN <<m>> ELSE <<>>
SetMode(f)   == [type |-> "mode", freq |-> f]
SetVolt(mv)  == [type |-> "volt", mv |-> mv]
Job(id)      == [type |-> "job", id |-> id]
PauseMsg     == [type |-> "pause"]
ResumeMsg    == [type |-> "resume"]

\* Bring-up leaves 100 MHz and 3496 mV; a pause that persists skips it.
FreshRtos(persist) ==
    [at |-> "top", pauseReq |-> FALSE, resumeReq |-> FALSE, paused |-> persist,
     persist |-> persist, pendFreq |-> None, pendVolt |-> None, pendJob |-> None,
     freq |-> "cold", volt |-> IF persist THEN 0 ELSE 3496, job |-> None]

FreshWorker ==
    [mode |-> "stock", target |-> None, override |-> FALSE, due |-> FALSE,
     freq |-> "low", volt |-> None, idle |-> FALSE, manual |-> FALSE, power |-> 0]

Init ==
    /\ ctl = None
    /\ file = Flash
    /\ pc = "start" /\ cmd = None
    /\ w = FreshWorker
    /\ task = None /\ jobs = {} /\ nextJob = 1 /\ given = 0 /\ full = {}
    /\ ipc = <<>> /\ rtos = FreshRtos(FALSE) /\ dcdc = 3496
    /\ shim = None /\ nonces = <<>>
    /\ restarts = 0 /\ writes = 0 /\ checks = 0
    /\ want = "run" /\ hand = FALSE /\ raw = None /\ unsent = FALSE /\ left = FALSE

-----------------------------------------------------------------------------
(* The operator, through the API.                                          *)

WriteControl ==
    /\ writes < MaxWrites
    /\ writes' = writes + 1
    /\ \E c \in Commands : Accepted(c) /\ ctl' = c
    /\ UNCHANGED <<file, pc, cmd, w, jobVars, rtosVars, restarts, checks, histVars>>

-----------------------------------------------------------------------------
(* The worker.  One pass: read, clear, apply, drain, nonces, status.       *)

Room(n) == Len(ipc) + n <= IpcCap

\* resume_from_idle sleeps 5 s before it sends the resume, and the RTOS looks
\* for a pause every 200 ms: by then it has seen the earlier ones.
Settled == ipc = <<>> /\ ~rtos.pauseReq /\ ~rtos.resumeReq

\* run_worker before its loop: ramp to the mode's target, then reapply the
\* tuning of an earlier session.
PersistedVoltRaw(mv, m) == mv                      \* mutant: no clamp

PersistedVolt(mv, m) == Clamp(mv, m)

Start ==
    /\ pc = "start" /\ Room(3)
    /\ \E okRamp, okFreq, okVolt \in Rc :
         LET m    == file.mode
             t    == file.tune
             freq == t # None
             volt == t # None /\ t.volt # None
             mv   == PersistedVolt(t.volt, m)
         IN  /\ ipc' = ipc \o Post(okRamp, SetMode(RampTarget(m)))
                           \o (IF freq THEN Post(okFreq, SetMode(t.freq)) ELSE <<>>)
                           \o (IF volt THEN Post(okVolt, SetVolt(mv)) ELSE <<>>)
             /\ w' = [FreshWorker EXCEPT
                        !.mode = m,
                        !.target = IF freq /\ t.watts # None THEN t.watts ELSE EnvTarget,
                        !.freq = IF freq /\ okFreq THEN t.freq ELSE RampTarget(m),
                        !.volt = IF volt /\ okVolt THEN mv ELSE None]
    /\ pc' = "read"
    /\ UNCHANGED <<ctl, file, cmd, jobVars, rtos, dcdc, shim, nonces, counters, histVars>>

ReadControl ==
    /\ pc = "read"
    /\ cmd' = ctl
    /\ pc' = IF ctl = None THEN "drain" ELSE "clear"
    /\ UNCHANGED <<ctl, file, w, jobVars, rtosVars, counters, histVars>>

ClearControl ==
    /\ pc = "clear"
    /\ ctl' = None
    /\ pc' = "apply"
    /\ UNCHANGED <<file, cmd, w, jobVars, rtosVars, counters, histVars>>

\* The directive in hand is done with.
Handled == pc' = "drain" /\ cmd' = None

ManualPause ==
    /\ pc = "apply" /\ cmd = Pause /\ ~w.manual /\ Room(1)
    /\ \E ok \in Rc : ipc' = ipc \o Post(ok, PauseMsg)
    /\ w' = [w EXCEPT !.idle = TRUE, !.manual = TRUE]
    /\ want' = "pause" /\ unsent' = TRUE /\ left' = FALSE
    /\ Handled
    /\ UNCHANGED <<ctl, file, jobVars, rtos, dcdc, shim, nonces, counters, hand, raw>>

\* Resume, then reapply clock and voltage.
ReappliedRamp == RampTarget(w.mode)                \* mutant: forgets the tuning

ReappliedFreq == w.freq

ManualResume ==
    /\ pc = "apply" /\ cmd = Resume /\ w.manual /\ Settled
    /\ \E okResume, okFreq, okVolt \in Rc :
         ipc' = ipc \o Post(okResume, ResumeMsg) \o Post(okFreq, SetMode(ReappliedFreq))
                    \o (IF w.volt # None THEN Post(okVolt, SetVolt(w.volt)) ELSE <<>>)
    /\ w' = [w EXCEPT !.idle = FALSE, !.manual = FALSE]
    /\ want' = "run"
    /\ Handled
    /\ UNCHANGED <<ctl, file, jobVars, rtos, dcdc, shim, nonces, counters, hand, raw, unsent,
                   left>>

\* A pause while paused or a resume while not matches no arm.
IgnorePause ==
    /\ pc = "apply"
    /\ \/ cmd = Pause /\ w.manual /\ want' = "pause"
       \/ cmd = Resume /\ ~w.manual /\ want' = "run"
    /\ Handled
    /\ UNCHANGED <<ctl, file, w, jobVars, rtosVars, counters, hand, raw, unsent, left>>

\* A mode switch writes one file, removes the other, then acts.
SaveMode ==
    /\ pc = "apply" /\ cmd # None /\ cmd.op = "mode"
    /\ file' = [file EXCEPT !.mode = cmd.mode]
    /\ pc' = "switch"
    /\ UNCHANGED <<ctl, cmd, w, jobVars, rtosVars, counters, histVars>>

LatchedVolt(mv, m) == Clamp(mv, m)

SwitchMode ==
    /\ pc = "switch" /\ Room(2)
    /\ file' = [file EXCEPT !.tune = None]
    /\ \E okFreq, okVolt \in Rc :
         LET m == cmd.mode
         IN  /\ w' = [w EXCEPT !.mode = m, !.override = FALSE, !.freq = RampTarget(m),
                               !.volt = IF @ = None THEN None ELSE LatchedVolt(@, m)]
             /\ ipc' = ipc \o Post(okFreq, SetMode(RampTarget(m)))
                           \o (IF w.volt # None THEN Post(okVolt, SetVolt(LatchedVolt(w.volt, m)))
                                                ELSE <<>>)
    /\ hand' = FALSE /\ raw' = None
    /\ Handled
    /\ UNCHANGED <<ctl, jobVars, rtos, dcdc, shim, nonces, counters, want, unsent, left>>

Tuning(v) == [freq |-> v.freq, volt |-> v.volt, watts |-> v.target]

\* tune: frequency, voltage and target in this order, each if present; only
\* what the IPC took is latched; then the tuning file is written.
ApplyTune ==
    /\ pc = "apply" /\ cmd # None /\ cmd.op = "tune" /\ Room(2)
    /\ \E okFreq, okVolt \in Rc :
         LET freq == cmd.freq # None
             volt == cmd.volt # None
             goal == cmd.watts # None
             new  == [w EXCEPT
                        !.freq     = IF freq /\ okFreq THEN cmd.freq ELSE @,
                        !.volt     = IF volt /\ okVolt THEN cmd.volt ELSE @,
                        !.override = ~goal /\ (@ \/ (volt /\ okVolt)),
                        !.target   = IF goal THEN cmd.watts ELSE @,
                        !.due      = @ \/ goal]
         IN  /\ ipc' = ipc \o (IF freq THEN Post(okFreq, SetMode(cmd.freq)) ELSE <<>>)
                           \o (IF volt THEN Post(okVolt, SetVolt(cmd.volt)) ELSE <<>>)
             /\ w' = new
             /\ file' = [file EXCEPT !.tune = Tuning(new)]
             /\ hand' = (~goal /\ (hand \/ (volt /\ okVolt)))
             /\ raw' = IF volt /\ okVolt THEN cmd.volt ELSE raw
    /\ Handled
    /\ UNCHANGED <<ctl, jobVars, rtos, dcdc, shim, nonces, counters, want, unsent, left>>

ApplyTarget ==
    /\ pc = "apply" /\ cmd # None /\ cmd.op = "target"
    /\ w' = [w EXCEPT !.target = cmd.watts, !.override = FALSE,
                      !.due = @ \/ cmd.watts # None]
    /\ file' = [file EXCEPT !.tune = Tuning(w')]
    /\ hand' = FALSE
    /\ Handled
    /\ UNCHANGED <<ctl, jobVars, rtosVars, counters, want, raw, unsent, left>>

-----------------------------------------------------------------------------
(* The worker: commands of the scheduler, which waits for each reply.      *)

\* Under a manual pause a task is kept and not sent.
KeepTask ==
    /\ pc = "drain" /\ given < MaxTasks /\ w.manual
    /\ given' = given + 1
    /\ task' = given'
    /\ UNCHANGED <<ctl, file, pc, cmd, w, jobs, nextJob, full, rtosVars, counters, histVars>>

RememberedOldest(js) ==                            \* mutant: drops the newest
    IF Cardinality(js) <= History THEN js
    ELSE {j \in js : \E k \in js : k.id > j.id}

RememberedTooFew(js) ==                            \* mutant: off by one
    IF Cardinality(js) < History THEN js
    ELSE {j \in js : \E k \in js : k.id < j.id}

\* The history keeps the newest ids.
Remembered(js) ==
    IF Cardinality(js) <= History THEN js
    ELSE {j \in js : \E k \in js : k.id < j.id}

SendTask ==
    /\ pc = "drain" /\ given < MaxTasks /\ ~w.manual /\ Room(2)
    /\ w.idle => Settled
    /\ given' = given + 1
    /\ nextJob' = nextJob + 1
    /\ w' = [w EXCEPT !.idle = FALSE]
    /\ \E okResume, okJob \in Rc :
         /\ ipc' = ipc \o (IF w.idle THEN Post(okResume, ResumeMsg) ELSE <<>>)
                       \o Post(okJob, Job(nextJob))
         /\ IF okJob
            THEN /\ jobs' = Remembered(jobs \cup {[id |-> nextJob, task |-> given']})
                 /\ task' = given'
                 /\ unsent' = FALSE
            ELSE UNCHANGED <<jobs, task, unsent>>
    /\ UNCHANGED <<ctl, file, pc, cmd, full, rtos, dcdc, shim, nonces, counters, want, hand,
                   raw, left>>

GoIdle ==
    /\ pc = "drain" /\ Idling /\ Room(1)
    /\ \E ok \in Rc : ipc' = ipc \o Post(ok, PauseMsg)
    /\ w' = [w EXCEPT !.idle = TRUE]
    /\ task' = None
    /\ left' = FALSE
    /\ UNCHANGED <<ctl, file, pc, cmd, jobs, nextJob, given, full, rtos, dcdc, shim, nonces,
                   counters, want, hand, raw, unsent>>

EndDrain ==
    /\ pc = "drain"
    /\ pc' = "nonces"
    /\ UNCHANGED <<ctl, file, cmd, w, jobVars, rtosVars, counters, histVars>>

-----------------------------------------------------------------------------
(* The worker: nonces, status and the power-target loop.                   *)

\* The task of a job in the history.
TaskOf(id) == {j.task : j \in {k \in jobs : k.id = id}}

\* A nonce of a job in the history becomes a share, any other is dropped.  The
\* worker waits for room in the channel of the task.
PollNonce ==
    /\ pc = "nonces" /\ nonces # <<>>
    /\ TaskOf(Head(nonces)) \cap full = {}
    /\ nonces' = Tail(nonces)
    /\ full' \in {full, full \cup TaskOf(Head(nonces))}
    /\ UNCHANGED <<ctl, file, pc, cmd, w, task, jobs, nextJob, given, ipc, rtos, dcdc, shim,
                   counters, histVars>>

EndNonces ==
    /\ pc = "nonces" /\ nonces = <<>>
    /\ pc' = "status"
    /\ UNCHANGED <<ctl, file, cmd, w, jobVars, rtosVars, counters, histVars>>

\* The scheduler takes a share, unless it waits for an answer of this worker;
\* it may do so for ever, so no fairness is assumed.
ShareTaken ==
    /\ \E t \in full : full' = full \ {t}
    /\ UNCHANGED <<ctl, file, pc, cmd, w, task, jobs, nextJob, given, rtosVars, counters,
                   histVars>>

Tripped(p) == SafetyTrip(w.mode, w.target) # None /\ p > SafetyTrip(w.mode, w.target)

MaySeekAlways == w.due                             \* mutant: ignores the override

MaySeek == ~w.override /\ w.due

VoltStep(p) ==
    CASE w.target = None                     -> 0
      [] w.target # None /\ Tripped(p)       -> -StepMv
      [] w.target # None /\ ~Tripped(p) /\ MaySeek ->
           IF p < w.target - DeadBand THEN StepMv
           ELSE IF p > w.target + DeadBand THEN -StepMv ELSE 0
      [] OTHER                               -> 0

NewVolt(step) ==
    LET mv == IF shim + step = AvoidMv THEN shim + 2 * step ELSE shim + step
    IN  Clamp(mv, w.mode)

\* get_status answers with the last status for ever once there is one.
RefreshStatus ==
    /\ pc = "status" /\ shim # None /\ Room(1)
    /\ \E p \in Powers, ok \in Rc :
         LET step  == VoltStep(p)
             moves == step # 0 /\ NewVolt(step) # shim
         IN  /\ ipc' = ipc \o (IF moves THEN Post(ok, SetVolt(NewVolt(step))) ELSE <<>>)
             /\ w' = [w EXCEPT !.power = p,
                               !.volt = IF moves /\ ok THEN NewVolt(step) ELSE @,
                               !.due = @ /\ step = 0]
    /\ pc' = "read"
    /\ UNCHANGED <<ctl, file, cmd, jobVars, rtos, dcdc, shim, nonces, counters, histVars>>

NoStatus ==
    /\ pc = "status" /\ shim = None
    /\ pc' = "read"
    /\ UNCHANGED <<ctl, file, cmd, w, jobVars, rtosVars, counters, histVars>>

\* POWER_TARGET_CHECK_INTERVAL has passed.
CheckDue ==
    /\ pc # "start" /\ ~w.due /\ checks < MaxChecks
    /\ checks' = checks + 1
    /\ w' = [w EXCEPT !.due = TRUE]
    /\ UNCHANGED <<ctl, file, pc, cmd, jobVars, rtosVars, restarts, writes, histVars>>

-----------------------------------------------------------------------------
(* The real-time side.                                                     *)

\* stage6_recv_handler: the newest message of a kind replaces the last.
Deliver ==
    /\ ipc # <<>>
    /\ ipc' = Tail(ipc)
    /\ LET m == Head(ipc)
       IN  rtos' = CASE m.type = "job"    -> [rtos EXCEPT !.pendJob = m.id]
                     [] m.type = "mode"   -> [rtos EXCEPT !.pendFreq = m.freq]
                     [] m.type = "volt"   -> [rtos EXCEPT !.pendVolt = m.mv]
                     [] m.type = "pause"  -> [rtos EXCEPT !.pauseReq = TRUE, !.persist = TRUE]
                     [] m.type = "resume" -> [rtos EXCEPT !.resumeReq = TRUE, !.persist = FALSE]
    /\ UNCHANGED <<ctl, file, pc, cmd, w, jobVars, dcdc, shim, nonces, counters, histVars>>

\* The clock after stage6_resume_bringup.
BroughtUp == "cold"

PausedAfterSticky(r) == r.paused \/ r.pauseReq      \* mutant: never cleared

\* A pause that was asked for takes effect, then a resume.
PausedAfter(r) == (r.paused \/ r.pauseReq) /\ ~r.resumeReq

\* The head of stage6_worker's loop.
RtosFlags ==
    /\ rtos.at = "top"
    /\ LET pausing  == rtos.pauseReq /\ ~rtos.paused
           resuming == rtos.resumeReq /\ (rtos.paused \/ rtos.pauseReq)
           paused   == PausedAfter(rtos)
       IN  rtos' = [rtos EXCEPT
                      !.pauseReq = FALSE, !.resumeReq = FALSE, !.paused = paused,
                      !.job  = IF pausing THEN None ELSE @,
                      !.freq = IF resuming THEN BroughtUp ELSE @,
                      !.at   = IF paused THEN "top" ELSE "pending"]
    /\ UNCHANGED <<ctl, file, pc, cmd, w, jobVars, ipc, dcdc, shim, nonces, counters, histVars>>

\* The rest of a pass that is not paused.  The voltage goes back to the shim
\* for the DC/DC controller and is recorded whatever the controller answers.
RtosApply ==
    /\ rtos.at = "pending"
    /\ \E ok \in Rc :
         dcdc' = IF rtos.pendVolt # None /\ ok THEN Quantised(rtos.pendVolt) ELSE dcdc
    /\ rtos' = [rtos EXCEPT
                  !.at = "top", !.pendFreq = None, !.pendVolt = None, !.pendJob = None,
                  !.freq = IF rtos.pendFreq = None THEN @ ELSE rtos.pendFreq,
                  !.volt = IF rtos.pendVolt = None THEN @ ELSE rtos.pendVolt,
                  !.job  = IF rtos.pendJob = None THEN @ ELSE rtos.pendJob]
    /\ UNCHANGED <<ctl, file, pc, cmd, w, jobVars, ipc, shim, nonces, counters, histVars>>

RtosStatus ==
    /\ rtos.at = "top"
    /\ shim' = rtos.volt
    /\ UNCHANGED <<ctl, file, pc, cmd, w, jobVars, ipc, rtos, dcdc, nonces, counters, histVars>>

\* A full queue drops its oldest nonce.
Queued(q, n) == Append(IF Len(q) = NonceCap THEN Tail(q) ELSE q, n)

RtosNonce ==
    /\ rtos.at = "top" /\ rtos.job # None
    /\ nonces' = Queued(nonces, rtos.job)
    /\ UNCHANGED <<ctl, file, pc, cmd, w, jobVars, ipc, rtos, dcdc, shim, counters, histVars>>

-----------------------------------------------------------------------------
(* Restarts.  A reboot loses everything but the flash.  A relaunch ends    *)
(* the miner process and the stage6 cycle; the control file and the pause  *)
(* that persists outlive it.                                               *)

Restart ==
    /\ restarts < MaxRestarts
    /\ restarts' = restarts + 1
    /\ pc' = "start" /\ cmd' = None /\ w' = FreshWorker
    /\ task' = None /\ jobs' = {} /\ nextJob' = 1 /\ full' = {}
    /\ ipc' = <<>> /\ shim' = None /\ nonces' = <<>>
    /\ raw' = None /\ unsent' = FALSE
    /\ UNCHANGED <<file, given, writes, checks, hand>>

Reboot ==
    /\ "reboot" \in Restarts
    /\ Restart
    /\ ctl' = None /\ want' = "run" /\ left' = FALSE
    /\ rtos' = FreshRtos(FALSE) /\ dcdc' = 3496

Relaunch ==
    /\ "relaunch" \in Restarts
    /\ Restart
    /\ rtos' = FreshRtos(rtos.persist)
    /\ dcdc' = IF rtos.persist THEN dcdc ELSE 3496
    /\ left' = rtos.persist
    /\ UNCHANGED <<ctl, want>>

-----------------------------------------------------------------------------
Worker ==
    \/ Start \/ ReadControl \/ ClearControl
    \/ ManualPause \/ ManualResume \/ IgnorePause \/ SaveMode \/ SwitchMode
    \/ ApplyTune \/ ApplyTarget
    \/ EndDrain \/ PollNonce \/ EndNonces \/ RefreshStatus \/ NoStatus

Rtos == RtosFlags \/ RtosApply

Next ==
    \/ WriteControl
    \/ Worker
    \/ KeepTask \/ SendTask \/ GoIdle \/ ShareTaken \/ CheckDue
    \/ Deliver \/ Rtos \/ RtosStatus \/ RtosNonce
    \/ Reboot \/ Relaunch

\* Two threads that sleep and loop, and a receive thread.
Fairness == WF_vars(Worker) /\ WF_vars(Deliver) /\ WF_vars(Rtos)

Spec == Init /\ [][Next]_vars /\ Fairness

-----------------------------------------------------------------------------
(* Properties.                                                             *)

Messages ==
    {PauseMsg, ResumeMsg} \cup {SetMode(f) : f \in Freqs}
    \cup [type : {"volt"}, mv : Int] \cup [type : {"job"}, id : Nat]

\* The types of the variables, with the bounds of the job history, of the
\* nonce queue and of the model.
TypeOK ==
    /\ ctl \in Commands \cup {None}
    /\ file \in [mode : Modes, tune : Tunings \cup {None}]
    /\ pc \in {"start", "read", "clear", "apply", "switch", "drain", "nonces", "status"}
    /\ cmd \in Commands \cup {None}
    /\ w \in [mode : Modes, target : Watts \cup {None}, override : BOOLEAN, due : BOOLEAN,
              freq : Freqs, volt : Int \cup {None}, idle : BOOLEAN, manual : BOOLEAN,
              power : Nat]
    /\ task \in (1..MaxTasks) \cup {None}
    /\ jobs \subseteq [id : Nat, task : 1..MaxTasks] /\ Cardinality(jobs) <= History
    /\ nextJob \in Nat /\ given \in 0..MaxTasks /\ full \subseteq 1..MaxTasks
    /\ ipc \in Seq(Messages) /\ Len(ipc) <= IpcCap
    /\ rtos \in [at : {"top", "pending"}, pauseReq : BOOLEAN, resumeReq : BOOLEAN,
                 paused : BOOLEAN, persist : BOOLEAN, pendFreq : Freqs \cup {None},
                 pendVolt : Int \cup {None}, pendJob : Nat \cup {None}, freq : Freqs,
                 volt : Int, job : Nat \cup {None}]
    /\ dcdc \in Int /\ shim \in Int \cup {None}
    /\ nonces \in Seq(Nat) /\ Len(nonces) <= NonceCap
    /\ restarts \in 0..MaxRestarts /\ writes \in 0..MaxWrites /\ checks \in 0..MaxChecks
    /\ want \in {"run", "pause"} /\ {hand, unsent, left} \subseteq BOOLEAN
    /\ raw \in Int \cup {None}

\* Everything the worker sent has reached the chain.
Quiet ==
    /\ pc # "start" /\ ipc = <<>>
    /\ ~rtos.pauseReq /\ ~rtos.resumeReq
    /\ rtos.pendFreq = None /\ rtos.pendVolt = None /\ rtos.pendJob = None

\* The range of the active mode.
InModeRange(mv) == mv \in VMin(w.mode)..VMax(w.mode)

\* Every voltage the worker chooses itself lies in the range of the active
\* mode: steps of the loop on a stale status, whatever raw voltage came before,
\* mode switches, and tuning reapplied after a restart, one between the two
\* files of a mode switch too.  What it has latched, and a resume will reapply,
\* is outside only when it is the very voltage of the operator's last tune in
\* this mode and session: the tune arm does not clamp (nano3s.rs:2130), though
\* the comment on the ranges says that every voltage is (nano3s.rs:313).
VoltageInModeRange == w.volt # None => InModeRange(w.volt) \/ w.volt = raw

\* Once its messages have arrived, a chain that nobody has paused runs at the
\* clock and the voltage the worker believes it to have, to the controller's
\* resolution: after tuning, mode switches and steps of the loop while paused,
\* and after every resume.
ChainFollows ==
    Quiet /\ ~rtos.paused /\ ~w.manual =>
        /\ rtos.freq = w.freq
        /\ w.volt # None => rtos.volt = w.volt /\ dcdc = Quantised(w.volt)

\* A raw voltage of the operator stays until a target or a mode is commanded;
\* the loop changes it only when the power is above the safety trip.
ManualVoltageKept ==
    [][pc = "status" /\ hand => w'.volt = w.volt \/ Tripped(w'.power)]_vars

\* The chain should hash: its messages have arrived, nobody has paused it and
\* there is a task.
ShouldHash == Quiet /\ ~w.manual /\ ~w.idle /\ ~rtos.paused /\ task # None

HashesTask == [id |-> rtos.job, task |-> task] \in jobs

\* A chain that should hash works on the worker's current task, and the worker
\* knows the job by its id: through idling, sends that fail, restarts, pauses
\* of the operator and tasks that come while it is paused.  Only from a pause of
\* the operator until the next task is sent may it do less, since a resume
\* sends none: then it hashes nothing or, if the pause was lost on its way, the
\* newest job the worker knows, never an older one.
ChainWorksOnTask ==
    ShouldHash =>
        \/ HashesTask
        \/ unsent /\ rtos.job = None
        \/ unsent /\ \E j \in jobs : j.id = rtos.job /\ \A k \in jobs : k.id <= j.id

\* What the comment on a task under a manual pause says: "remember the latest
\* task to apply once a "resume" arrives" (nano3s.rs:2228).  Asked only after
\* the commands of the pass with the resume have been drained.
ResumeAppliesTask == ShouldHash /\ pc \in {"nonces", "status"} => HashesTask

\* A nonce is dropped as of an unknown job only if the history is full of
\* newer jobs, however far the RTOS lags behind.
NoncesAttributed ==
    \A i \in DOMAIN nonces :
        \/ \E j \in jobs : j.id = nonces[i]
        \/ Cardinality({j \in jobs : j.id > nonces[i]}) = History

\* A chain does not stay paused when neither the operator nor the scheduler
\* wants it to, except after a pause that has outlived the miner process: the
\* new one believes that it is not paused, so it ignores a resume until there
\* has been another pause (nano3s.rs:2031).
ChainComesBack ==
    (want = "run" /\ ~w.idle) ~> (~rtos.paused \/ want = "pause" \/ w.idle \/ left)

\* The bounded queues hold what they should, and a nonce that leaves the last
\* of them is of a job the worker still knows (nano3s.rs:2248,
\* nano3s_ipc_shim.c:77).
NoncesKnown == TypeOK /\ NoncesAttributed
=============================================================================
