---------------------------- MODULE Nano3sProofs ----------------------------
(***************************************************************************)
(* The Nano 3S board, for every set of directives, readings and bounds:    *)
(* the voltages the worker latches, the ids its job history knows, the     *)
(* clock and voltage the chain ends up with, and the job it hashes.  The   *)
(* argument follows each kind of message from the worker through those     *)
(* under way and the slots of the RTOS to the chain.                       *)
(***************************************************************************)
EXTENDS Nano3s, FiniteSetTheorems, SequenceTheorems, WellFoundedInduction, TLAPS

WorkerStates ==
    [mode : Modes, target : Watts \cup {None}, override : BOOLEAN, due : BOOLEAN,
     freq : Freqs, volt : Int \cup {None}, idle : BOOLEAN, manual : BOOLEAN, power : Nat]

RtosStates ==
    [at : {"top", "pending"}, pauseReq : BOOLEAN, resumeReq : BOOLEAN,
     paused : BOOLEAN, persist : BOOLEAN, pendFreq : Freqs \cup {None},
     pendVolt : Int \cup {None}, pendJob : Nat \cup {None}, freq : Freqs,
     volt : Int, job : Nat \cup {None}]

\* The part of TypeOK that a voltage passes through.
PowerTypes ==
    /\ ctl \in Commands \cup {None}
    /\ cmd \in Commands \cup {None}
    /\ file \in [mode : Modes, tune : Tunings \cup {None}]
    /\ w \in WorkerStates
    /\ nextJob \in Nat
    /\ ipc \in Seq(Messages)
    /\ rtos \in RtosStates
    /\ shim \in Int \cup {None}
    /\ pc = "switch" => cmd # None /\ cmd.op = "mode"

-----------------------------------------------------------------------------
(* Operators.                                                              *)

\* A clamped voltage is in the range of the mode it was clamped for.
LEMMA ClampInRange ==
    ASSUME NEW mv \in Int, NEW m \in Modes
    PROVE  Clamp(mv, m) \in VMin(m)..VMax(m) /\ Clamp(mv, m) \in Int
BY DEF Clamp, VMin, VMax

LEMMA MessageTypes ==
    /\ \A f \in Freqs : SetMode(f) \in Messages
    /\ \A mv \in Int : SetVolt(mv) \in Messages
    /\ \A id \in Nat : Job(id) \in Messages
    /\ PauseMsg \in Messages /\ ResumeMsg \in Messages
BY DEF Messages, SetMode, SetVolt, Job, PauseMsg, ResumeMsg

LEMMA PostType ==
    ASSUME NEW ok, NEW m \in Messages PROVE Post(ok, m) \in Seq(Messages)
BY DEF Post

LEMMA EmptyType == <<>> \in Seq(Messages)
OBVIOUS

LEMMA RampType == \A m \in Modes : RampTarget(m) \in Freqs
BY DEF RampTarget, Freqs

LEMMA FreshTypes ==
    /\ FreshWorker \in WorkerStates
    /\ \A b \in BOOLEAN : FreshRtos(b) \in RtosStates
BY Nano3sConstants DEF FreshWorker, WorkerStates, FreshRtos, RtosStates, Modes, Freqs

\* Directives have the types the API checked.
LEMMA CommandTypes ==
    ASSUME NEW c \in Commands
    PROVE  /\ c.op = "mode" => c.mode \in Modes
           /\ c.op = "tune" => /\ c.freq \in Freqs \cup {None}
                               /\ c.volt \in Int \cup {None}
                               /\ c.watts \in Watts \cup {None}
           /\ c.op = "target" => c.watts \in Watts \cup {None}
<1>1. Accepted(c)
  BY Nano3sConstants
<1> QED BY <1>1 DEF Accepted

-----------------------------------------------------------------------------
(* The types.                                                              *)

LEMMA PowerTypesInit == Init => PowerTypes
<1> SUFFICES ASSUME Init PROVE PowerTypes
  OBVIOUS
<1>1. w \in WorkerStates /\ rtos \in RtosStates /\ ipc \in Seq(Messages)
  BY FreshTypes, EmptyType DEF Init
<1>2. file \in [mode : Modes, tune : Tunings \cup {None}]
  BY Nano3sConstants DEF Init
<1> QED BY <1>1, <1>2 DEF Init, PowerTypes

\* A receive keeps the slots of the RTOS typed.
LEMMA DeliverTypes ==
    ASSUME rtos \in RtosStates, ipc \in Seq(Messages), Deliver
    PROVE  rtos' \in RtosStates /\ ipc' \in Seq(Messages)
<1>1. Head(ipc) \in Messages /\ ipc' \in Seq(Messages)
  BY DEF Deliver
<1> DEFINE m == Head(ipc)
<1>2. CASE m.type = "job"
  <2>1. m.id \in Nat
    BY <1>1, <1>2 DEF Messages, PauseMsg, ResumeMsg, SetMode
  <2>2. rtos' = [rtos EXCEPT !.pendJob = m.id]
    BY <1>2 DEF Deliver
  <2> QED BY <1>1, <2>1, <2>2 DEF RtosStates
<1>3. CASE m.type = "mode"
  <2>1. m.freq \in Freqs
    BY <1>1, <1>3 DEF Messages, PauseMsg, ResumeMsg, SetMode
  <2>2. rtos' = [rtos EXCEPT !.pendFreq = m.freq]
    BY <1>3 DEF Deliver
  <2> QED BY <1>1, <2>1, <2>2 DEF RtosStates
<1>4. CASE m.type = "volt"
  <2>1. m.mv \in Int
    BY <1>1, <1>4 DEF Messages, PauseMsg, ResumeMsg, SetMode
  <2>2. rtos' = [rtos EXCEPT !.pendVolt = m.mv]
    BY <1>4 DEF Deliver
  <2> QED BY <1>1, <2>1, <2>2 DEF RtosStates
<1>5. CASE m.type = "pause"
  <2>1. rtos' = [rtos EXCEPT !.pauseReq = TRUE, !.persist = TRUE]
    BY <1>5 DEF Deliver
  <2> QED BY <1>1, <2>1 DEF RtosStates
<1>6. CASE m.type = "resume"
  <2>1. rtos' = [rtos EXCEPT !.resumeReq = TRUE, !.persist = FALSE]
    BY <1>6 DEF Deliver
  <2> QED BY <1>1, <2>1 DEF RtosStates
<1>7. m.type \in {"job", "mode", "volt", "pause", "resume"}
  BY <1>1 DEF Messages, PauseMsg, ResumeMsg, SetMode
<1> QED BY <1>2, <1>3, <1>4, <1>5, <1>6, <1>7

\* The real-time worker keeps its own state typed.
LEMMA RtosTypes ==
    ASSUME rtos \in RtosStates, Rtos PROVE rtos' \in RtosStates
<1>1. CASE RtosFlags
  <2> DEFINE job  == IF rtos.pauseReq /\ ~rtos.paused THEN None ELSE rtos.job
             freq == IF rtos.resumeReq /\ (rtos.paused \/ rtos.pauseReq)
                     THEN BroughtUp ELSE rtos.freq
             at   == IF PausedAfter(rtos) THEN "top" ELSE "pending"
  <2>1. PausedAfter(rtos) \in BOOLEAN
    BY DEF PausedAfter, RtosStates
  <2>2. job \in Nat \cup {None} /\ freq \in Freqs /\ at \in {"top", "pending"}
    BY DEF RtosStates, BroughtUp, Freqs
  <2>3. rtos' = [rtos EXCEPT !.pauseReq = FALSE, !.resumeReq = FALSE,
                             !.paused = PausedAfter(rtos), !.job = job,
                             !.freq = freq, !.at = at]
    BY <1>1, Zenon DEF RtosFlags
  <2> HIDE DEF job, freq, at
  <2> QED BY <2>1, <2>2, <2>3 DEF RtosStates
<1>2. CASE RtosApply
  BY <1>2 DEF RtosApply, RtosStates
<1> QED BY <1>1, <1>2 DEF Rtos

\* What the loop is about to set.
LEMMA NewVoltInRange ==
    ASSUME shim \in Int, w.mode \in Modes, NEW step \in Int
    PROVE  NewVolt(step) \in VMin(w.mode)..VMax(w.mode) /\ NewVolt(step) \in Int
<1> DEFINE mv == IF shim + step = AvoidMv THEN shim + 2 * step ELSE shim + step
<1>1. mv \in Int
  OBVIOUS
<1> HIDE DEF mv
<1>2. Clamp(mv, w.mode) \in VMin(w.mode)..VMax(w.mode) /\ Clamp(mv, w.mode) \in Int
  BY <1>1, ClampInRange
<1> QED BY <1>2 DEF NewVolt, mv

LEMMA VoltStepType == ASSUME NEW p PROVE VoltStep(p) \in Int
BY DEF VoltStep, StepMv

LEMMA Concat2 ==
    ASSUME NEW a \in Seq(Messages), NEW b \in Seq(Messages)
    PROVE  a \o b \in Seq(Messages)
OBVIOUS

LEMMA Concat3 ==
    ASSUME NEW a \in Seq(Messages), NEW b \in Seq(Messages), NEW c \in Seq(Messages)
    PROVE  a \o b \o c \in Seq(Messages)
OBVIOUS

LEMMA Concat4 ==
    ASSUME NEW a \in Seq(Messages), NEW b \in Seq(Messages), NEW c \in Seq(Messages),
           NEW d \in Seq(Messages)
    PROVE  a \o b \o c \o d \in Seq(Messages)
BY Concat2

\* The start of the worker: whatever the tuning file holds, what it reapplies
\* is clamped for the mode on flash.
LEMMA StartPower ==
    ASSUME PowerTypes, Start
    PROVE  w' \in WorkerStates /\ ipc' \in Seq(Messages) /\ VoltageInModeRange'
<1> DEFINE m    == file.mode
           t    == file.tune
           freq == t # None
           volt == t # None /\ t.volt # None
           mv   == PersistedVolt(t.volt, m)
<1>1. PICK okRamp \in Rc, okFreq \in Rc, okVolt \in Rc :
        /\ ipc' = ipc \o Post(okRamp, SetMode(RampTarget(m)))
                      \o (IF freq THEN Post(okFreq, SetMode(t.freq)) ELSE <<>>)
                      \o (IF volt THEN Post(okVolt, SetVolt(mv)) ELSE <<>>)
        /\ w' = [FreshWorker EXCEPT
                   !.mode = m,
                   !.target = IF freq /\ t.watts # None THEN t.watts ELSE EnvTarget,
                   !.freq = IF freq /\ okFreq THEN t.freq ELSE RampTarget(m),
                   !.volt = IF volt /\ okVolt THEN mv ELSE None]
  BY Zenon DEF Start
<1>2. m \in Modes /\ (freq => /\ t.freq \in Freqs
                              /\ t.volt \in Int \cup {None}
                              /\ t.watts \in Watts \cup {None})
  BY DEF PowerTypes, Tunings
<1>3. volt => mv \in VMin(m)..VMax(m) /\ mv \in Int
  BY <1>2, ClampInRange DEF PersistedVolt
<1>4. RampTarget(m) \in Freqs
  BY <1>2, RampType
<1>5. EnvTarget \in Watts \cup {None}
  BY Nano3sConstants
<1>6. ipc \in Seq(Messages)
  BY DEF PowerTypes
<1> HIDE DEF m, t, freq, volt, mv
<1>7. w' \in WorkerStates
  BY <1>1, <1>2, <1>3, <1>4, <1>5, FreshTypes DEF WorkerStates
<1>8. VoltageInModeRange'
  <2>1. w'.mode = m /\ w'.volt = IF volt /\ okVolt THEN mv ELSE None
    BY <1>1 DEF FreshWorker
  <2> QED BY <1>3, <2>1 DEF VoltageInModeRange, InModeRange, VMin, VMax
<1>9. ipc' \in Seq(Messages)
  <2>1. Post(okRamp, SetMode(RampTarget(m))) \in Seq(Messages)
    BY <1>4, MessageTypes, PostType
  <2>2. (IF freq THEN Post(okFreq, SetMode(t.freq)) ELSE <<>>) \in Seq(Messages)
    BY <1>2, MessageTypes, PostType, EmptyType
  <2>3. (IF volt THEN Post(okVolt, SetVolt(mv)) ELSE <<>>) \in Seq(Messages)
    BY <1>3, MessageTypes, PostType, EmptyType
  <2> QED BY <1>1, <1>6, <2>1, <2>2, <2>3, Concat4
<1> QED BY <1>7, <1>8, <1>9

\* A mode switch clamps the latched voltage for the new mode.
LEMMA SwitchPower ==
    ASSUME PowerTypes, SwitchMode
    PROVE  /\ w' \in WorkerStates /\ ipc' \in Seq(Messages) /\ VoltageInModeRange'
           /\ file' \in [mode : Modes, tune : Tunings \cup {None}]
<1> DEFINE m == cmd.mode
<1>1. PICK okFreq \in Rc, okVolt \in Rc :
        /\ w' = [w EXCEPT !.mode = m, !.override = FALSE, !.freq = RampTarget(m),
                          !.volt = IF @ = None THEN None ELSE LatchedVolt(@, m)]
        /\ ipc' = ipc \o Post(okFreq, SetMode(RampTarget(m)))
                      \o (IF w.volt # None THEN Post(okVolt, SetVolt(LatchedVolt(w.volt, m)))
                                           ELSE <<>>)
  BY Zenon DEF SwitchMode
<1>2. m \in Modes
  BY CommandTypes DEF PowerTypes, SwitchMode
<1>3. w.volt # None => /\ LatchedVolt(w.volt, m) \in VMin(m)..VMax(m)
                       /\ LatchedVolt(w.volt, m) \in Int
  BY <1>2, ClampInRange DEF LatchedVolt, PowerTypes, WorkerStates
<1>4. RampTarget(m) \in Freqs
  BY <1>2, RampType
<1>5. ipc \in Seq(Messages) /\ w \in WorkerStates
  BY DEF PowerTypes
<1>6. file' \in [mode : Modes, tune : Tunings \cup {None}]
  BY DEF SwitchMode, PowerTypes
<1> HIDE DEF m
<1>7. w' \in WorkerStates
  BY <1>1, <1>2, <1>3, <1>4, <1>5 DEF WorkerStates
<1>8. VoltageInModeRange'
  <2>1. w'.mode = m /\ w'.volt = IF w.volt = None THEN None ELSE LatchedVolt(w.volt, m)
    BY <1>1, <1>5 DEF WorkerStates
  <2> QED BY <1>3, <2>1 DEF VoltageInModeRange, InModeRange, VMin, VMax
<1>9. ipc' \in Seq(Messages)
  <2>1. Post(okFreq, SetMode(RampTarget(m))) \in Seq(Messages)
    BY <1>4, MessageTypes, PostType
  <2>2. (IF w.volt # None THEN Post(okVolt, SetVolt(LatchedVolt(w.volt, m)))
                          ELSE <<>>) \in Seq(Messages)
    BY <1>3, MessageTypes, PostType, EmptyType
  <2> QED BY <1>1, <1>5, <2>1, <2>2, Concat3
<1> QED BY <1>6, <1>7, <1>8, <1>9

\* A tune latches the operator's voltage as it came, and `raw' remembers which:
\* the one place where the latched voltage may leave the range.
LEMMA TunePower ==
    ASSUME PowerTypes, ApplyTune
    PROVE  /\ w' \in WorkerStates /\ ipc' \in Seq(Messages)
           /\ file' \in [mode : Modes, tune : Tunings \cup {None}]
           /\ VoltageInModeRange => VoltageInModeRange'
<1> DEFINE freq == cmd.freq # None
           volt == cmd.volt # None
           goal == cmd.watts # None
<1> DEFINE new(okFreq, okVolt) ==
             [w EXCEPT
                !.freq     = IF freq /\ okFreq THEN cmd.freq ELSE @,
                !.volt     = IF volt /\ okVolt THEN cmd.volt ELSE @,
                !.override = ~goal /\ (@ \/ (volt /\ okVolt)),
                !.target   = IF goal THEN cmd.watts ELSE @,
                !.due      = @ \/ goal]
<1>0. PICK okFreq \in Rc, okVolt \in Rc :
        /\ ipc' = ipc \o (IF freq THEN Post(okFreq, SetMode(cmd.freq)) ELSE <<>>)
                      \o (IF volt THEN Post(okVolt, SetVolt(cmd.volt)) ELSE <<>>)
        /\ w' = new(okFreq, okVolt)
        /\ file' = [file EXCEPT !.tune = Tuning(new(okFreq, okVolt))]
        /\ raw' = IF volt /\ okVolt THEN cmd.volt ELSE raw
  BY Zenon DEF ApplyTune
<1>1. /\ ipc' = ipc \o (IF freq THEN Post(okFreq, SetMode(cmd.freq)) ELSE <<>>)
                    \o (IF volt THEN Post(okVolt, SetVolt(cmd.volt)) ELSE <<>>)
      /\ w' = new(okFreq, okVolt)
      /\ file' = [file EXCEPT !.tune = Tuning(w')]
      /\ raw' = IF volt /\ okVolt THEN cmd.volt ELSE raw
  <2>1. Tuning(w') = Tuning(new(okFreq, okVolt))
    BY <1>0, Zenon
  <2> HIDE DEF new
  <2> QED BY <1>0, <2>1, Zenon
<1>2. /\ cmd \in Commands /\ cmd.op = "tune"
      /\ cmd.freq \in Freqs \cup {None}
      /\ cmd.volt \in Int \cup {None}
      /\ cmd.watts \in Watts \cup {None}
  BY CommandTypes DEF PowerTypes, ApplyTune
<1>3. ipc \in Seq(Messages) /\ w \in WorkerStates
  BY DEF PowerTypes
<1>4. w' \in WorkerStates
  <2> DEFINE f == IF freq /\ okFreq THEN cmd.freq ELSE w.freq
             v == IF volt /\ okVolt THEN cmd.volt ELSE w.volt
             o == ~goal /\ (w.override \/ (volt /\ okVolt))
             g == IF goal THEN cmd.watts ELSE w.target
             d == w.due \/ goal
  <2>1. f \in Freqs /\ v \in Int \cup {None} /\ g \in Watts \cup {None}
    BY <1>2, <1>3 DEF WorkerStates
  <2>2. o \in BOOLEAN /\ d \in BOOLEAN
    BY <1>3 DEF WorkerStates
  <2>3. w' = [w EXCEPT !.freq = f, !.volt = v, !.override = o, !.target = g, !.due = d]
    BY <1>1, Zenon
  <2> HIDE DEF f, v, o, g, d
  <2> QED BY <1>3, <2>1, <2>2, <2>3 DEF WorkerStates
<1>5. file' \in [mode : Modes, tune : Tunings \cup {None}]
  <2>1. Tuning(w') \in Tunings
    BY <1>4 DEF Tuning, Tunings, WorkerStates
  <2> QED BY <1>1, <2>1 DEF PowerTypes
<1>6. VoltageInModeRange => VoltageInModeRange'
  <2>1. w'.mode = w.mode /\ w'.volt = IF volt /\ okVolt THEN cmd.volt ELSE w.volt
    BY <1>1, <1>3 DEF WorkerStates
  <2> QED BY <1>1, <2>1 DEF VoltageInModeRange, InModeRange, VMin, VMax
<1>7. ipc' \in Seq(Messages)
  <2>1. (IF freq THEN Post(okFreq, SetMode(cmd.freq)) ELSE <<>>) \in Seq(Messages)
    BY <1>2, MessageTypes, PostType, EmptyType
  <2>2. (IF volt THEN Post(okVolt, SetVolt(cmd.volt)) ELSE <<>>) \in Seq(Messages)
    BY <1>2, MessageTypes, PostType, EmptyType
  <2> QED BY <1>1, <1>3, <2>1, <2>2, Concat3
<1> QED BY <1>4, <1>5, <1>6, <1>7

\* A step of the power-target loop, from a status however old.
LEMMA StatusPower ==
    ASSUME PowerTypes, RefreshStatus
    PROVE  /\ w' \in WorkerStates /\ ipc' \in Seq(Messages)
           /\ VoltageInModeRange => VoltageInModeRange'
<1> PICK p \in Powers, ok \in Rc :
        LET step  == VoltStep(p)
            moves == step # 0 /\ NewVolt(step) # shim
        IN  /\ ipc' = ipc \o (IF moves THEN Post(ok, SetVolt(NewVolt(step))) ELSE <<>>)
            /\ w' = [w EXCEPT !.power = p,
                              !.volt = IF moves /\ ok THEN NewVolt(step) ELSE @,
                              !.due = @ /\ step = 0]
  BY Zenon DEF RefreshStatus
<1> DEFINE step  == VoltStep(p)
           mv    == NewVolt(step)
           moves == step # 0 /\ mv # shim
<1>1. ipc \in Seq(Messages) /\ w \in WorkerStates /\ p \in Nat
  BY Nano3sConstants DEF PowerTypes
<1>2. mv \in VMin(w.mode)..VMax(w.mode) /\ mv \in Int
  <2>1. shim \in Int /\ w.mode \in Modes
    BY <1>1 DEF PowerTypes, RefreshStatus, WorkerStates
  <2> QED BY <2>1, VoltStepType, NewVoltInRange
<1>3. /\ ipc' = ipc \o (IF moves THEN Post(ok, SetVolt(mv)) ELSE <<>>)
      /\ w' = [w EXCEPT !.power = p, !.volt = IF moves /\ ok THEN mv ELSE @,
                        !.due = @ /\ step = 0]
  BY Zenon
<1> HIDE DEF step, mv, moves
<1>4. w' \in WorkerStates
  <2>1. (w.due /\ step = 0) \in BOOLEAN
    BY <1>1 DEF WorkerStates
  <2> QED BY <1>1, <1>2, <1>3, <2>1 DEF WorkerStates
<1>5. VoltageInModeRange => VoltageInModeRange'
  <2>1. w'.mode = w.mode /\ w'.volt = IF moves /\ ok THEN mv ELSE w.volt
    BY <1>1, <1>3 DEF WorkerStates
  <2> QED BY <1>2, <2>1 DEF RefreshStatus, histVars, VoltageInModeRange, InModeRange, VMin, VMax
<1>6. ipc' \in Seq(Messages)
  <2>1. (IF moves THEN Post(ok, SetVolt(mv)) ELSE <<>>) \in Seq(Messages)
    BY <1>2, MessageTypes, PostType, EmptyType
  <2> QED BY <1>1, <1>3, <2>1, Concat2
<1> QED BY <1>4, <1>5, <1>6

\* Steps of the worker that touch neither mode nor voltage.
LEMMA OtherPower ==
    ASSUME PowerTypes,
           \/ ManualPause \/ ManualResume \/ SendTask \/ GoIdle \/ CheckDue
           \/ ApplyTarget
    PROVE  /\ w' \in WorkerStates /\ ipc' \in Seq(Messages)
           /\ w'.mode = w.mode /\ w'.volt = w.volt
<1>1. ipc \in Seq(Messages) /\ w \in WorkerStates /\ nextJob \in Nat
  BY DEF PowerTypes
<1>2. CASE ManualPause
  BY <1>1, <1>2, MessageTypes, PostType, Concat2 DEF ManualPause, WorkerStates
<1>3. CASE GoIdle
  BY <1>1, <1>3, MessageTypes, PostType, Concat2 DEF GoIdle, WorkerStates
<1>4. CASE CheckDue
  BY <1>1, <1>4 DEF CheckDue, WorkerStates, rtosVars
<1>5. CASE ApplyTarget
  <2>1. cmd.watts \in Watts \cup {None}
    BY <1>5, CommandTypes DEF PowerTypes, ApplyTarget
  <2>2. (w.due \/ cmd.watts # None) \in BOOLEAN
    BY <1>1 DEF WorkerStates
  <2> QED BY <1>1, <1>5, <2>1, <2>2 DEF ApplyTarget, WorkerStates, rtosVars
<1>6. CASE ManualResume
  <2> PICK okResume \in Rc, okFreq \in Rc, okVolt \in Rc :
         ipc' = ipc \o Post(okResume, ResumeMsg) \o Post(okFreq, SetMode(ReappliedFreq))
                    \o (IF w.volt # None THEN Post(okVolt, SetVolt(w.volt)) ELSE <<>>)
    BY <1>6 DEF ManualResume
  <2>1. Post(okResume, ResumeMsg) \in Seq(Messages)
    BY MessageTypes, PostType
  <2>2. Post(okFreq, SetMode(ReappliedFreq)) \in Seq(Messages)
    BY <1>1, MessageTypes, PostType DEF ReappliedFreq, WorkerStates
  <2>3. (IF w.volt # None THEN Post(okVolt, SetVolt(w.volt)) ELSE <<>>) \in Seq(Messages)
    BY <1>1, MessageTypes, PostType, EmptyType DEF WorkerStates
  <2>4. ipc' \in Seq(Messages)
    BY <1>1, <2>1, <2>2, <2>3, Concat4
  <2> QED BY <1>1, <1>6, <2>4 DEF ManualResume, WorkerStates
<1>7. CASE SendTask
  <2> PICK okResume \in Rc, okJob \in Rc :
         ipc' = ipc \o (IF w.idle THEN Post(okResume, ResumeMsg) ELSE <<>>)
                    \o Post(okJob, Job(nextJob))
    BY <1>7 DEF SendTask
  <2>1. (IF w.idle THEN Post(okResume, ResumeMsg) ELSE <<>>) \in Seq(Messages)
    BY MessageTypes, PostType, EmptyType
  <2>2. Post(okJob, Job(nextJob)) \in Seq(Messages)
    BY <1>1, MessageTypes, PostType
  <2>3. ipc' \in Seq(Messages)
    BY <1>1, <2>1, <2>2, Concat3
  <2> QED BY <1>1, <1>7, <2>3 DEF SendTask, WorkerStates
<1> QED BY <1>2, <1>3, <1>4, <1>5, <1>6, <1>7

\* Restarts.
LEMMA RestartPower ==
    ASSUME PowerTypes, Restart, ctl' \in {ctl, None},
           NEW b \in BOOLEAN, rtos' = FreshRtos(b)
    PROVE  PowerTypes' /\ VoltageInModeRange'
<1>1. w' = FreshWorker /\ ipc' = <<>> /\ shim' = None /\ nextJob' = 1 /\ cmd' = None
      /\ pc' = "start" /\ file' = file
  BY DEF Restart
<1>2. ctl' \in Commands \cup {None}
  BY DEF PowerTypes
<1>3. rtos' \in RtosStates
  BY FreshTypes
<1>4. w' \in WorkerStates /\ ipc' \in Seq(Messages)
  BY <1>1, FreshTypes, EmptyType
<1>5. VoltageInModeRange'
  BY <1>1 DEF VoltageInModeRange, FreshWorker
<1> QED BY <1>1, <1>2, <1>3, <1>4, <1>5 DEF PowerTypes

\* The two invariants of the voltage, step by step.
LEMMA PowerStep ==
    ASSUME PowerTypes, [Next]_vars
    PROVE  PowerTypes' /\ (VoltageInModeRange => VoltageInModeRange')
<1> USE DEF PowerTypes
<1>1. CASE WriteControl
  BY <1>1 DEF WriteControl, VoltageInModeRange, InModeRange, histVars, jobVars, rtosVars
<1>2. CASE Start
  BY <1>2, StartPower DEF Start, jobVars
<1>3. CASE ReadControl \/ ClearControl
  BY <1>3 DEF ReadControl, ClearControl, VoltageInModeRange, InModeRange, histVars, jobVars, rtosVars
<1>4. CASE ManualPause \/ ManualResume
  BY <1>4, OtherPower DEF ManualPause, ManualResume, Handled, VoltageInModeRange, InModeRange, histVars, jobVars
<1>5. CASE IgnorePause
  BY <1>5 DEF IgnorePause, Handled, VoltageInModeRange, InModeRange, histVars, jobVars, rtosVars
<1>6. CASE SaveMode
  <2>1. cmd.mode \in Modes
    BY <1>6, CommandTypes DEF SaveMode
  <2> QED BY <1>6, <2>1 DEF SaveMode, VoltageInModeRange, InModeRange, histVars, jobVars, rtosVars
<1>7. CASE SwitchMode
  BY <1>7, SwitchPower DEF SwitchMode, Handled, jobVars
<1>8. CASE ApplyTune
  BY <1>8, TunePower DEF ApplyTune, Handled, jobVars
<1>9. CASE ApplyTarget
  <2>1. w' \in WorkerStates /\ w'.mode = w.mode /\ w'.volt = w.volt
    BY <1>9, OtherPower
  <2>2. file' \in [mode : Modes, tune : Tunings \cup {None}]
    <3>1. Tuning(w') \in Tunings
      BY <2>1 DEF Tuning, Tunings, WorkerStates
    <3> QED BY <1>9, <3>1 DEF ApplyTarget
  <2> QED BY <1>9, <2>1, <2>2 DEF ApplyTarget, Handled, VoltageInModeRange, InModeRange, histVars, jobVars, rtosVars
<1>10. CASE KeepTask \/ EndDrain \/ PollNonce \/ EndNonces \/ ShareTaken \/ NoStatus
  BY <1>10 DEF KeepTask, EndDrain, PollNonce, EndNonces, ShareTaken, NoStatus, VoltageInModeRange, InModeRange, histVars, jobVars, rtosVars
<1>11. CASE SendTask \/ GoIdle \/ CheckDue
  <2>1. w' \in WorkerStates /\ ipc' \in Seq(Messages) /\ w'.mode = w.mode /\ w'.volt = w.volt
    BY <1>11, OtherPower
  <2>2. nextJob' \in Nat
    BY <1>11 DEF SendTask, GoIdle, CheckDue, jobVars
  <2> QED BY <1>11, <2>1, <2>2 DEF SendTask, GoIdle, CheckDue, VoltageInModeRange, InModeRange, histVars, jobVars, rtosVars
<1>12. CASE RefreshStatus
  BY <1>12, StatusPower DEF RefreshStatus, jobVars
<1>13. CASE Deliver
  BY <1>13, DeliverTypes DEF Deliver, VoltageInModeRange, InModeRange, histVars, jobVars
<1>14. CASE Rtos
  <2>1. rtos' \in RtosStates
    BY <1>14, RtosTypes
  <2> QED BY <1>14, <2>1 DEF Rtos, RtosFlags, RtosApply, VoltageInModeRange, InModeRange, histVars, jobVars
<1>15. CASE RtosStatus
  BY <1>15 DEF RtosStatus, RtosStates, VoltageInModeRange, InModeRange, histVars, jobVars
<1>16. CASE RtosNonce
  BY <1>16 DEF RtosNonce, VoltageInModeRange, InModeRange, histVars, jobVars
<1>17. CASE Reboot
  <2>1. Restart /\ ctl' = None /\ rtos' = FreshRtos(FALSE)
    BY <1>17, Zenon DEF Reboot
  <2> QED BY <2>1, RestartPower
<1>18. CASE Relaunch
  <2>1. Restart /\ ctl' = ctl /\ rtos' = FreshRtos(rtos.persist)
    BY <1>18, Zenon DEF Relaunch
  <2>2. rtos.persist \in BOOLEAN
    BY DEF RtosStates
  <2> QED BY <2>1, <2>2, RestartPower
<1>19. CASE UNCHANGED vars
  BY <1>19 DEF vars, VoltageInModeRange, InModeRange, histVars, jobVars, rtosVars
<1> QED
  BY <1>1, <1>2, <1>3, <1>4, <1>5, <1>6, <1>7, <1>8, <1>9, <1>10, <1>11, <1>12, <1>13,
     <1>14, <1>15, <1>16, <1>17, <1>18, <1>19 DEF Next, Worker

\* Directives, files, messages and slots stay typed, whatever fails or
\* restarts.
THEOREM PowerTypesHold == Spec => []PowerTypes
<1>1. PowerTypes /\ [Next]_vars => PowerTypes'
  BY PowerStep
<1> QED BY <1>1, PowerTypesInit, PTL DEF Spec

\* Whatever the operator asks for, the voltage the worker has latched is in the
\* range of the active mode or the very voltage of the operator's last tune in
\* this mode and session: across mode switches, steps of the loop from a status
\* however old, failed sends, and restarts anywhere, between the two files of a
\* mode switch too.  A raw voltage never survives a mode switch or a restart.
THEOREM LatchedVoltageInRange == Spec => []VoltageInModeRange
<1>1. Init => VoltageInModeRange
  BY DEF Init, VoltageInModeRange, FreshWorker
<1>2. PowerTypes /\ VoltageInModeRange /\ [Next]_vars => VoltageInModeRange'
  BY PowerStep
<1> QED BY <1>1, <1>2, PowerTypesHold, PTL DEF Spec

-----------------------------------------------------------------------------
(* The raw voltage of the operator.                                        *)

\* While the operator's voltage stands the override is on: the worker latches
\* both in one step, and every directive that clears one clears the other.
HandInv ==
    /\ hand => w.override
    /\ pc = "start" => ~hand

\* HandInv is inductive as long as nothing restarts the worker: the override
\* is not on flash.
LEMMA HandStep ==
    ASSUME PowerTypes, HandInv, Restarts = {}, [Next]_vars PROVE HandInv'
<1> USE DEF HandInv
<1>1. w \in WorkerStates
  BY DEF PowerTypes
<1>2. ASSUME UNCHANGED <<pc, w, hand>> PROVE HandInv'
  BY <1>2
<1>3. ASSUME hand' = hand, w'.override = w.override, pc # "start" \/ pc' = pc, pc' # "start" \/ pc' = pc
      PROVE  HandInv'
  BY <1>3
<1>4. CASE WriteControl \/ KeepTask \/ ShareTaken \/ Deliver \/ RtosStatus \/ RtosNonce \/ Rtos
  BY <1>2, <1>4 DEF WriteControl, KeepTask, ShareTaken, Deliver, Rtos, RtosFlags, RtosApply,
     RtosStatus, RtosNonce, histVars
<1>5. CASE Start
  BY <1>5 DEF Start, histVars
<1>6. CASE ReadControl \/ ClearControl \/ IgnorePause \/ SaveMode \/ EndDrain
           \/ PollNonce \/ EndNonces \/ NoStatus
  BY <1>3, <1>6 DEF ReadControl, ClearControl, IgnorePause, Handled, SaveMode, EndDrain,
     PollNonce, EndNonces, NoStatus, histVars
<1>7. CASE ManualPause \/ ManualResume \/ SendTask \/ GoIdle \/ CheckDue
  BY <1>1, <1>3, <1>7 DEF ManualPause, ManualResume, SendTask, GoIdle, CheckDue, Handled,
     WorkerStates, histVars
<1>8. CASE SwitchMode \/ ApplyTarget
  BY <1>8 DEF SwitchMode, ApplyTarget, Handled
<1>9. CASE ApplyTune
  <2> PICK okFreq \in Rc, okVolt \in Rc :
        LET freq == cmd.freq # None
            volt == cmd.volt # None
            goal == cmd.watts # None
        IN  /\ w' = [w EXCEPT
                       !.freq     = IF freq /\ okFreq THEN cmd.freq ELSE @,
                       !.volt     = IF volt /\ okVolt THEN cmd.volt ELSE @,
                       !.override = ~goal /\ (@ \/ (volt /\ okVolt)),
                       !.target   = IF goal THEN cmd.watts ELSE @,
                       !.due      = @ \/ goal]
            /\ hand' = (~goal /\ (hand \/ (volt /\ okVolt)))
    BY <1>9, Zenon DEF ApplyTune
  <2>1. w'.override = (cmd.watts = None /\ (w.override \/ (cmd.volt # None /\ okVolt)))
    BY <1>1 DEF WorkerStates
  <2>2. pc' = "drain"
    BY <1>9 DEF ApplyTune, Handled
  <2> QED BY <2>1, <2>2
<1>10. CASE RefreshStatus
  <2>1. w'.override = w.override
    BY <1>1, <1>10 DEF RefreshStatus, WorkerStates
  <2> QED BY <1>3, <1>10, <2>1 DEF RefreshStatus, histVars
<1>11. CASE UNCHANGED vars
  BY <1>2, <1>11 DEF vars, histVars
<1>12. ~Reboot /\ ~Relaunch
  BY DEF Reboot, Relaunch
<1> QED
  BY <1>4, <1>5, <1>6, <1>7, <1>8, <1>9, <1>10, <1>11, <1>12 DEF Next, Worker

\* With the override on, the loop moves the voltage only above the trip.
LEMMA OverrideHolds ==
    ASSUME PowerTypes, HandInv, Restarts = {}, [Next]_vars
    PROVE  pc = "status" /\ hand => w'.volt = w.volt \/ Tripped(w'.power)
<1> SUFFICES ASSUME pc = "status", hand
             PROVE  w'.volt = w.volt \/ Tripped(w'.power)
  OBVIOUS
<1>1. w \in WorkerStates /\ w.override
  BY DEF PowerTypes, HandInv
<1>2. CASE RefreshStatus
  <2> PICK p \in Powers, ok \in Rc :
        LET step  == VoltStep(p)
            moves == step # 0 /\ NewVolt(step) # shim
        IN  w' = [w EXCEPT !.power = p,
                           !.volt = IF moves /\ ok THEN NewVolt(step) ELSE @,
                           !.due = @ /\ step = 0]
    BY <1>2, Zenon DEF RefreshStatus
  <2>1. w'.power = p /\ (VoltStep(p) = 0 => w'.volt = w.volt)
    BY <1>1 DEF WorkerStates
  <2>2. VoltStep(p) # 0 => Tripped(p)
    BY <1>1 DEF VoltStep, MaySeek
  <2> QED BY <2>1, <2>2
<1>3. ASSUME UNCHANGED w PROVE w'.volt = w.volt
  BY <1>3
<1>4. CASE CheckDue
  BY <1>1, <1>4 DEF CheckDue, WorkerStates
<1>5. CASE WriteControl \/ Deliver \/ Rtos \/ RtosStatus \/ RtosNonce \/ NoStatus
           \/ ShareTaken \/ UNCHANGED vars
  BY <1>3, <1>5 DEF WriteControl, Deliver, Rtos, RtosFlags, RtosApply, RtosStatus,
     RtosNonce, NoStatus, ShareTaken, vars
<1>6. ~Reboot /\ ~Relaunch /\ ~KeepTask /\ ~SendTask /\ ~GoIdle
  BY DEF Reboot, Relaunch, KeepTask, SendTask, GoIdle
<1>7. Worker => RefreshStatus \/ NoStatus
  BY DEF Worker, Start, ReadControl, ClearControl, ManualPause, ManualResume, IgnorePause,
     SaveMode, SwitchMode, ApplyTune, ApplyTarget, EndDrain, PollNonce, EndNonces
<1> QED BY <1>2, <1>4, <1>5, <1>6, <1>7 DEF Next

\* Within one run of the worker a raw voltage of the operator stays until the
\* operator commands a target or a mode; only the safety trip lowers it.
THEOREM RawVoltageStands == Restarts = {} /\ Spec => ManualVoltageKept
<1> SUFFICES ASSUME Restarts = {} PROVE Spec => ManualVoltageKept
  OBVIOUS
<1>1. Init => HandInv
  BY DEF Init, HandInv
<1>2. PowerTypes /\ HandInv /\ [Next]_vars => HandInv'
  BY HandStep
<1>3. PowerTypes /\ HandInv /\ [Next]_vars =>
        [pc = "status" /\ hand => w'.volt = w.volt \/ Tripped(w'.power)]_vars
  BY OverrideHolds
<1> QED BY <1>1, <1>2, <1>3, PowerTypesHold, PTL DEF Spec, ManualVoltageKept

-----------------------------------------------------------------------------
(* The job history.                                                        *)

\* What the worker can say of a nonce of job x from the history js: it knows
\* the job, or the history is full of newer ones.
KnownIn(js, x) ==
    \/ \E j \in js : j.id = x
    \/ Cardinality({j \in js : j.id > x}) = History

\* A history: at most History jobs, told apart by their ids, older than n.
HistoryBefore(js, n) ==
    /\ js \subseteq [id : Nat, task : 1..MaxTasks]
    /\ IsFiniteSet(js) /\ Cardinality(js) <= History
    /\ \A j \in js : j.id < n
    /\ \A j, k \in js : j.id = k.id => j = k

LEMMA LeastNumber ==
    ASSUME NEW I \in SUBSET Nat, I # {} PROVE \E x \in I : \A y \in I : x <= y
<1>1. \E x \in I : \A y \in I : ~(<<y, x>> \in OpToRel(<, Nat))
  BY WFMin, NatLessThanWellFounded, Zenon
<1>2. PICK x \in I : \A y \in I : ~(<<y, x>> \in OpToRel(<, Nat))
  BY <1>1, Zenon
<1>3. \A y \in I : x <= y
  <2> SUFFICES ASSUME NEW y \in I PROVE x <= y
    OBVIOUS
  <2>1. ~(<<y, x>> \in {ss \in Nat \X Nat : ss[1] < ss[2]})
    BY <1>2 DEF OpToRel
  <2>2. <<y, x>> \in Nat \X Nat
    OBVIOUS
  <2>3. ~(<<y, x>>[1] < <<y, x>>[2])
    BY <2>1, <2>2
  <2> QED BY <2>3
<1> QED BY <1>3

\* A full history that takes a new job drops exactly its oldest.
LEMMA DropsOldest ==
    ASSUME NEW s, s \subseteq [id : Nat, task : 1..MaxTasks], IsFiniteSet(s), s # {},
           \A j, k \in s : j.id = k.id => j = k
    PROVE  \E m \in s : /\ \A j \in s : m.id <= j.id
                        /\ {j \in s : \E k \in s : k.id < j.id} = s \ {m}
<1> DEFINE I == {j.id : j \in s}
<1>1. \E x \in I : \A y \in I : x <= y
  <2>1. I \in SUBSET Nat /\ I # {}
    OBVIOUS
  <2> HIDE DEF I
  <2> QED BY <2>1, LeastNumber
<1>2. PICK m \in s : \A j \in s : m.id <= j.id
  BY <1>1
<1>3. ASSUME NEW j \in s PROVE (\E k \in s : k.id < j.id) <=> j # m
  <2>1. \A k \in s : k.id \in Nat
    OBVIOUS
  <2>2. j # m => m.id < j.id
    <3>1. m.id <= j.id /\ (m.id = j.id => m = j)
      BY <1>2
    <3> QED BY <2>1, <3>1
  <2>3. ASSUME NEW k \in s, k.id < j.id PROVE j # m
    <3>1. m.id <= k.id
      BY <1>2
    <3> QED BY <2>1, <2>3, <3>1
  <2> QED BY <2>2, <2>3
<1>4. {j \in s : \E k \in s : k.id < j.id} = s \ {m}
  BY <1>3
<1> QED BY <1>2, <1>4

\* The history stays one, keeps the new job, and what it could say of a nonce
\* it can still say.
LEMMA HistoryKept ==
    ASSUME NEW js, NEW n \in Nat, HistoryBefore(js, n), NEW t \in 1..MaxTasks
    PROVE  LET new == [id |-> n, task |-> t]
               kept == Remembered(js \cup {new})
           IN  /\ HistoryBefore(kept, n + 1)
               /\ new \in kept
               /\ \A x \in Nat : KnownIn(js, x) => KnownIn(kept, x)
<1> DEFINE new  == [id |-> n, task |-> t]
           s    == js \cup {new}
           kept == Remembered(s)
<1>1. /\ js \subseteq [id : Nat, task : 1..MaxTasks]
      /\ IsFiniteSet(js) /\ Cardinality(js) <= History
      /\ \A j \in js : j.id < n
      /\ \A j, k \in js : j.id = k.id => j = k
  BY DEF HistoryBefore
<1>2. new \notin js /\ new.id = n /\ new \in [id : Nat, task : 1..MaxTasks]
  BY <1>1
<1>3. IsFiniteSet(s) /\ Cardinality(s) = Cardinality(js) + 1
  BY <1>1, <1>2, FS_AddElement
<1>4. /\ s \subseteq [id : Nat, task : 1..MaxTasks] /\ s # {}
      /\ \A j \in s : j.id < n + 1
      /\ \A j, k \in s : j.id = k.id => j = k
  <2>1. \A j \in s : j.id \in Nat
    BY <1>1, <1>2
  <2>2. \A j \in s : j \in js \/ j = new
    OBVIOUS
  <2> QED BY <1>1, <1>2, <2>1, <2>2
<1>5. Cardinality(js) \in Nat /\ History \in Nat /\ History > 0
  BY <1>1, FS_CardinalityType, Nano3sConstants
<1>6. s \in SUBSET (js \cup {new}) /\ js \subseteq s /\ new \in s
  OBVIOUS
<1> HIDE DEF s
<1>7. CASE Cardinality(s) <= History
  <2>1. kept = s
    BY <1>7 DEF Remembered
  <2>2. ASSUME NEW x \in Nat, KnownIn(js, x) PROVE KnownIn(s, x)
    <3>1. Cardinality({j \in js : j.id > x}) <= Cardinality(js)
      <4>1. {j \in js : j.id > x} \in SUBSET js
        OBVIOUS
      <4> QED BY <1>1, <4>1, FS_Subset
    <3>2. Cardinality({j \in js : j.id > x}) # History
      <4> DEFINE c == Cardinality({j \in js : j.id > x})
                 d == Cardinality(js)
      <4>1. c <= d /\ d + 1 <= History /\ d \in Nat
        BY <1>3, <1>5, <1>7, <3>1
      <4> HIDE DEF c, d
      <4>2. c # History
        BY <1>5, <4>1
      <4> QED BY <4>2 DEF c
    <3> QED BY <1>6, <2>2, <3>2 DEF KnownIn
  <2> HIDE DEF kept, new
  <2>3. HistoryBefore(kept, n + 1) /\ new \in kept
    BY <1>3, <1>4, <1>6, <1>7, <2>1 DEF HistoryBefore
  <2> QED BY <1>6, <2>1, <2>2, <2>3 DEF kept, s, new
<1>8. CASE ~(Cardinality(s) <= History)
  <2>1. PICK m \in s : /\ \A j \in s : m.id <= j.id
                       /\ {j \in s : \E k \in s : k.id < j.id} = s \ {m}
    BY <1>3, <1>4, DropsOldest
  <2>2. kept = s \ {m}
    BY <1>8, <2>1 DEF Remembered
  <2>3. Cardinality(js) = History /\ Cardinality(s) = History + 1
    BY <1>1, <1>3, <1>5, <1>8
  <2>4. IsFiniteSet(kept) /\ Cardinality(kept) = History
    <3>1. IsFiniteSet(s \ {m}) /\ Cardinality(s \ {m}) = Cardinality(s) - 1
      BY <1>3, FS_RemoveElement
    <3> QED BY <1>5, <2>2, <2>3, <3>1
  <2>5. js # {}
    BY <1>5, <2>3, FS_EmptySet
  <2>6. new # m
    <3>1. PICK j \in js : TRUE
      BY <2>5
    <3>2. j.id < n /\ m.id <= j.id /\ j.id \in Nat /\ m.id \in Nat
      BY <1>1, <1>4, <1>6, <2>1
    <3>3. m.id # n
      BY <3>2
    <3> QED BY <1>2, <3>3
  <2>7. HistoryBefore(kept, n + 1)
    <3>1. kept \subseteq s
      BY <2>2
    <3> HIDE DEF kept
    <3> QED BY <1>4, <1>5, <2>4, <3>1 DEF HistoryBefore
  <2>8. ASSUME NEW x \in Nat, KnownIn(js, x) PROVE KnownIn(kept, x)
    <3>1. CASE \E j \in js : j.id = x
      <4>1. PICK j \in js : j.id = x
        BY <3>1
      <4>2. CASE j # m
        BY <1>6, <2>2, <4>1, <4>2 DEF KnownIn
      <4>3. CASE j = m
        <5>1. ASSUME NEW k \in kept PROVE k.id > x
          <6>1. k \in s /\ k # m /\ k.id \in Nat /\ m.id = x
            BY <1>4, <2>2, <4>1, <4>3
          <6>2. m.id <= k.id /\ m.id # k.id
            BY <1>4, <2>1, <6>1
          <6> QED BY <6>1, <6>2
        <5> HIDE DEF kept
        <5>2. {k \in kept : k.id > x} = kept
          BY <5>1
        <5> QED BY <2>4, <5>2 DEF KnownIn
      <4> QED BY <4>2, <4>3
    <3>2. CASE Cardinality({j \in js : j.id > x}) = History
      <4>1. {j \in js : j.id > x} = js
        <5>1. {j \in js : j.id > x} \in SUBSET js
          OBVIOUS
        <5> QED BY <1>1, <2>3, <3>2, <5>1, FS_Subset
      <4>2. \A j \in js : j.id > x
        BY <4>1
      <4>3. n > x
        <5>1. PICK j \in js : TRUE
          BY <2>5
        <5> QED BY <1>1, <4>2, <5>1
      <4>4. \A j \in s : j.id > x
        BY <1>2, <1>6, <4>2, <4>3
      <4>5. kept \subseteq s
        BY <2>2
      <4> HIDE DEF kept
      <4>6. {k \in kept : k.id > x} = kept
        BY <4>4, <4>5
      <4> QED BY <2>4, <4>6 DEF KnownIn
    <3> QED BY <2>8, <3>1, <3>2 DEF KnownIn
  <2> HIDE DEF kept, new
  <2>9. new \in kept
    BY <1>6, <2>2, <2>6
  <2> QED BY <2>7, <2>8, <2>9 DEF kept, s, new
<1> QED BY <1>7, <1>8

-----------------------------------------------------------------------------
(* Messages under way: the RTOS keeps the newest of each kind.             *)

\* m is the last message of its kind in s.
LastIs(s, m) ==
    \E i \in DOMAIN s : s[i] = m /\ \A k \in DOMAIN s : k > i => s[k].type # m.type

NoneOf(s, t) == \A k \in DOMAIN s : s[k].type # t

\* Behind every resume comes a clock.
ClockAfterResume(s) ==
    \A i \in DOMAIN s : s[i].type = "resume" =>
        \E k \in DOMAIN s : k > i /\ s[k].type = "mode"

\* The jobs in s are known from the history js.
JobsKnown(s, js) == \A i \in DOMAIN s : s[i].type = "job" => KnownIn(js, s[i].id)

LEMMA Indices ==
    ASSUME NEW s \in Seq(Messages), NEW t \in Seq(Messages)
    PROVE  /\ DOMAIN s = 1..Len(s) /\ Len(s) \in Nat
           /\ DOMAIN (s \o t) = 1..(Len(s) + Len(t))
           /\ \A i \in DOMAIN s : i \in DOMAIN (s \o t) /\ (s \o t)[i] = s[i]
           /\ \A i \in DOMAIN t : Len(s) + i \in DOMAIN (s \o t) /\ (s \o t)[Len(s) + i] = t[i]
           /\ \A i \in DOMAIN (s \o t) :
                 i \notin DOMAIN s => i - Len(s) \in DOMAIN t /\ (s \o t)[i] = t[i - Len(s)]
OBVIOUS

LEMMA TailIndices ==
    ASSUME NEW s \in Seq(Messages), s # <<>>
    PROVE  /\ DOMAIN s = 1..Len(s) /\ Len(s) \in Nat /\ Len(s) > 0 /\ Head(s) = s[1]
           /\ Tail(s) \in Seq(Messages) /\ DOMAIN Tail(s) = 1..(Len(s) - 1)
           /\ \A i \in DOMAIN Tail(s) : i + 1 \in DOMAIN s /\ Tail(s)[i] = s[i + 1]
           /\ \A i \in DOMAIN s : i # 1 => i - 1 \in DOMAIN Tail(s) /\ Tail(s)[i - 1] = s[i]
OBVIOUS

\* What is appended to the messages under way, kind by kind.
LEMMA AppendLast ==
    ASSUME NEW s \in Seq(Messages), NEW t \in Seq(Messages), NEW m, LastIs(t, m)
    PROVE  LastIs(s \o t, m)
<1>1. PICK i \in DOMAIN t : t[i] = m /\ \A k \in DOMAIN t : k > i => t[k].type # m.type
  BY DEF LastIs
<1> DEFINE n == Len(s)
           u == s \o t
<1>2. n + i \in DOMAIN u /\ u[n + i] = m /\ n \in Nat /\ i \in Nat
  BY <1>1, Indices
<1>3. ASSUME NEW k \in DOMAIN u, k > n + i PROVE u[k].type # m.type
  <2>1. k \in Nat /\ k \notin DOMAIN s
    BY <1>2, <1>3, Indices
  <2>2. k - n \in DOMAIN t /\ u[k] = t[k - n]
    BY <2>1, Indices
  <2>3. k - n > i
    BY <1>2, <1>3, <2>1
  <2> QED BY <1>1, <2>2, <2>3
<1> HIDE DEF u, n
<1>4. LastIs(u, m)
  BY <1>2, <1>3 DEF LastIs
<1> QED BY <1>4 DEF u

LEMMA AppendOther ==
    ASSUME NEW s \in Seq(Messages), NEW t \in Seq(Messages), NEW m,
           LastIs(s, m), NoneOf(t, m.type)
    PROVE  LastIs(s \o t, m)
<1>1. PICK i \in DOMAIN s : s[i] = m /\ \A k \in DOMAIN s : k > i => s[k].type # m.type
  BY DEF LastIs
<1> DEFINE n == Len(s)
           u == s \o t
<1>2. i \in DOMAIN u /\ u[i] = m
  BY <1>1, Indices
<1>3. ASSUME NEW k \in DOMAIN u, k > i PROVE u[k].type # m.type
  <2>1. CASE k \in DOMAIN s
    BY <1>1, <1>3, <2>1, Indices
  <2>2. CASE k \notin DOMAIN s
    <3>1. k - n \in DOMAIN t /\ u[k] = t[k - n]
      BY <2>2, Indices
    <3> QED BY <3>1 DEF NoneOf
  <2> QED BY <2>1, <2>2
<1> HIDE DEF u
<1>4. LastIs(u, m)
  BY <1>2, <1>3 DEF LastIs
<1> QED BY <1>4 DEF u

LEMMA AppendNone ==
    ASSUME NEW s \in Seq(Messages), NEW t \in Seq(Messages), NEW k
    PROVE  NoneOf(s \o t, k) <=> NoneOf(s, k) /\ NoneOf(t, k)
<1> DEFINE u == s \o t
           n == Len(s)
<1>1. ASSUME NoneOf(s, k), NoneOf(t, k), NEW i \in DOMAIN u PROVE u[i].type # k
  <2>1. CASE i \in DOMAIN s
    BY <1>1, <2>1, Indices DEF NoneOf
  <2>2. CASE i \notin DOMAIN s
    <3>1. i - n \in DOMAIN t /\ u[i] = t[i - n]
      BY <2>2, Indices
    <3> QED BY <1>1, <3>1 DEF NoneOf
  <2> QED BY <2>1, <2>2
<1>2. ASSUME NoneOf(u, k) PROVE NoneOf(s, k) /\ NoneOf(t, k)
  <2>1. ASSUME NEW i \in DOMAIN s PROVE s[i].type # k
    <3>1. i \in DOMAIN u /\ u[i] = s[i]
      BY Indices
    <3> HIDE DEF u
    <3> QED BY <1>2, <3>1 DEF NoneOf
  <2>2. ASSUME NEW i \in DOMAIN t PROVE t[i].type # k
    <3>1. n + i \in DOMAIN u /\ u[n + i] = t[i]
      BY Indices
    <3> HIDE DEF u
    <3> QED BY <1>2, <3>1 DEF NoneOf
  <2> QED BY <2>1, <2>2 DEF NoneOf
<1> HIDE DEF u
<1>3. NoneOf(u, k) <=> NoneOf(s, k) /\ NoneOf(t, k)
  BY <1>1, <1>2 DEF NoneOf
<1> QED BY <1>3 DEF u

LEMMA AppendKnown ==
    ASSUME NEW s \in Seq(Messages), NEW t \in Seq(Messages), NEW js,
           JobsKnown(s, js), JobsKnown(t, js)
    PROVE  JobsKnown(s \o t, js)
<1> DEFINE u == s \o t
           n == Len(s)
<1>1. ASSUME NEW i \in DOMAIN u, u[i].type = "job" PROVE KnownIn(js, u[i].id)
  <2>1. CASE i \in DOMAIN s
    <3>1. u[i] = s[i]
      BY <2>1, Indices
    <3> QED BY <1>1, <2>1, <3>1 DEF JobsKnown
  <2>2. CASE i \notin DOMAIN s
    <3>1. i - n \in DOMAIN t /\ u[i] = t[i - n]
      BY <2>2, Indices
    <3> QED BY <1>1, <3>1 DEF JobsKnown
  <2> QED BY <2>1, <2>2
<1> HIDE DEF u
<1>2. JobsKnown(u, js)
  BY <1>1 DEF JobsKnown
<1> QED BY <1>2 DEF u

LEMMA AppendClock ==
    ASSUME NEW s \in Seq(Messages), NEW t \in Seq(Messages),
           ClockAfterResume(s), NoneOf(t, "resume")
    PROVE  ClockAfterResume(s \o t)
<1> DEFINE u == s \o t
           n == Len(s)
<1>1. ASSUME NEW i \in DOMAIN u, u[i].type = "resume"
      PROVE  \E k \in DOMAIN u : k > i /\ u[k].type = "mode"
  <2>1. CASE i \in DOMAIN s
    <3>1. s[i].type = "resume"
      BY <1>1, <2>1, Indices
    <3>2. PICK k \in DOMAIN s : k > i /\ s[k].type = "mode"
      BY <2>1, <3>1 DEF ClockAfterResume
    <3>3. k \in DOMAIN u /\ u[k] = s[k]
      BY Indices
    <3> HIDE DEF u
    <3> QED BY <3>2, <3>3
  <2>2. CASE i \notin DOMAIN s
    <3>1. i - n \in DOMAIN t /\ u[i] = t[i - n]
      BY <2>2, Indices
    <3> QED BY <1>1, <3>1 DEF NoneOf
  <2> QED BY <2>1, <2>2
<1> HIDE DEF u
<1>2. ClockAfterResume(u)
  BY <1>1 DEF ClockAfterResume
<1> QED BY <1>2 DEF u

\* A message that arrives is the last of its kind, or that one is still under
\* way.
LEMMA TailLast ==
    ASSUME NEW s \in Seq(Messages), s # <<>>, NEW m, LastIs(s, m)
    PROVE  LastIs(Tail(s), m) \/ (Head(s) = m /\ NoneOf(Tail(s), m.type))
<1>1. PICK i \in DOMAIN s : s[i] = m /\ \A k \in DOMAIN s : k > i => s[k].type # m.type
  BY DEF LastIs
<1> DEFINE u == Tail(s)
<1>2. DOMAIN s = 1..Len(s) /\ Len(s) \in Nat /\ DOMAIN u = 1..(Len(s) - 1)
  BY TailIndices
<1>3. \A k \in DOMAIN u : k + 1 \in DOMAIN s /\ u[k] = s[k + 1]
  BY TailIndices
<1>4. CASE i = 1
  <2>1. \A k \in DOMAIN u : k \in Nat /\ k + 1 > 1
    BY <1>2
  <2>2. \A k \in DOMAIN u : u[k].type # m.type
    BY <1>1, <1>3, <1>4, <2>1
  <2>3. Head(s) = m
    BY <1>1, <1>4, TailIndices
  <2> QED BY <2>2, <2>3 DEF NoneOf
<1>5. CASE i # 1
  <2>1. i - 1 \in DOMAIN u /\ u[i - 1] = m
    BY <1>1, <1>5, TailIndices
  <2>2. ASSUME NEW k \in DOMAIN u, k > i - 1 PROVE u[k].type # m.type
    <3>1. k + 1 > i
      BY <1>2, <2>2
    <3> QED BY <1>1, <1>3, <3>1
  <2> HIDE DEF u
  <2>3. LastIs(u, m)
    BY <2>1, <2>2 DEF LastIs
  <2> QED BY <2>3 DEF u
<1> QED BY <1>4, <1>5

LEMMA TailNone ==
    ASSUME NEW s \in Seq(Messages), s # <<>>, NEW k
    PROVE  NoneOf(s, k) <=> NoneOf(Tail(s), k) /\ Head(s).type # k
<1> DEFINE u == Tail(s)
<1>1. /\ 1 \in DOMAIN s /\ Head(s) = s[1]
      /\ \A i \in DOMAIN u : i + 1 \in DOMAIN s /\ u[i] = s[i + 1]
      /\ \A i \in DOMAIN s : i # 1 => i - 1 \in DOMAIN u /\ u[i - 1] = s[i]
  BY TailIndices
<1> HIDE DEF u
<1>2. NoneOf(s, k) <=> NoneOf(u, k) /\ Head(s).type # k
  BY <1>1 DEF NoneOf
<1> QED BY <1>2 DEF u

LEMMA TailClock ==
    ASSUME NEW s \in Seq(Messages), s # <<>>, ClockAfterResume(s)
    PROVE  /\ ClockAfterResume(Tail(s))
           /\ Head(s).type = "resume" => ~NoneOf(Tail(s), "mode")
<1> DEFINE u == Tail(s)
<1>1. /\ 1 \in DOMAIN s /\ Head(s) = s[1] /\ DOMAIN s = 1..Len(s) /\ Len(s) \in Nat
      /\ \A i \in DOMAIN u : i + 1 \in DOMAIN s /\ u[i] = s[i + 1]
      /\ \A i \in DOMAIN s : i # 1 => i - 1 \in DOMAIN u /\ u[i - 1] = s[i]
      /\ DOMAIN u = 1..(Len(s) - 1)
  BY TailIndices
<1> HIDE DEF u
<1>2. ASSUME NEW i \in DOMAIN u, u[i].type = "resume"
      PROVE  \E k \in DOMAIN u : k > i /\ u[k].type = "mode"
  <2>1. PICK k \in DOMAIN s : k > i + 1 /\ s[k].type = "mode"
    BY <1>1, <1>2 DEF ClockAfterResume
  <2>2. i \in Nat /\ k \in Nat /\ i >= 1
    BY <1>1
  <2>3. k # 1 /\ k - 1 > i
    BY <2>1, <2>2
  <2> QED BY <1>1, <2>1, <2>3
<1>3. Head(s).type = "resume" => ~NoneOf(u, "mode")
  <2> SUFFICES ASSUME Head(s).type = "resume" PROVE ~NoneOf(u, "mode")
    OBVIOUS
  <2>1. PICK k \in DOMAIN s : k > 1 /\ s[k].type = "mode"
    BY <1>1 DEF ClockAfterResume
  <2> QED BY <1>1, <2>1 DEF NoneOf
<1> QED BY <1>2, <1>3 DEF ClockAfterResume, u

LEMMA TailKnown ==
    ASSUME NEW s \in Seq(Messages), s # <<>>, NEW js, JobsKnown(s, js)
    PROVE  /\ JobsKnown(Tail(s), js)
           /\ Head(s).type = "job" => KnownIn(js, Head(s).id)
<1> DEFINE u == Tail(s)
<1>1. /\ 1 \in DOMAIN s /\ Head(s) = s[1]
      /\ \A i \in DOMAIN u : i + 1 \in DOMAIN s /\ u[i] = s[i + 1]
  BY TailIndices
<1> HIDE DEF u
<1>2. JobsKnown(u, js) /\ (Head(s).type = "job" => KnownIn(js, Head(s).id))
  BY <1>1 DEF JobsKnown
<1> QED BY <1>2 DEF u

\* One message, or none.
LEMMA PostKinds ==
    ASSUME NEW m \in Messages, NEW ok
    PROVE  /\ ok = TRUE => LastIs(Post(ok, m), m)
           /\ \A k : k # m.type => NoneOf(Post(ok, m), k)
           /\ \A k : ~ok => NoneOf(Post(ok, m), k)
           /\ Len(Post(ok, m)) \in Nat /\ Len(Post(ok, m)) <= 1
<1>1. Post(ok, m) = <<m>> \/ Post(ok, m) = <<>>
  BY DEF Post
<1>2. ok = TRUE => LastIs(Post(ok, m), m)
  BY DEF LastIs, Post
<1>3. \A k : k # m.type => NoneOf(Post(ok, m), k)
  BY <1>1 DEF NoneOf
<1>4. ~ok => \A k : NoneOf(Post(ok, m), k)
  BY DEF NoneOf, Post
<1>5. Len(Post(ok, m)) \in Nat /\ Len(Post(ok, m)) <= 1
  BY <1>1
<1> QED BY <1>2, <1>3, <1>4, <1>5, Zenon

LEMMA EmptyKinds == Len(<<>>) = 0 /\ \A k : NoneOf(<<>>, k)
BY DEF NoneOf

LEMMA LastNotNone == ASSUME NEW s, NEW m, LastIs(s, m) PROVE ~NoneOf(s, m.type)
BY DEF LastIs, NoneOf

\* One batch of messages after another.  The name keeps the provers from
\* taking nested concatenations apart.
Then(s, t) == s \o t

LEMMA ThenFacts ==
    ASSUME NEW a \in Seq(Messages), NEW b \in Seq(Messages)
    PROVE  /\ Then(a, b) \in Seq(Messages)
           /\ Len(Then(a, b)) = Len(a) + Len(b)
           /\ \A k : NoneOf(Then(a, b), k) <=> NoneOf(a, k) /\ NoneOf(b, k)
           /\ \A m : LastIs(b, m) => LastIs(Then(a, b), m)
           /\ \A m : LastIs(a, m) /\ NoneOf(b, m.type) => LastIs(Then(a, b), m)
<1>1. Then(a, b) \in Seq(Messages) /\ Len(Then(a, b)) = Len(a) + Len(b)
  BY DEF Then
<1>2. \A k : NoneOf(Then(a, b), k) <=> NoneOf(a, k) /\ NoneOf(b, k)
  BY AppendNone, Zenon DEF Then
<1>3. \A m : LastIs(b, m) => LastIs(Then(a, b), m)
  BY AppendLast, Zenon DEF Then
<1>4. \A m : LastIs(a, m) /\ NoneOf(b, m.type) => LastIs(Then(a, b), m)
  BY AppendOther, Zenon DEF Then
<1> QED BY <1>1, <1>2, <1>3, <1>4, Zenon

LEMMA ThenAssociative ==
    ASSUME NEW a \in Seq(Messages), NEW b \in Seq(Messages), NEW c \in Seq(Messages)
    PROVE  Then(Then(a, b), c) = Then(a, Then(b, c))
BY ConcatAssociative DEF Then

LEMMA Then3Facts ==
    ASSUME NEW a \in Seq(Messages), NEW b \in Seq(Messages), NEW c \in Seq(Messages)
    PROVE  LET t == Then(Then(a, b), c)
           IN  /\ t \in Seq(Messages)
               /\ \A s \in Seq(Messages) : Then(Then(Then(s, a), b), c) = Then(s, t)
               /\ Len(t) = Len(a) + Len(b) + Len(c)
               /\ \A k : NoneOf(t, k) <=> NoneOf(a, k) /\ NoneOf(b, k) /\ NoneOf(c, k)
               /\ \A m : LastIs(c, m) => LastIs(t, m)
               /\ \A m : LastIs(b, m) /\ NoneOf(c, m.type) => LastIs(t, m)
               /\ \A m : LastIs(a, m) /\ NoneOf(b, m.type) /\ NoneOf(c, m.type) => LastIs(t, m)
<1> DEFINE ab == Then(a, b)
           t  == Then(ab, c)
<1>1. ab \in Seq(Messages) /\ Len(ab) = Len(a) + Len(b)
  BY ThenFacts
<1>2. /\ \A k : NoneOf(ab, k) <=> NoneOf(a, k) /\ NoneOf(b, k)
      /\ \A m : LastIs(b, m) => LastIs(ab, m)
      /\ \A m : LastIs(a, m) /\ NoneOf(b, m.type) => LastIs(ab, m)
  BY ThenFacts, Zenon
<1>3. \A s \in Seq(Messages) : Then(Then(Then(s, a), b), c) = Then(s, t)
  <2> SUFFICES ASSUME NEW s \in Seq(Messages)
               PROVE  Then(Then(Then(s, a), b), c) = Then(s, t)
    OBVIOUS
  <2>1. Then(Then(s, a), b) = Then(s, ab)
    BY ThenAssociative
  <2> HIDE DEF ab
  <2>2. Then(Then(s, ab), c) = Then(s, Then(ab, c))
    BY <1>1, ThenAssociative
  <2> QED BY <2>1, <2>2
<1> HIDE DEF ab
<1>4. t \in Seq(Messages) /\ Len(t) = Len(ab) + Len(c)
  BY <1>1, ThenFacts
<1>5. /\ \A k : NoneOf(t, k) <=> NoneOf(ab, k) /\ NoneOf(c, k)
      /\ \A m : LastIs(c, m) => LastIs(t, m)
      /\ \A m : LastIs(ab, m) /\ NoneOf(c, m.type) => LastIs(t, m)
  BY <1>1, ThenFacts, Zenon
<1> HIDE DEF t
<1>6. Len(t) = Len(a) + Len(b) + Len(c)
  BY <1>1, <1>4
<1>7. /\ \A k : NoneOf(t, k) <=> NoneOf(a, k) /\ NoneOf(b, k) /\ NoneOf(c, k)
      /\ \A m : LastIs(b, m) /\ NoneOf(c, m.type) => LastIs(t, m)
      /\ \A m : LastIs(a, m) /\ NoneOf(b, m.type) /\ NoneOf(c, m.type) => LastIs(t, m)
  BY <1>2, <1>5, Zenon
<1> QED BY <1>3, <1>4, <1>5, <1>6, <1>7, Zenon DEF t, ab

-----------------------------------------------------------------------------
(* What each step of the worker sends.                                     *)

\* t, of at most n messages, joins the messages under way.
Sends(t, n) == t \in Seq(Messages) /\ Len(t) <= n /\ ipc' = Then(ipc, t)

\* t carries clocks and voltages only.
PowerOnly(t) == NoneOf(t, "pause") /\ NoneOf(t, "resume") /\ NoneOf(t, "job")

\* t tells the RTOS every clock and voltage the step latches.
TellsFreq(t) == LastIs(t, SetMode(w'.freq)) \/ (NoneOf(t, "mode") /\ w'.freq = w.freq)

TellsVolt(t) ==
    w'.volt # None =>
        LastIs(t, SetVolt(w'.volt)) \/ (NoneOf(t, "volt") /\ w'.volt = w.volt)

LEMMA Kinds ==
    /\ \A f : SetMode(f).type = "mode"
    /\ \A mv : SetVolt(mv).type = "volt"
    /\ \A id : Job(id).type = "job" /\ Job(id).id = id
    /\ PauseMsg.type = "pause" /\ ResumeMsg.type = "resume"
BY DEF SetMode, SetVolt, Job, PauseMsg, ResumeMsg

\* The two kinds of batch a power step is made of.
LEMMA ClockBatch ==
    ASSUME NEW f \in Freqs, NEW ok, NEW sent \in BOOLEAN
    PROVE  LET t == IF sent THEN Post(ok, SetMode(f)) ELSE <<>>
           IN  /\ t \in Seq(Messages) /\ Len(t) \in Nat /\ Len(t) <= 1
               /\ PowerOnly(t) /\ NoneOf(t, "volt")
               /\ sent /\ ok = TRUE => LastIs(t, SetMode(f))
               /\ ~sent => NoneOf(t, "mode")
<1> DEFINE t == IF sent THEN Post(ok, SetMode(f)) ELSE <<>>
<1>1. SetMode(f) \in Messages /\ SetMode(f).type = "mode"
  BY MessageTypes, Kinds
<1>2. CASE sent
  <2>1. t = Post(ok, SetMode(f)) /\ t \in Seq(Messages)
    BY <1>1, <1>2, PostType
  <2> HIDE DEF t
  <2>2. /\ ok = TRUE => LastIs(t, SetMode(f))
        /\ \A k : k # SetMode(f).type => NoneOf(t, k)
        /\ Len(t) \in Nat /\ Len(t) <= 1
    BY <1>1, <2>1, PostKinds, Zenon
  <2>3. NoneOf(t, "pause") /\ NoneOf(t, "resume") /\ NoneOf(t, "job") /\ NoneOf(t, "volt")
    BY <1>1, <2>2
  <2> QED BY <1>2, <2>1, <2>2, <2>3 DEF PowerOnly, t
<1>3. CASE ~sent
  BY <1>3, EmptyKinds, EmptyType DEF PowerOnly
<1> QED BY <1>2, <1>3

LEMMA VoltBatch ==
    ASSUME NEW mv, NEW ok, NEW sent \in BOOLEAN, sent => mv \in Int
    PROVE  LET t == IF sent THEN Post(ok, SetVolt(mv)) ELSE <<>>
           IN  /\ t \in Seq(Messages) /\ Len(t) \in Nat /\ Len(t) <= 1
               /\ PowerOnly(t) /\ NoneOf(t, "mode")
               /\ sent /\ ok = TRUE => LastIs(t, SetVolt(mv))
               /\ ~sent => NoneOf(t, "volt")
<1> DEFINE t == IF sent THEN Post(ok, SetVolt(mv)) ELSE <<>>
<1>2. CASE sent
  <2>0. SetVolt(mv) \in Messages /\ SetVolt(mv).type = "volt"
    BY <1>2, MessageTypes, Kinds
  <2>1. t = Post(ok, SetVolt(mv)) /\ t \in Seq(Messages)
    BY <2>0, <1>2, PostType
  <2> HIDE DEF t
  <2>2. /\ ok = TRUE => LastIs(t, SetVolt(mv))
        /\ \A k : k # SetVolt(mv).type => NoneOf(t, k)
        /\ Len(t) \in Nat /\ Len(t) <= 1
    BY <2>0, <2>1, PostKinds, Zenon
  <2>3. NoneOf(t, "pause") /\ NoneOf(t, "resume") /\ NoneOf(t, "job") /\ NoneOf(t, "mode")
    BY <2>0, <2>2
  <2> QED BY <1>2, <2>1, <2>2, <2>3 DEF PowerOnly, t
<1>3. CASE ~sent
  BY <1>3, EmptyKinds, EmptyType DEF PowerOnly
<1> QED BY <1>2, <1>3

\* The ramp and what the tuning file adds to it.
LEMMA StartSends ==
    ASSUME PowerTypes, Start
    PROVE  \E t : /\ Sends(t, 3) /\ PowerOnly(t)
                  /\ Rc = {TRUE} =>
                       /\ LastIs(t, SetMode(w'.freq))
                       /\ w'.volt # None => LastIs(t, SetVolt(w'.volt))
<1> DEFINE m    == file.mode
           t    == file.tune
           freq == t # None
           volt == t # None /\ t.volt # None
           mv   == PersistedVolt(t.volt, m)
<1>1. PICK okRamp \in Rc, okFreq \in Rc, okVolt \in Rc :
        /\ ipc' = ipc \o Post(okRamp, SetMode(RampTarget(m)))
                      \o (IF freq THEN Post(okFreq, SetMode(t.freq)) ELSE <<>>)
                      \o (IF volt THEN Post(okVolt, SetVolt(mv)) ELSE <<>>)
        /\ w' = [FreshWorker EXCEPT
                   !.mode = m,
                   !.target = IF freq /\ t.watts # None THEN t.watts ELSE EnvTarget,
                   !.freq = IF freq /\ okFreq THEN t.freq ELSE RampTarget(m),
                   !.volt = IF volt /\ okVolt THEN mv ELSE None]
  BY Zenon DEF Start
<1>2. m \in Modes /\ (freq => t.freq \in Freqs /\ t.volt \in Int \cup {None})
  BY DEF PowerTypes, Tunings
<1>3. volt => mv \in Int
  BY <1>2, ClampInRange DEF PersistedVolt
<1>4. RampTarget(m) \in Freqs
  BY <1>2, RampType
<1>5. /\ w'.freq = IF freq /\ okFreq THEN t.freq ELSE RampTarget(m)
      /\ w'.volt = IF volt /\ okVolt THEN mv ELSE None
  BY <1>1 DEF FreshWorker
<1>6. freq \in BOOLEAN /\ volt \in BOOLEAN /\ ipc \in Seq(Messages)
  BY DEF PowerTypes
<1> DEFINE f == IF freq THEN t.freq ELSE "cold"
           a == IF TRUE THEN Post(okRamp, SetMode(RampTarget(m))) ELSE <<>>
           b == IF freq THEN Post(okFreq, SetMode(f)) ELSE <<>>
           c == IF volt THEN Post(okVolt, SetVolt(mv)) ELSE <<>>
<1>7. ipc' = Then(Then(Then(ipc, a), b), c)
  BY <1>1, Zenon DEF Then
<1>8. f \in Freqs
  BY <1>2 DEF Freqs
<1> HIDE DEF f
<1>9. /\ a \in Seq(Messages) /\ Len(a) \in Nat /\ Len(a) <= 1
      /\ PowerOnly(a) /\ NoneOf(a, "volt")
      /\ okRamp = TRUE => LastIs(a, SetMode(RampTarget(m)))
  BY <1>4, ClockBatch
<1> HIDE DEF freq, volt
<1>10. /\ b \in Seq(Messages) /\ Len(b) \in Nat /\ Len(b) <= 1
       /\ PowerOnly(b) /\ NoneOf(b, "volt")
       /\ freq /\ okFreq = TRUE => LastIs(b, SetMode(f))
       /\ ~freq => NoneOf(b, "mode")
  BY <1>6, <1>8, ClockBatch, Zenon
<1> HIDE DEF mv
<1>11. /\ c \in Seq(Messages) /\ Len(c) \in Nat /\ Len(c) <= 1
       /\ PowerOnly(c) /\ NoneOf(c, "mode")
       /\ volt /\ okVolt = TRUE => LastIs(c, SetVolt(mv))
       /\ ~volt => NoneOf(c, "volt")
  BY <1>3, <1>6, VoltBatch, Zenon
<1> HIDE DEF a, b, c
<1> DEFINE u == Then(Then(a, b), c)
<1>12. u \in Seq(Messages) /\ Then(Then(Then(ipc, a), b), c) = Then(ipc, u)
  BY <1>6, <1>9, <1>10, <1>11, Then3Facts
<1>13. Len(u) <= 3
  <2>1. Len(u) = Len(a) + Len(b) + Len(c)
    BY <1>9, <1>10, <1>11, Then3Facts
  <2> HIDE DEF u
  <2> QED BY <1>9, <1>10, <1>11, <2>1
<1>14. /\ \A k : NoneOf(u, k) <=> NoneOf(a, k) /\ NoneOf(b, k) /\ NoneOf(c, k)
       /\ \A x : LastIs(c, x) => LastIs(u, x)
       /\ \A x : LastIs(b, x) /\ NoneOf(c, x.type) => LastIs(u, x)
       /\ \A x : LastIs(a, x) /\ NoneOf(b, x.type) /\ NoneOf(c, x.type) => LastIs(u, x)
  BY <1>9, <1>10, <1>11, Then3Facts, Zenon
<1> HIDE DEF u
<1>15. PowerOnly(u)
  BY <1>9, <1>10, <1>11, <1>14, Zenon DEF PowerOnly
<1>16. ASSUME Rc = {TRUE} PROVE LastIs(u, SetMode(w'.freq))
  <2>1. okRamp = TRUE /\ okFreq = TRUE
    BY <1>16
  <2>2. CASE freq
    <3>1. w'.freq = f
      BY <1>5, <2>1, <2>2 DEF f
    <3>2. LastIs(b, SetMode(f)) /\ NoneOf(c, SetMode(f).type)
      BY <1>10, <1>11, <2>1, <2>2, Kinds
    <3> QED BY <1>14, <3>1, <3>2, Zenon
  <2>3. CASE ~freq
    <3>1. w'.freq = RampTarget(m)
      BY <1>5, <2>3
    <3>2. /\ LastIs(a, SetMode(RampTarget(m)))
          /\ NoneOf(b, SetMode(RampTarget(m)).type) /\ NoneOf(c, SetMode(RampTarget(m)).type)
      BY <1>9, <1>10, <1>11, <2>1, <2>3, Kinds
    <3> QED BY <1>14, <3>1, <3>2, Zenon
  <2> QED BY <2>2, <2>3
<1>17. ASSUME Rc = {TRUE}, w'.volt # None PROVE LastIs(u, SetVolt(w'.volt))
  <2>1. okVolt = TRUE /\ volt /\ w'.volt = mv
    BY <1>5, <1>17
  <2>2. LastIs(c, SetVolt(mv))
    BY <1>11, <2>1
  <2> QED BY <1>14, <2>1, <2>2, Zenon
<1>18. Sends(u, 3)
  BY <1>7, <1>12, <1>13 DEF Sends
<1> QED BY <1>15, <1>16, <1>17, <1>18

\* A clock and a voltage, each sent or not: a mode switch and a tune.
LEMMA ClockAndVolt ==
    ASSUME ipc \in Seq(Messages),
           NEW f \in Freqs, NEW okFreq \in Rc, NEW freq \in BOOLEAN,
           NEW mv, NEW okVolt \in Rc, NEW volt \in BOOLEAN, volt => mv \in Int,
           ipc' = ipc \o (IF freq THEN Post(okFreq, SetMode(f)) ELSE <<>>)
                      \o (IF volt THEN Post(okVolt, SetVolt(mv)) ELSE <<>>)
    PROVE  \E t : /\ Sends(t, 2) /\ PowerOnly(t)
                  /\ Rc = {TRUE} => /\ IF freq THEN LastIs(t, SetMode(f)) ELSE NoneOf(t, "mode")
                                    /\ IF volt THEN LastIs(t, SetVolt(mv)) ELSE NoneOf(t, "volt")
<1> DEFINE a == IF freq THEN Post(okFreq, SetMode(f)) ELSE <<>>
           b == IF volt THEN Post(okVolt, SetVolt(mv)) ELSE <<>>
           u == Then(a, b)
<1>1. ipc' = Then(Then(ipc, a), b)
  BY Zenon DEF Then
<1>2. /\ a \in Seq(Messages) /\ Len(a) \in Nat /\ Len(a) <= 1
      /\ PowerOnly(a) /\ NoneOf(a, "volt")
      /\ freq /\ okFreq = TRUE => LastIs(a, SetMode(f))
      /\ ~freq => NoneOf(a, "mode")
  BY ClockBatch, Zenon
<1>3. /\ b \in Seq(Messages) /\ Len(b) \in Nat /\ Len(b) <= 1
      /\ PowerOnly(b) /\ NoneOf(b, "mode")
      /\ volt /\ okVolt = TRUE => LastIs(b, SetVolt(mv))
      /\ ~volt => NoneOf(b, "volt")
  BY VoltBatch, Zenon
<1> HIDE DEF a, b
<1>4. Then(Then(ipc, a), b) = Then(ipc, u)
  BY <1>2, <1>3, ThenAssociative
<1>5. /\ u \in Seq(Messages) /\ Len(u) = Len(a) + Len(b)
  BY <1>2, <1>3, ThenFacts
<1>6. /\ \A k : NoneOf(u, k) <=> NoneOf(a, k) /\ NoneOf(b, k)
      /\ \A m : LastIs(b, m) => LastIs(u, m)
      /\ \A m : LastIs(a, m) /\ NoneOf(b, m.type) => LastIs(u, m)
  BY <1>2, <1>3, ThenFacts, Zenon
<1> HIDE DEF u
<1>10. Len(u) <= 2
  BY <1>2, <1>3, <1>5
<1>7. Sends(u, 2)
  BY <1>1, <1>4, <1>5, <1>10, Zenon DEF Sends
<1>8. PowerOnly(u)
  BY <1>2, <1>3, <1>6, Zenon DEF PowerOnly
<1>9. ASSUME Rc = {TRUE}
      PROVE  /\ IF freq THEN LastIs(u, SetMode(f)) ELSE NoneOf(u, "mode")
             /\ IF volt THEN LastIs(u, SetVolt(mv)) ELSE NoneOf(u, "volt")
  <2>1. okFreq = TRUE /\ okVolt = TRUE
    BY <1>9
  <2>2. SetMode(f).type = "mode"
    BY Kinds
  <2>3. freq => LastIs(u, SetMode(f))
    BY <1>2, <1>3, <1>6, <2>1, <2>2
  <2>4. ~freq => NoneOf(u, "mode")
    BY <1>2, <1>3, <1>6, Zenon
  <2>5. volt => LastIs(u, SetVolt(mv))
    BY <1>3, <1>6, <2>1, Zenon
  <2>6. ~volt => NoneOf(u, "volt")
    BY <1>2, <1>3, <1>6, Zenon
  <2> QED BY <2>3, <2>4, <2>5, <2>6, Zenon
<1> QED BY <1>7, <1>8, <1>9, Zenon

LEMMA SwitchSends ==
    ASSUME PowerTypes, SwitchMode
    PROVE  \E t : Sends(t, 2) /\ PowerOnly(t) /\ (Rc = {TRUE} => TellsFreq(t) /\ TellsVolt(t))
<1> DEFINE m    == cmd.mode
           volt == w.volt # None
           mv   == LatchedVolt(w.volt, m)
           f    == RampTarget(m)
<1>1. PICK okFreq \in Rc, okVolt \in Rc :
        /\ w' = [w EXCEPT !.mode = m, !.override = FALSE, !.freq = f,
                          !.volt = IF @ = None THEN None ELSE LatchedVolt(@, m)]
        /\ ipc' = ipc \o Post(okFreq, SetMode(f))
                      \o (IF volt THEN Post(okVolt, SetVolt(mv)) ELSE <<>>)
  BY Zenon DEF SwitchMode
<1>2. m \in Modes
  BY CommandTypes DEF PowerTypes, SwitchMode
<1>3. volt => mv \in Int
  BY <1>2, ClampInRange DEF LatchedVolt, PowerTypes, WorkerStates
<1>4. f \in Freqs
  BY <1>2, RampType
<1>5. ipc \in Seq(Messages) /\ w \in WorkerStates
  BY DEF PowerTypes
<1>6. w'.freq = f /\ w'.volt = IF volt THEN mv ELSE None
  BY <1>1, <1>5 DEF WorkerStates
<1>7. volt \in BOOLEAN
  OBVIOUS
<1> HIDE DEF volt, mv, f
<1>8. \E t : /\ Sends(t, 2) /\ PowerOnly(t)
             /\ Rc = {TRUE} => /\ LastIs(t, SetMode(f))
                               /\ IF volt THEN LastIs(t, SetVolt(mv)) ELSE NoneOf(t, "volt")
  <2>1. ipc' = ipc \o (IF TRUE THEN Post(okFreq, SetMode(f)) ELSE <<>>)
                   \o (IF volt THEN Post(okVolt, SetVolt(mv)) ELSE <<>>)
    BY <1>1, Zenon
  <2>2. TRUE \in BOOLEAN
    OBVIOUS
  <2>3. \E t : /\ Sends(t, 2) /\ PowerOnly(t)
               /\ Rc = {TRUE} => /\ IF TRUE THEN LastIs(t, SetMode(f)) ELSE NoneOf(t, "mode")
                                 /\ IF volt THEN LastIs(t, SetVolt(mv)) ELSE NoneOf(t, "volt")
    BY <1>3, <1>4, <1>5, <1>7, <2>1, <2>2, ClockAndVolt, Zenon
  <2> QED BY <2>3, Zenon
<1>9. PICK t : /\ Sends(t, 2) /\ PowerOnly(t)
               /\ Rc = {TRUE} => /\ LastIs(t, SetMode(f))
                                 /\ IF volt THEN LastIs(t, SetVolt(mv)) ELSE NoneOf(t, "volt")
  BY <1>8
<1>10. Rc = {TRUE} => TellsFreq(t) /\ TellsVolt(t)
  BY <1>6, <1>9 DEF TellsFreq, TellsVolt
<1> QED BY <1>9, <1>10

LEMMA TuneSends ==
    ASSUME PowerTypes, ApplyTune
    PROVE  \E t : Sends(t, 2) /\ PowerOnly(t) /\ (Rc = {TRUE} => TellsFreq(t) /\ TellsVolt(t))
<1> DEFINE freq == cmd.freq # None
           volt == cmd.volt # None
           goal == cmd.watts # None
           f    == IF freq THEN cmd.freq ELSE "cold"
<1>1. PICK okFreq \in Rc, okVolt \in Rc :
        /\ ipc' = ipc \o (IF freq THEN Post(okFreq, SetMode(cmd.freq)) ELSE <<>>)
                      \o (IF volt THEN Post(okVolt, SetVolt(cmd.volt)) ELSE <<>>)
        /\ w' = [w EXCEPT
                   !.freq     = IF freq /\ okFreq THEN cmd.freq ELSE @,
                   !.volt     = IF volt /\ okVolt THEN cmd.volt ELSE @,
                   !.override = ~goal /\ (@ \/ (volt /\ okVolt)),
                   !.target   = IF goal THEN cmd.watts ELSE @,
                   !.due      = @ \/ goal]
        /\ file' = [file EXCEPT !.tune = Tuning(w')]
  BY Zenon DEF ApplyTune
<1>2. cmd.freq \in Freqs \cup {None} /\ cmd.volt \in Int \cup {None}
  BY CommandTypes DEF PowerTypes, ApplyTune
<1>3. ipc \in Seq(Messages) /\ w \in WorkerStates
  BY DEF PowerTypes
<1>4. /\ w'.freq = IF freq /\ okFreq THEN cmd.freq ELSE w.freq
      /\ w'.volt = IF volt /\ okVolt THEN cmd.volt ELSE w.volt
  BY <1>1, <1>3 DEF WorkerStates
<1>5. f \in Freqs /\ freq \in BOOLEAN /\ volt \in BOOLEAN /\ (volt => cmd.volt \in Int)
  BY <1>2 DEF Freqs
<1>6. ipc' = ipc \o (IF freq THEN Post(okFreq, SetMode(f)) ELSE <<>>)
                 \o (IF volt THEN Post(okVolt, SetVolt(cmd.volt)) ELSE <<>>)
  <2>1. (IF freq THEN Post(okFreq, SetMode(f)) ELSE <<>>)
          = (IF freq THEN Post(okFreq, SetMode(cmd.freq)) ELSE <<>>)
    OBVIOUS
  <2> QED BY <1>1, <2>1, Zenon
<1>7. freq => f = cmd.freq
  OBVIOUS
<1> HIDE DEF freq, volt, f
<1>8. \E t : /\ Sends(t, 2) /\ PowerOnly(t)
             /\ Rc = {TRUE} => /\ IF freq THEN LastIs(t, SetMode(f)) ELSE NoneOf(t, "mode")
                               /\ IF volt THEN LastIs(t, SetVolt(cmd.volt)) ELSE NoneOf(t, "volt")
  BY <1>3, <1>5, <1>6, ClockAndVolt, Zenon
<1>9. PICK t : /\ Sends(t, 2) /\ PowerOnly(t)
               /\ Rc = {TRUE} => /\ IF freq THEN LastIs(t, SetMode(f)) ELSE NoneOf(t, "mode")
                                 /\ IF volt THEN LastIs(t, SetVolt(cmd.volt)) ELSE NoneOf(t, "volt")
  BY <1>8
<1>10. Rc = {TRUE} => TellsFreq(t) /\ TellsVolt(t)
  BY <1>4, <1>7, <1>9 DEF TellsFreq, TellsVolt
<1> QED BY <1>9, <1>10

\* A step of the power-target loop.
LEMMA StatusSends ==
    ASSUME PowerTypes, RefreshStatus
    PROVE  \E t : Sends(t, 1) /\ PowerOnly(t) /\ (Rc = {TRUE} => TellsFreq(t) /\ TellsVolt(t))
<1> PICK p \in Powers, ok \in Rc :
        LET step  == VoltStep(p)
            moves == step # 0 /\ NewVolt(step) # shim
        IN  /\ ipc' = ipc \o (IF moves THEN Post(ok, SetVolt(NewVolt(step))) ELSE <<>>)
            /\ w' = [w EXCEPT !.power = p,
                              !.volt = IF moves /\ ok THEN NewVolt(step) ELSE @,
                              !.due = @ /\ step = 0]
  BY Zenon DEF RefreshStatus
<1> DEFINE step  == VoltStep(p)
           mv    == NewVolt(step)
           moves == step # 0 /\ mv # shim
           t     == IF moves THEN Post(ok, SetVolt(mv)) ELSE <<>>
<1>1. ipc \in Seq(Messages) /\ w \in WorkerStates
  BY DEF PowerTypes
<1>2. mv \in Int /\ moves \in BOOLEAN
  <2>1. shim \in Int /\ w.mode \in Modes
    BY <1>1 DEF PowerTypes, RefreshStatus, WorkerStates
  <2> QED BY <2>1, VoltStepType, NewVoltInRange
<1>3. ipc' = Then(ipc, t)
  BY Zenon DEF Then
<1>4. w' = [w EXCEPT !.power = p, !.volt = IF moves /\ ok THEN mv ELSE @,
                     !.due = @ /\ step = 0]
  BY Zenon
<1> HIDE DEF step, mv, moves
<1>5. w'.freq = w.freq /\ w'.volt = IF moves /\ ok THEN mv ELSE w.volt
  BY <1>1, <1>4 DEF WorkerStates
<1>6. /\ t \in Seq(Messages) /\ Len(t) \in Nat /\ Len(t) <= 1
      /\ PowerOnly(t) /\ NoneOf(t, "mode")
      /\ moves /\ ok = TRUE => LastIs(t, SetVolt(mv))
      /\ ~moves => NoneOf(t, "volt")
  BY <1>2, VoltBatch, Zenon
<1> HIDE DEF t
<1>7. Rc = {TRUE} => TellsFreq(t) /\ TellsVolt(t)
  BY <1>5, <1>6 DEF TellsFreq, TellsVolt
<1> QED BY <1>3, <1>6, <1>7 DEF Sends

\* A resume of the operator finds nothing under way and sends a clock behind it.
LEMMA ResumeSends ==
    ASSUME PowerTypes, ManualResume
    PROVE  \E t : /\ t \in Seq(Messages) /\ Len(t) <= 3 /\ ipc' = t
                  /\ NoneOf(t, "pause") /\ NoneOf(t, "job")
                  /\ Rc = {TRUE} => /\ LastIs(t, SetMode(w'.freq)) /\ ClockAfterResume(t)
                                    /\ w'.volt # None => LastIs(t, SetVolt(w'.volt))
<1> DEFINE volt == w.volt # None
<1>1. PICK okResume \in Rc, okFreq \in Rc, okVolt \in Rc :
        ipc' = ipc \o Post(okResume, ResumeMsg) \o Post(okFreq, SetMode(ReappliedFreq))
                   \o (IF volt THEN Post(okVolt, SetVolt(w.volt)) ELSE <<>>)
  BY Zenon DEF ManualResume
<1>2. ipc = <<>> /\ ipc \in Seq(Messages) /\ w \in WorkerStates
  BY DEF PowerTypes, ManualResume, Settled
<1>3. w'.freq = w.freq /\ w'.volt = w.volt /\ w.freq \in Freqs
  BY <1>2 DEF ManualResume, WorkerStates
<1>4. volt \in BOOLEAN /\ (volt => w.volt \in Int)
  BY <1>2 DEF WorkerStates
<1> DEFINE a == Post(okResume, ResumeMsg)
           b == IF TRUE THEN Post(okFreq, SetMode(w.freq)) ELSE <<>>
           c == IF volt THEN Post(okVolt, SetVolt(w.volt)) ELSE <<>>
<1>5. ipc' = Then(Then(Then(ipc, a), b), c)
  BY <1>1, Zenon DEF Then, ReappliedFreq
<1>6. /\ a \in Seq(Messages) /\ Len(a) \in Nat /\ Len(a) <= 1
      /\ NoneOf(a, "pause") /\ NoneOf(a, "job")
  <2>1. ResumeMsg \in Messages /\ ResumeMsg.type = "resume"
    BY MessageTypes, Kinds
  <2>2. a \in Seq(Messages)
    BY <2>1, PostType
  <2>3. Len(a) \in Nat /\ Len(a) <= 1 /\ \A k : k # ResumeMsg.type => NoneOf(a, k)
    BY <2>1, PostKinds, Zenon
  <2> QED BY <2>1, <2>2, <2>3
<1>7. /\ b \in Seq(Messages) /\ Len(b) \in Nat /\ Len(b) <= 1
      /\ PowerOnly(b) /\ NoneOf(b, "volt")
      /\ okFreq = TRUE => LastIs(b, SetMode(w.freq))
  BY <1>3, ClockBatch
<1>8. /\ c \in Seq(Messages) /\ Len(c) \in Nat /\ Len(c) <= 1
      /\ PowerOnly(c) /\ NoneOf(c, "mode")
      /\ volt /\ okVolt = TRUE => LastIs(c, SetVolt(w.volt))
  <2> HIDE DEF volt
  <2> QED BY <1>4, VoltBatch, Zenon
<1>9. ASSUME Rc = {TRUE} PROVE a = <<ResumeMsg>> /\ b = <<SetMode(w.freq)>>
  <2>1. okResume = TRUE /\ okFreq = TRUE
    BY <1>9
  <2> QED BY <2>1, Zenon DEF Post
<1> HIDE DEF a, b, c
<1> DEFINE u == Then(Then(a, b), c)
<1>16. ipc \in Seq(Messages)
  BY <1>2
<1>10. u \in Seq(Messages) /\ Then(Then(Then(ipc, a), b), c) = Then(ipc, u)
  BY <1>16, <1>6, <1>7, <1>8, Then3Facts
<1>11. Len(u) <= 3
  <2>1. Len(u) = Len(a) + Len(b) + Len(c)
    BY <1>6, <1>7, <1>8, Then3Facts
  <2> HIDE DEF u
  <2> QED BY <1>6, <1>7, <1>8, <2>1
<1>12. /\ \A k : NoneOf(u, k) <=> NoneOf(a, k) /\ NoneOf(b, k) /\ NoneOf(c, k)
       /\ \A x : LastIs(c, x) => LastIs(u, x)
       /\ \A x : LastIs(b, x) /\ NoneOf(c, x.type) => LastIs(u, x)
  BY <1>6, <1>7, <1>8, Then3Facts, Zenon
<1>13. ipc' = u
  <2>1. Then(ipc, u) = u
    BY <1>2, <1>10, ConcatEmptySeq DEF Then
  <2> QED BY <1>5, <1>10, <2>1
<1>14. NoneOf(u, "pause") /\ NoneOf(u, "job")
  BY <1>6, <1>7, <1>8, <1>12, Zenon DEF PowerOnly
<1>15. ASSUME Rc = {TRUE}
       PROVE  /\ LastIs(u, SetMode(w'.freq)) /\ ClockAfterResume(u)
              /\ w'.volt # None => LastIs(u, SetVolt(w'.volt))
  <2>1. okFreq = TRUE /\ okVolt = TRUE
    BY <1>15
  <2>2. LastIs(u, SetMode(w.freq))
    <3>1. LastIs(b, SetMode(w.freq)) /\ NoneOf(c, SetMode(w.freq).type)
      BY <1>7, <1>8, <2>1, Kinds
    <3> QED BY <1>12, <3>1, Zenon
  <2>3. w.volt # None => LastIs(u, SetVolt(w.volt))
    BY <1>8, <1>12, <2>1, Zenon
  <2>4. ClockAfterResume(u)
    <3>1. a = <<ResumeMsg>> /\ b = <<SetMode(w.freq)>>
      BY <1>9, <1>15
    <3>2. Len(a) = 1 /\ Len(b) = 1 /\ 1 \in DOMAIN b /\ b[1] = SetMode(w.freq)
      BY <3>1
    <3>3. b[1].type = "mode"
      BY <3>2, Kinds
    <3> DEFINE s == Then(a, b)
    <3>4. DOMAIN s = 1..2 /\ s[2] = b[1]
      <4>1. DOMAIN s = 1..(Len(a) + Len(b)) /\ s[Len(a) + 1] = b[1]
        BY <1>6, <1>7, <3>2, Indices DEF Then
      <4> QED BY <3>2, <4>1
    <3>5. s \in Seq(Messages) /\ ClockAfterResume(s)
      <4>1. s \in Seq(Messages)
        BY <1>6, <1>7, ThenFacts
      <4> HIDE DEF s
      <4>2. ClockAfterResume(s)
        BY <3>3, <3>4 DEF ClockAfterResume
      <4> QED BY <4>1, <4>2
    <3>6. NoneOf(c, "resume") /\ c \in Seq(Messages)
      BY <1>8 DEF PowerOnly
    <3> QED BY <3>5, <3>6, AppendClock, Zenon DEF Then
  <2> HIDE DEF u
  <2> QED BY <1>3, <2>2, <2>3, <2>4
<1> HIDE DEF u
<1> QED BY <1>10, <1>11, <1>13, <1>14, <1>15

\* A pause of the operator or of the scheduler.
LEMMA PauseSends ==
    ASSUME PowerTypes, ManualPause \/ GoIdle
    PROVE  \E t : Sends(t, 1) /\ NoneOf(t, "job")
<1>1. PICK ok \in Rc : ipc' = ipc \o Post(ok, PauseMsg)
  BY Zenon DEF ManualPause, GoIdle
<1>2. PauseMsg \in Messages /\ PauseMsg.type = "pause"
  BY MessageTypes, Kinds
<1>3. Post(ok, PauseMsg) \in Seq(Messages)
  BY <1>2, PostType
<1>4. Len(Post(ok, PauseMsg)) <= 1 /\ \A k : k # PauseMsg.type => NoneOf(Post(ok, PauseMsg), k)
  BY <1>2, PostKinds, Zenon
<1>5. NoneOf(Post(ok, PauseMsg), "job")
  BY <1>2, <1>4
<1> QED BY <1>1, <1>3, <1>4, <1>5, Zenon DEF Sends, Then

\* A task: a resume first if the scheduler had the chain idle.
LEMMA TaskSends ==
    ASSUME PowerTypes, SendTask
    PROVE  \E t : /\ Sends(t, 2) /\ NoneOf(t, "pause") /\ NoneOf(t, "mode") /\ NoneOf(t, "volt")
                  /\ ~w.idle => NoneOf(t, "resume")
                  /\ \A i \in DOMAIN t : t[i].type = "job" => t[i].id = nextJob
                  /\ \/ /\ jobs' = Remembered(jobs \cup {[id |-> nextJob, task |-> given']})
                        /\ task' = given' /\ unsent' = FALSE /\ LastIs(t, Job(nextJob))
                     \/ UNCHANGED <<jobs, task, unsent>> /\ NoneOf(t, "job")
<1>1. PICK okResume \in Rc, okJob \in Rc :
         /\ ipc' = ipc \o (IF w.idle THEN Post(okResume, ResumeMsg) ELSE <<>>)
                       \o Post(okJob, Job(nextJob))
         /\ IF okJob
            THEN /\ jobs' = Remembered(jobs \cup {[id |-> nextJob, task |-> given']})
                 /\ task' = given'
                 /\ unsent' = FALSE
            ELSE UNCHANGED <<jobs, task, unsent>>
  BY Zenon DEF SendTask
<1>2. ipc \in Seq(Messages) /\ nextJob \in Nat /\ w.idle \in BOOLEAN /\ okJob \in BOOLEAN
  BY Nano3sConstants DEF PowerTypes, WorkerStates
<1> DEFINE a == IF w.idle THEN Post(okResume, ResumeMsg) ELSE <<>>
           b == Post(okJob, Job(nextJob))
           u == Then(a, b)
<1>3. ipc' = Then(Then(ipc, a), b)
  BY <1>1, Zenon DEF Then
<1>4. /\ a \in Seq(Messages) /\ Len(a) \in Nat /\ Len(a) <= 1
      /\ NoneOf(a, "pause") /\ NoneOf(a, "mode") /\ NoneOf(a, "volt") /\ NoneOf(a, "job")
      /\ ~w.idle => NoneOf(a, "resume")
  <2>1. ResumeMsg \in Messages /\ ResumeMsg.type = "resume"
    BY MessageTypes, Kinds
  <2>2. CASE w.idle
    <3>1. a = Post(okResume, ResumeMsg)
      BY <2>2
    <3> HIDE DEF a
    <3>2. a \in Seq(Messages)
      BY <2>1, <3>1, PostType
    <3>3. Len(a) \in Nat /\ Len(a) <= 1 /\ \A k : k # ResumeMsg.type => NoneOf(a, k)
      BY <2>1, <3>1, PostKinds, Zenon
    <3> QED BY <2>1, <2>2, <3>2, <3>3
  <2>3. CASE ~w.idle
    BY <2>3, EmptyKinds, EmptyType
  <2> QED BY <2>2, <2>3
<1>5. /\ b \in Seq(Messages) /\ Len(b) \in Nat /\ Len(b) <= 1
      /\ NoneOf(b, "pause") /\ NoneOf(b, "mode") /\ NoneOf(b, "volt") /\ NoneOf(b, "resume")
      /\ okJob => LastIs(b, Job(nextJob))
      /\ ~okJob => NoneOf(b, "job")
      /\ \A i \in DOMAIN b : b[i].id = nextJob
  <2>1. Job(nextJob) \in Messages /\ Job(nextJob).type = "job"
    BY <1>2, MessageTypes, Kinds
  <2>2. b \in Seq(Messages)
    BY <2>1, PostType
  <2>3. /\ Len(b) \in Nat /\ Len(b) <= 1 /\ \A k : k # Job(nextJob).type => NoneOf(b, k)
        /\ okJob = TRUE => LastIs(b, Job(nextJob))
        /\ \A k : ~okJob => NoneOf(b, k)
    BY <2>1, PostKinds, Zenon
  <2>4. \A i \in DOMAIN b : b[i].id = nextJob
    BY DEF Post, Job
  <2> HIDE DEF b
  <2>5. NoneOf(b, "pause") /\ NoneOf(b, "mode") /\ NoneOf(b, "volt") /\ NoneOf(b, "resume")
    BY <2>1, <2>3
  <2>6. (okJob => LastIs(b, Job(nextJob))) /\ (~okJob => NoneOf(b, "job"))
    BY <1>2, <2>3, Zenon
  <2> QED BY <2>2, <2>3, <2>4, <2>5, <2>6, Zenon
<1> HIDE DEF a, b
<1>6. Then(Then(ipc, a), b) = Then(ipc, u)
  BY <1>2, <1>4, <1>5, ThenAssociative
<1>7. u \in Seq(Messages) /\ Len(u) = Len(a) + Len(b)
  BY <1>4, <1>5, ThenFacts
<1>8. /\ \A k : NoneOf(u, k) <=> NoneOf(a, k) /\ NoneOf(b, k)
      /\ \A m : LastIs(b, m) => LastIs(u, m)
  BY <1>4, <1>5, ThenFacts, Zenon
<1>9. ASSUME NEW i \in DOMAIN u, u[i].type = "job" PROVE u[i].id = nextJob
  <2>1. u = a \o b
    BY DEF Then
  <2>2. CASE i \in DOMAIN a
    <3>1. u[i] = a[i]
      BY <1>4, <1>5, <2>1, <2>2, Indices
    <3> QED BY <1>4, <1>9, <2>2, <3>1 DEF NoneOf
  <2>3. CASE i \notin DOMAIN a
    <3>1. i - Len(a) \in DOMAIN b /\ u[i] = b[i - Len(a)]
      BY <1>4, <1>5, <2>1, <2>3, Indices
    <3> QED BY <1>5, <3>1
  <2> QED BY <2>2, <2>3
<1> HIDE DEF u
<1>10. Len(u) <= 2
  BY <1>4, <1>5, <1>7
<1>11. Sends(u, 2)
  BY <1>3, <1>6, <1>7, <1>10, Zenon DEF Sends
<1>12. /\ NoneOf(u, "pause") /\ NoneOf(u, "mode") /\ NoneOf(u, "volt")
       /\ ~w.idle => NoneOf(u, "resume")
  BY <1>4, <1>5, <1>8, Zenon
<1>13. CASE okJob
  <2>1. LastIs(u, Job(nextJob))
    BY <1>5, <1>8, <1>13, Zenon
  <2> QED BY <1>1, <1>9, <1>11, <1>12, <1>13, <2>1, Zenon
<1>14. CASE ~okJob
  <2>1. NoneOf(u, "job")
    BY <1>4, <1>5, <1>8, <1>14, Zenon
  <2>2. UNCHANGED <<jobs, task, unsent>>
    BY <1>1, <1>14
  <2> QED BY <1>9, <1>11, <1>12, <2>1, <2>2, Zenon
<1> QED BY <1>13, <1>14

-----------------------------------------------------------------------------
(* Types and bounds.                                                       *)

\* The part of TypeOK that PowerTypes and the history leave.
Bounds ==
    /\ pc \in {"start", "read", "clear", "apply", "switch", "drain", "nonces", "status"}
    /\ task \in (1..MaxTasks) \cup {None}
    /\ given \in 0..MaxTasks
    /\ Len(ipc) <= IpcCap
    /\ dcdc \in Int
    /\ nonces \in Seq(Nat) /\ Len(nonces) <= NonceCap
    /\ restarts \in 0..MaxRestarts /\ writes \in 0..MaxWrites /\ checks \in 0..MaxChecks
    /\ want \in {"run", "pause"} /\ hand \in BOOLEAN
    /\ full \subseteq 1..MaxTasks /\ raw \in Int \cup {None}
    /\ unsent \in BOOLEAN /\ left \in BOOLEAN

LEMMA SendsFit ==
    ASSUME ipc \in Seq(Messages), NEW n \in Nat, Room(n), NEW t, Sends(t, n)
    PROVE  Len(ipc') <= IpcCap
<1>1. t \in Seq(Messages) /\ Len(t) <= n /\ ipc' = Then(ipc, t)
  BY DEF Sends
<1>2. Len(ipc') = Len(ipc) + Len(t)
  BY <1>1, ThenFacts
<1>3. Len(ipc) \in Nat /\ Len(t) \in Nat /\ Len(ipc) + n <= IpcCap /\ IpcCap \in Nat
  BY <1>1, Nano3sConstants DEF Room
<1> DEFINE x == Len(ipc)
           y == Len(t)
<1>4. x \in Nat /\ y \in Nat /\ x + n <= IpcCap /\ IpcCap \in Nat /\ y <= n
  BY <1>1, <1>3
<1> HIDE DEF x, y
<1>5. x + y <= IpcCap
  BY <1>4
<1> QED BY <1>2, <1>5 DEF x, y

LEMMA Rebooting ==
    ASSUME Reboot
    PROVE  /\ Restart /\ ctl' = None /\ want' = "run" /\ rtos' = FreshRtos(FALSE) /\ dcdc' = 3496
           /\ left' = FALSE
BY DEF Reboot

LEMMA Relaunching ==
    ASSUME Relaunch, rtos \in RtosStates
    PROVE  /\ Restart /\ ctl' = ctl /\ want' = want /\ rtos' = FreshRtos(rtos.persist)
           /\ dcdc' = dcdc \/ dcdc' = 3496
           /\ left' \in BOOLEAN
<1>1. /\ Restart /\ rtos' = FreshRtos(rtos.persist)
      /\ dcdc' = IF rtos.persist THEN dcdc ELSE 3496
      /\ ctl' = ctl /\ want' = want /\ left' = rtos.persist
  BY Zenon DEF Relaunch
<1>2. rtos.persist \in BOOLEAN
  BY DEF RtosStates
<1>3. dcdc' = dcdc \/ dcdc' = 3496
  BY <1>1, <1>2
<1> QED BY <1>1, <1>2, <1>3

\* The messages under way stay within the bound of the model.
LEMMA IpcFits ==
    ASSUME PowerTypes, Len(ipc) <= IpcCap, [Next]_vars PROVE Len(ipc') <= IpcCap
<1>1. ipc \in Seq(Messages)
  BY DEF PowerTypes
<1>2. CASE Start
  BY <1>1, <1>2, StartSends, SendsFit DEF Start
<1>3. CASE SwitchMode
  BY <1>1, <1>3, SwitchSends, SendsFit DEF SwitchMode
<1>4. CASE ApplyTune
  BY <1>1, <1>4, TuneSends, SendsFit DEF ApplyTune
<1>5. CASE RefreshStatus
  BY <1>1, <1>5, StatusSends, SendsFit DEF RefreshStatus
<1>6. CASE ManualPause \/ GoIdle
  BY <1>1, <1>6, PauseSends, SendsFit DEF ManualPause, GoIdle
<1>7. CASE SendTask
  <2>1. Room(2)
    BY <1>7 DEF SendTask
  <2>2. \E t : Sends(t, 2)
    BY <1>7, TaskSends
  <2> QED BY <1>1, <2>1, <2>2, SendsFit
<1>8. CASE ManualResume
  <2>1. PICK t : t \in Seq(Messages) /\ Len(t) <= 3 /\ ipc' = t
    BY <1>8, ResumeSends
  <2>2. IpcCap >= 3 /\ IpcCap \in Nat /\ Len(t) \in Nat
    BY <2>1, Nano3sConstants
  <2> QED BY <2>1, <2>2
<1>9. CASE Deliver
  <2>1. ipc # <<>> /\ ipc' = Tail(ipc)
    BY <1>9 DEF Deliver
  <2>2. Len(Tail(ipc)) = Len(ipc) - 1 /\ Len(ipc) \in Nat
    BY <1>1, <2>1
  <2>3. IpcCap \in Nat
    BY Nano3sConstants
  <2> QED BY <2>1, <2>2, <2>3
<1>10. CASE Restart
  <2>1. ipc' = <<>> /\ IpcCap \in Nat
    BY <1>10, Nano3sConstants DEF Restart
  <2> QED BY <2>1
<1>11. ASSUME UNCHANGED ipc PROVE Len(ipc') <= IpcCap
  BY <1>11
<1>12. CASE WriteControl \/ ReadControl \/ ClearControl \/ IgnorePause \/ SaveMode
            \/ ApplyTarget \/ KeepTask \/ EndDrain \/ EndNonces \/ ShareTaken
  BY <1>11, <1>12 DEF WriteControl, ReadControl, ClearControl, IgnorePause, SaveMode,
     ApplyTarget, KeepTask, EndDrain, EndNonces, ShareTaken, rtosVars
<1>13. CASE PollNonce \/ NoStatus \/ CheckDue \/ Rtos \/ RtosStatus \/ RtosNonce
            \/ UNCHANGED vars
  BY <1>11, <1>13 DEF PollNonce, NoStatus, CheckDue, Rtos, RtosFlags, RtosApply, RtosStatus,
     RtosNonce, vars, rtosVars
<1>14. Reboot \/ Relaunch => Restart
  <2>1. rtos \in RtosStates
    BY DEF PowerTypes
  <2>2. ASSUME Reboot PROVE Restart
    BY <2>2, Rebooting
  <2>3. ASSUME Relaunch PROVE Restart
    BY <2>1, <2>3, Relaunching
  <2> QED BY <2>2, <2>3
<1> QED
  BY <1>2, <1>3, <1>4, <1>5, <1>6, <1>7, <1>8, <1>9, <1>10, <1>12, <1>13, <1>14 DEF Next, Worker

\* A queue that is full drops its oldest nonce for a new one.
LEMMA QueuedFits ==
    ASSUME NEW q \in Seq(Nat), Len(q) <= NonceCap, NEW n \in Nat
    PROVE  /\ Queued(q, n) \in Seq(Nat) /\ Len(Queued(q, n)) <= NonceCap
           /\ \A i \in DOMAIN Queued(q, n) :
                 Queued(q, n)[i] = n \/ \E k \in DOMAIN q : Queued(q, n)[i] = q[k]
<1>1. NonceCap \in Nat /\ NonceCap > 0
  BY Nano3sConstants
<1>2. CASE Len(q) = NonceCap
  <2>1. q # <<>>
    BY <1>1, <1>2
  <2>2. /\ Tail(q) \in Seq(Nat) /\ Len(Tail(q)) = NonceCap - 1
        /\ \A k \in DOMAIN Tail(q) : k + 1 \in DOMAIN q /\ Tail(q)[k] = q[k + 1]
    BY <1>2, <2>1
  <2>3. Queued(q, n) = Append(Tail(q), n)
    BY <1>2 DEF Queued
  <2>4. PICK r \in Seq(Nat) : r = Tail(q)
    BY <2>2
  <2>5. /\ Append(r, n) \in Seq(Nat) /\ Len(Append(r, n)) = Len(r) + 1
        /\ \A i \in DOMAIN Append(r, n) :
              Append(r, n)[i] = n \/ (i \in DOMAIN r /\ Append(r, n)[i] = r[i])
    OBVIOUS
  <2>6. Len(r) + 1 = NonceCap
    BY <1>1, <2>2, <2>4
  <2> QED BY <1>1, <2>2, <2>3, <2>4, <2>5, <2>6
<1>3. CASE Len(q) # NonceCap
  <2>1. Queued(q, n) = Append(q, n)
    BY <1>3 DEF Queued
  <2>2. /\ Append(q, n) \in Seq(Nat) /\ Len(Append(q, n)) = Len(q) + 1
        /\ \A i \in DOMAIN Append(q, n) :
              Append(q, n)[i] = n \/ (i \in DOMAIN q /\ Append(q, n)[i] = q[i])
    OBVIOUS
  <2>3. Len(q) \in Nat /\ Len(q) + 1 <= NonceCap
    BY <1>1, <1>3
  <2> QED BY <2>1, <2>2, <2>3
<1> QED BY <1>2, <1>3

LEMMA QuantisedType == ASSUME NEW mv \in Int PROVE Quantised(mv) \in Int
<1> DEFINE magnitude == (IF mv >= 3600 THEN mv - 3600 ELSE 3600 - mv) \div 26
           steps     == IF magnitude > 127 THEN 127 ELSE magnitude
<1>1. magnitude \in Int
  OBVIOUS
<1>2. steps \in Int
  BY <1>1
<1> HIDE DEF steps, magnitude
<1>3. (IF mv >= 3600 THEN 3600 + 26 * steps ELSE 3600 - 26 * steps) \in Int
  BY <1>2
<1> QED BY <1>3 DEF Quantised, steps, magnitude

LEMMA BoundsStep ==
    ASSUME PowerTypes, Bounds, HistoryBefore(jobs, nextJob), [Next]_vars PROVE Bounds'
<1> USE DEF Bounds
<1>1. Len(ipc') <= IpcCap
  BY IpcFits
<1>2. {MaxRestarts, MaxWrites, MaxChecks, MaxTasks} \subseteq Nat
  BY Nano3sConstants
<1>3. CASE WriteControl \/ CheckDue
  <2>1. CASE WriteControl
    <3>1. writes' \in 0..MaxWrites
      BY <1>2, <2>1 DEF WriteControl
    <3> QED BY <1>1, <2>1, <3>1, Zenon DEF WriteControl, jobVars, rtosVars, histVars
  <2>2. CASE CheckDue
    <3>1. checks' \in 0..MaxChecks
      BY <1>2, <2>2 DEF CheckDue
    <3> QED BY <1>1, <2>2, <3>1, Zenon DEF CheckDue, jobVars, rtosVars, histVars
  <2> QED BY <1>3, <2>1, <2>2
<1>4. CASE Start \/ SwitchMode \/ RefreshStatus
  BY <1>1, <1>4 DEF Start, SwitchMode, RefreshStatus, Handled, jobVars, counters, histVars
<1>5. CASE ReadControl \/ ClearControl \/ IgnorePause \/ SaveMode \/ ApplyTarget \/ EndDrain
           \/ EndNonces \/ ShareTaken \/ NoStatus
  BY <1>1, <1>5 DEF ReadControl, ClearControl, IgnorePause, SaveMode, ApplyTarget, EndDrain,
     EndNonces, ShareTaken, NoStatus, Handled, jobVars, rtosVars, counters, histVars
<1>6. CASE ManualPause \/ ManualResume
  BY <1>1, <1>6 DEF ManualPause, ManualResume, Handled, jobVars, counters
<1>7. CASE ApplyTune
  <2>1. hand' \in BOOLEAN
    BY <1>7 DEF ApplyTune
  <2>2. raw' \in Int \cup {None}
    <3>1. cmd.volt \in Int \cup {None}
      BY <1>7, CommandTypes DEF PowerTypes, ApplyTune
    <3>2. raw' = raw \/ raw' = cmd.volt
      BY <1>7 DEF ApplyTune
    <3> QED BY <3>1, <3>2
  <2> QED BY <1>1, <1>7, <2>1, <2>2 DEF ApplyTune, Handled, jobVars, counters
<1>8. CASE KeepTask
  <2>1. given' = given + 1 /\ given < MaxTasks /\ task' = given'
    BY <1>8 DEF KeepTask
  <2>2. given' \in 1..MaxTasks
    BY <1>2, <2>1
  <2> QED BY <1>1, <1>8, <2>1, <2>2 DEF KeepTask, rtosVars, counters, histVars
<1>9. CASE SendTask
  <2>1. given' = given + 1 /\ given < MaxTasks /\ (task' = given' \/ task' = task)
    BY <1>9 DEF SendTask
  <2>2. given' \in 1..MaxTasks
    BY <1>2, <2>1
  <2>3. unsent' \in BOOLEAN
    BY <1>9 DEF SendTask
  <2> QED BY <1>1, <1>9, <2>1, <2>2, <2>3 DEF SendTask, counters
<1>10. CASE GoIdle
  BY <1>1, <1>10 DEF GoIdle, counters, histVars
<1>11. CASE PollNonce
  <2>1. nonces # <<>> /\ nonces' = Tail(nonces)
    BY <1>11 DEF PollNonce
  <2>2. nonces' \in Seq(Nat) /\ Len(nonces') <= NonceCap
    <3>1. Tail(nonces) \in Seq(Nat) /\ Len(Tail(nonces)) = Len(nonces) - 1 /\ Len(nonces) \in Nat
      BY <2>1
    <3>2. NonceCap \in Nat
      BY Nano3sConstants
    <3> QED BY <2>1, <3>1, <3>2
  <2>3. full' \subseteq 1..MaxTasks
    <3>1. \A id : TaskOf(id) \subseteq 1..MaxTasks
      BY DEF TaskOf, HistoryBefore
    <3>2. full' \in {full, full \cup TaskOf(Head(nonces))}
      BY <1>11 DEF PollNonce
    <3> QED BY <3>1, <3>2
  <2> QED BY <1>1, <1>11, <2>2, <2>3 DEF PollNonce, counters, histVars
<1>12. CASE Deliver \/ RtosFlags \/ RtosStatus
  BY <1>1, <1>12 DEF Deliver, RtosFlags, RtosStatus, jobVars, counters, histVars
<1>13. CASE RtosApply
  <2>1. dcdc' \in Int
    <3>1. rtos.pendVolt \in Int \cup {None}
      BY DEF PowerTypes, RtosStates
    <3>2. dcdc' = dcdc \/ (rtos.pendVolt # None /\ dcdc' = Quantised(rtos.pendVolt))
      BY <1>13 DEF RtosApply
    <3> QED BY <3>1, <3>2, QuantisedType
  <2> QED BY <1>1, <1>13, <2>1 DEF RtosApply, jobVars, counters, histVars
<1>14. CASE RtosNonce
  <2>1. rtos.job \in Nat /\ nonces' = Queued(nonces, rtos.job)
    BY <1>14 DEF RtosNonce, PowerTypes, RtosStates
  <2>2. nonces' \in Seq(Nat) /\ Len(nonces') <= NonceCap
    BY <2>1, QueuedFits
  <2> QED BY <1>1, <1>14, <2>2 DEF RtosNonce, jobVars, counters, histVars
<1>15. CASE Reboot \/ Relaunch
  <2>1. /\ Restart /\ (want' = want \/ want' = "run") /\ (dcdc' = dcdc \/ dcdc' = 3496)
        /\ left' \in BOOLEAN
    <3>1. CASE Reboot
      BY <3>1, Rebooting
    <3>2. CASE Relaunch
      BY <3>2, Relaunching DEF PowerTypes
    <3> QED BY <1>15, <3>1, <3>2
  <2>2. restarts' \in 0..MaxRestarts
    BY <1>2, <2>1 DEF Restart
  <2>3. nonces' = <<>> /\ NonceCap \in Nat
    BY <2>1, Nano3sConstants DEF Restart
  <2>4. nonces' \in Seq(Nat) /\ Len(nonces') <= NonceCap
    BY <2>3
  <2>5. full' \subseteq 1..MaxTasks /\ raw' = None /\ unsent' = FALSE /\ hand' = hand
    BY <2>1 DEF Restart
  <2>6. /\ pc' = "start" /\ task' = None /\ given' = given
        /\ writes' = writes /\ checks' = checks
    BY <2>1 DEF Restart
  <2>7. want' \in {"run", "pause"} /\ dcdc' \in Int /\ left' \in BOOLEAN
    BY <2>1
  <2>8. /\ pc' \in {"start", "read", "clear", "apply", "switch", "drain", "nonces", "status"}
        /\ task' \in (1..MaxTasks) \cup {None} /\ given' \in 0..MaxTasks
        /\ writes' \in 0..MaxWrites /\ checks' \in 0..MaxChecks
    BY <2>6
  <2>9. raw' \in Int \cup {None} /\ unsent' \in BOOLEAN /\ hand' \in BOOLEAN
    BY <2>5
  <2> QED BY <1>1, <2>2, <2>4, <2>5, <2>7, <2>8, <2>9
<1>16. CASE UNCHANGED vars
  BY <1>1, <1>16 DEF vars, jobVars, rtosVars, counters, histVars
<1> QED
  BY <1>3, <1>4, <1>5, <1>6, <1>7, <1>8, <1>9, <1>10, <1>11, <1>12, <1>13, <1>14, <1>15, <1>16
     DEF Next, Worker, Rtos

-----------------------------------------------------------------------------
(* Nonces.                                                                 *)

\* Wherever a job's id is on its way from the worker to the chain and back as
\* a nonce, the history knows it or is full of newer jobs.
HistoryInv ==
    /\ HistoryBefore(jobs, nextJob)
    /\ JobsKnown(ipc, jobs)
    /\ rtos.pendJob # None => KnownIn(jobs, rtos.pendJob)
    /\ rtos.job # None => KnownIn(jobs, rtos.job)
    /\ \A i \in DOMAIN nonces : KnownIn(jobs, nonces[i])

LEMMA HistoryInit == Init => HistoryInv
<1> SUFFICES ASSUME Init PROVE HistoryInv
  OBVIOUS
<1>1. jobs = {} /\ nextJob = 1 /\ ipc = <<>> /\ nonces = <<>>
      /\ rtos.pendJob = None /\ rtos.job = None
  BY DEF Init, FreshRtos
<1>2. IsFiniteSet({}) /\ Cardinality({}) = 0
  BY FS_EmptySet
<1>3. History \in Nat
  BY Nano3sConstants
<1>4. HistoryBefore(jobs, nextJob)
  BY <1>1, <1>2, <1>3 DEF HistoryBefore
<1>5. JobsKnown(ipc, jobs) /\ \A i \in DOMAIN nonces : KnownIn(jobs, nonces[i])
  BY <1>1 DEF JobsKnown
<1> QED BY <1>1, <1>4, <1>5 DEF HistoryInv

\* A batch without jobs changes nothing.
LEMMA SendsKnown ==
    ASSUME ipc \in Seq(Messages), JobsKnown(ipc, jobs), NEW n, NEW t, Sends(t, n), NoneOf(t, "job")
    PROVE  JobsKnown(ipc', jobs)
<1>1. t \in Seq(Messages) /\ ipc' = ipc \o t
  BY DEF Sends, Then
<1>2. JobsKnown(t, jobs)
  BY DEF JobsKnown, NoneOf
<1>3. JobsKnown(ipc \o t, jobs)
  BY <1>1, <1>2, AppendKnown
<1> QED BY <1>1, <1>3

LEMMA HistoryStep ==
    ASSUME PowerTypes, Bounds, HistoryInv, [Next]_vars PROVE HistoryInv'
<1>1. ipc \in Seq(Messages) /\ rtos \in RtosStates /\ nextJob \in Nat /\ JobsKnown(ipc, jobs)
  BY DEF PowerTypes, HistoryInv
<1>2. ASSUME UNCHANGED <<jobs, nextJob, rtos, nonces>>, JobsKnown(ipc', jobs)
      PROVE  HistoryInv'
  BY <1>2 DEF HistoryInv
<1>3. ASSUME UNCHANGED <<jobs, nextJob, rtos, nonces, ipc>> PROVE HistoryInv'
  BY <1>1, <1>2, <1>3
<1>4. CASE WriteControl \/ ReadControl \/ ClearControl \/ IgnorePause \/ SaveMode
           \/ ApplyTarget \/ KeepTask \/ EndDrain \/ EndNonces \/ ShareTaken
  BY <1>3, <1>4 DEF WriteControl, ReadControl, ClearControl, IgnorePause, SaveMode,
     ApplyTarget, KeepTask, EndDrain, EndNonces, ShareTaken, jobVars, rtosVars
<1>5. CASE NoStatus \/ CheckDue \/ RtosStatus \/ UNCHANGED vars
  BY <1>3, <1>5 DEF NoStatus, CheckDue, RtosStatus, vars, jobVars, rtosVars
<1>6. CASE Start
  <2>1. JobsKnown(ipc', jobs)
    BY <1>1, <1>6, StartSends, SendsKnown DEF PowerOnly
  <2> QED BY <1>2, <1>6, <2>1 DEF Start, jobVars
<1>7. CASE SwitchMode
  <2>1. JobsKnown(ipc', jobs)
    BY <1>1, <1>7, SwitchSends, SendsKnown DEF PowerOnly
  <2> QED BY <1>2, <1>7, <2>1 DEF SwitchMode, jobVars
<1>8. CASE ApplyTune
  <2>1. JobsKnown(ipc', jobs)
    BY <1>1, <1>8, TuneSends, SendsKnown DEF PowerOnly
  <2> QED BY <1>2, <1>8, <2>1 DEF ApplyTune, jobVars
<1>9. CASE RefreshStatus
  <2>1. JobsKnown(ipc', jobs)
    BY <1>1, <1>9, StatusSends, SendsKnown DEF PowerOnly
  <2> QED BY <1>2, <1>9, <2>1 DEF RefreshStatus, jobVars
<1>10. CASE ManualPause \/ GoIdle
  <2>1. JobsKnown(ipc', jobs)
    BY <1>1, <1>10, PauseSends, SendsKnown
  <2> QED BY <1>2, <1>10, <2>1 DEF ManualPause, GoIdle, jobVars
<1>11. CASE ManualResume
  <2>1. PICK t : ipc' = t /\ NoneOf(t, "job")
    BY <1>11, ResumeSends
  <2>2. JobsKnown(ipc', jobs)
    BY <2>1 DEF NoneOf, JobsKnown
  <2> QED BY <1>2, <1>11, <2>2 DEF ManualResume, jobVars
<1>12. CASE SendTask
  <2>1. PICK t : /\ Sends(t, 2)
                 /\ \A i \in DOMAIN t : t[i].type = "job" => t[i].id = nextJob
                 /\ \/ /\ jobs' = Remembered(jobs \cup {[id |-> nextJob, task |-> given']})
                       /\ LastIs(t, Job(nextJob))
                    \/ jobs' = jobs /\ NoneOf(t, "job")
    BY <1>12, TaskSends
  <2>2. /\ nextJob' = nextJob + 1 /\ rtos' = rtos /\ nonces' = nonces
        /\ given' \in 1..MaxTasks
    <3>1. given' = given + 1 /\ given < MaxTasks /\ given \in Nat /\ MaxTasks \in Nat
      BY <1>12, Nano3sConstants DEF SendTask, Bounds
    <3> QED BY <1>12, <3>1 DEF SendTask
  <2>3. t \in Seq(Messages) /\ ipc' = ipc \o t
    BY <2>1 DEF Sends, Then
  <2>4. CASE jobs' = jobs /\ NoneOf(t, "job")
    <3>1. JobsKnown(ipc', jobs)
      BY <1>1, <2>1, <2>4, SendsKnown
    <3>2. HistoryBefore(jobs, nextJob + 1)
      <4>1. jobs \subseteq [id : Nat, task : 1..MaxTasks] /\ \A j \in jobs : j.id < nextJob
        BY DEF HistoryInv, HistoryBefore
      <4>2. \A j \in jobs : j.id < nextJob + 1
        BY <1>1, <4>1
      <4> QED BY <4>2 DEF HistoryInv, HistoryBefore
    <3> QED BY <2>2, <2>4, <3>1, <3>2 DEF HistoryInv
  <2>5. CASE jobs' = Remembered(jobs \cup {[id |-> nextJob, task |-> given']})
    <3>1. PICK g \in 1..MaxTasks, n \in Nat, js \in {jobs} : g = given' /\ n = nextJob /\ js = jobs
      BY <1>1, <2>2
    <3>2. HistoryBefore(js, n)
      BY <3>1 DEF HistoryInv
    <3> DEFINE kept == Remembered(js \cup {[id |-> n, task |-> g]})
    <3>3. /\ HistoryBefore(kept, n + 1) /\ [id |-> n, task |-> g] \in kept
          /\ \A x \in Nat : KnownIn(js, x) => KnownIn(kept, x)
      BY <3>2, HistoryKept, Zenon
    <3>4. jobs' = kept
      BY <2>5, <3>1
    <3> HIDE DEF kept
    <3>5. KnownIn(kept, n)
      BY <3>3 DEF KnownIn
    <3>6. JobsKnown(ipc', kept)
      <4>1. JobsKnown(ipc, kept)
        <5>1. \A i \in DOMAIN ipc : ipc[i].type = "job" => ipc[i].id \in Nat
          BY <1>1 DEF Messages, PauseMsg, ResumeMsg, SetMode
        <5> QED BY <1>1, <3>1, <3>3, <5>1 DEF JobsKnown
      <4>2. JobsKnown(t, kept)
        BY <2>1, <3>1, <3>5 DEF JobsKnown
      <4>3. JobsKnown(ipc \o t, kept)
        BY <1>1, <2>3, <4>1, <4>2, AppendKnown
      <4> QED BY <2>3, <4>3
    <3>7. rtos.pendJob # None => KnownIn(kept, rtos.pendJob)
      BY <1>1, <3>1, <3>3 DEF HistoryInv, RtosStates
    <3>8. rtos.job # None => KnownIn(kept, rtos.job)
      BY <1>1, <3>1, <3>3 DEF HistoryInv, RtosStates
    <3>9. \A i \in DOMAIN nonces : KnownIn(kept, nonces[i])
      <4>1. \A i \in DOMAIN nonces : nonces[i] \in Nat
        BY DEF Bounds
      <4> QED BY <3>1, <3>3, <4>1 DEF HistoryInv
    <3> QED BY <2>2, <3>1, <3>3, <3>4, <3>6, <3>7, <3>8, <3>9 DEF HistoryInv
  <2> QED BY <2>1, <2>4, <2>5
<1>13. CASE PollNonce
  <2>1. nonces # <<>> /\ nonces' = Tail(nonces) /\ UNCHANGED <<jobs, nextJob, rtos, ipc>>
    BY <1>13 DEF PollNonce
  <2>2. \A i \in DOMAIN Tail(nonces) : i + 1 \in DOMAIN nonces /\ Tail(nonces)[i] = nonces[i + 1]
    BY <2>1 DEF Bounds
  <2>3. \A i \in DOMAIN nonces' : KnownIn(jobs, nonces'[i])
    BY <2>1, <2>2 DEF HistoryInv
  <2> QED BY <2>1, <2>3 DEF HistoryInv
<1>14. CASE Deliver
  <2>1. /\ ipc # <<>> /\ ipc' = Tail(ipc) /\ UNCHANGED <<jobs, nextJob, nonces>>
    BY <1>14 DEF Deliver, jobVars
  <2>2. JobsKnown(ipc', jobs) /\ (Head(ipc).type = "job" => KnownIn(jobs, Head(ipc).id))
    BY <1>1, <2>1, TailKnown
  <2>3. /\ rtos'.job = rtos.job
        /\ rtos'.pendJob = rtos.pendJob \/ (Head(ipc).type = "job" /\ rtos'.pendJob = Head(ipc).id)
    <3>1. Head(ipc) \in Messages
      BY <1>1, <2>1
    <3>2. Head(ipc).type \in {"job", "mode", "volt", "pause", "resume"}
      BY <3>1 DEF Messages, PauseMsg, ResumeMsg, SetMode
    <3> QED BY <1>1, <1>14, <3>2 DEF Deliver, RtosStates
  <2> QED BY <2>1, <2>2, <2>3 DEF HistoryInv
<1>15. CASE RtosFlags
  <2>1. rtos'.pendJob = rtos.pendJob /\ (rtos'.job = rtos.job \/ rtos'.job = None)
    BY <1>1, <1>15 DEF RtosFlags, RtosStates
  <2> QED BY <1>15, <2>1 DEF RtosFlags, jobVars, HistoryInv
<1>16. CASE RtosApply
  <2>1. rtos'.pendJob = None /\ rtos'.job = IF rtos.pendJob = None THEN rtos.job ELSE rtos.pendJob
    BY <1>1, <1>16 DEF RtosApply, RtosStates
  <2> QED BY <1>16, <2>1 DEF RtosApply, jobVars, HistoryInv
<1>17. CASE RtosNonce
  <2>1. rtos.job # None /\ rtos.job \in Nat /\ nonces' = Queued(nonces, rtos.job)
    BY <1>1, <1>17 DEF RtosNonce, RtosStates
  <2>2. nonces \in Seq(Nat) /\ Len(nonces) <= NonceCap
    BY DEF Bounds
  <2>3. \A i \in DOMAIN nonces' : nonces'[i] = rtos.job \/ \E k \in DOMAIN nonces : nonces'[i] = nonces[k]
    BY <2>1, <2>2, QueuedFits
  <2> QED BY <1>17, <2>1, <2>3 DEF RtosNonce, jobVars, HistoryInv
<1>18. CASE Reboot \/ Relaunch
  <2>1. PICK b \in BOOLEAN : Restart /\ rtos' = FreshRtos(b)
    <3>1. CASE Reboot
      <4>1. Restart /\ rtos' = FreshRtos(FALSE) /\ FALSE \in BOOLEAN
        BY <3>1, Rebooting
      <4> QED BY <4>1, Zenon
    <3>2. CASE Relaunch
      <4>1. Restart /\ rtos' = FreshRtos(rtos.persist)
        BY <1>1, <3>2, Relaunching
      <4>2. rtos.persist \in BOOLEAN
        BY <1>1 DEF RtosStates
      <4> QED BY <4>1, <4>2
    <3> QED BY <1>18, <3>1, <3>2
  <2>2. jobs' = {} /\ nextJob' = 1 /\ ipc' = <<>> /\ nonces' = <<>>
    BY <2>1 DEF Restart
  <2>3. rtos'.pendJob = None /\ rtos'.job = None
    BY <2>1 DEF FreshRtos
  <2>4. IsFiniteSet({}) /\ Cardinality({}) = 0 /\ History \in Nat
    BY FS_EmptySet, Nano3sConstants
  <2>5. HistoryBefore({}, 1) /\ JobsKnown(<<>>, {})
    BY <2>4 DEF HistoryBefore, JobsKnown
  <2> QED BY <2>2, <2>3, <2>5 DEF HistoryInv
<1> QED
  BY <1>4, <1>5, <1>6, <1>7, <1>8, <1>9, <1>10, <1>11, <1>12, <1>13, <1>14, <1>15, <1>16,
     <1>17, <1>18 DEF Next, Worker, Rtos

LEMMA BoundsInit == Init => Bounds
<1> SUFFICES ASSUME Init PROVE Bounds
  OBVIOUS
<1>1. {MaxRestarts, MaxWrites, MaxChecks, MaxTasks, IpcCap, NonceCap} \subseteq Nat
  BY Nano3sConstants
<1>2. ipc = <<>> /\ nonces = <<>>
  BY DEF Init
<1>3. Len(ipc) <= IpcCap /\ nonces \in Seq(Nat) /\ Len(nonces) <= NonceCap
  BY <1>1, <1>2
<1>4. given = 0 /\ restarts = 0 /\ writes = 0 /\ checks = 0 /\ dcdc = 3496
  BY DEF Init
<1>5. pc = "start" /\ task = None /\ want = "run" /\ hand \in BOOLEAN
  BY DEF Init
<1>6. /\ given \in 0..MaxTasks /\ restarts \in 0..MaxRestarts /\ writes \in 0..MaxWrites
      /\ checks \in 0..MaxChecks /\ dcdc \in Int
  BY <1>1, <1>4
<1>7. full = {} /\ raw = None /\ unsent = FALSE /\ left = FALSE
  BY DEF Init
<1> QED BY <1>3, <1>5, <1>6, <1>7 DEF Bounds

LEMMA HistoryInvariant == Spec => [](PowerTypes /\ Bounds /\ HistoryInv)
<1>1. PowerTypes /\ Bounds /\ HistoryInv /\ [Next]_vars => Bounds' /\ HistoryInv'
  BY BoundsStep, HistoryStep DEF HistoryInv
<1>2. Init => Bounds /\ HistoryInv
  BY BoundsInit, HistoryInit
<1> QED BY <1>1, <1>2, PowerTypesHold, PTL DEF Spec

\* A nonce that leaves the queue is of a job in the history, unless the history
\* is full of newer jobs: however long the RTOS takes to pick up a job, however
\* many nonces of old jobs it has under way, through failed sends, idling,
\* pauses and restarts.  With it the types of all variables and the bounds of
\* history, nonce queue and messages.
THEOREM NoncesOfKnownJobs == Spec => []NoncesKnown
<1>1. PowerTypes /\ Bounds /\ HistoryInv => NoncesKnown
  <2> SUFFICES ASSUME PowerTypes, Bounds, HistoryInv PROVE NoncesKnown
    OBVIOUS
  <2>1. TypeOK
    BY DEF PowerTypes, Bounds, HistoryInv, HistoryBefore, TypeOK, WorkerStates, RtosStates
  <2>2. NoncesAttributed
    BY DEF HistoryInv, KnownIn, NoncesAttributed
  <2> QED BY <2>1, <2>2 DEF NoncesKnown
<1> QED BY <1>1, HistoryInvariant, PTL

-----------------------------------------------------------------------------
(* The chain follows the worker's clock and voltage.                       *)

\* The clock and the voltage the chain ends up with when all that is under way
\* and pending has been applied, bring-ups apart.
FreqComing(f) ==
    \/ LastIs(ipc, SetMode(f))
    \/ NoneOf(ipc, "mode") /\ rtos.pendFreq = f
    \/ NoneOf(ipc, "mode") /\ rtos.pendFreq = None /\ rtos.freq = f

VoltComing(mv) ==
    \/ LastIs(ipc, SetVolt(mv))
    \/ NoneOf(ipc, "volt") /\ rtos.pendVolt = mv
    \/ NoneOf(ipc, "volt") /\ rtos.pendVolt = None /\ rtos.volt = mv /\ dcdc = Quantised(mv)

\* No bring-up will go by without a clock behind it.
ClockSafe ==
    /\ NoneOf(ipc, "pause") /\ ~rtos.pauseReq
    /\ ClockAfterResume(ipc)
    /\ rtos.resumeReq /\ rtos.paused => rtos.pendFreq # None \/ ~NoneOf(ipc, "mode")

\* What a worker that has not paused the chain can rely on.
Following ==
    /\ ClockSafe
    /\ FreqComing(w.freq)
    /\ w.volt # None => VoltComing(w.volt)

FollowInv ==
    /\ pc = "start" => ipc = <<>> /\ ~rtos.pauseReq /\ ~rtos.resumeReq /\ ~w.manual
    /\ rtos.at = "pending" => ~rtos.paused
    /\ w.idle => w.manual
    /\ pc # "start" /\ ~w.manual => Following

\* The scheduler does not idle the chain and sends succeed.  Without these the
\* code makes no such promise: a resume from idle sets no clock, and a failed
\* send is not repeated.
Undisturbed == Idling = FALSE /\ Rc = {TRUE}

\* A batch that tells what the worker latches keeps the promise.
LEMMA SendsFollow ==
    ASSUME ipc \in Seq(Messages), Following, NEW n, NEW t, Sends(t, n),
           NoneOf(t, "pause"), NoneOf(t, "resume"), TellsFreq(t), TellsVolt(t),
           rtos' = rtos, dcdc' = dcdc
    PROVE  Following'
<1>1. t \in Seq(Messages) /\ ipc' = Then(ipc, t)
  BY DEF Sends
<1>2. /\ \A k : NoneOf(ipc', k) <=> NoneOf(ipc, k) /\ NoneOf(t, k)
      /\ \A m : LastIs(t, m) => LastIs(ipc', m)
      /\ \A m : LastIs(ipc, m) /\ NoneOf(t, m.type) => LastIs(ipc', m)
  <2>1. PICK s \in Seq(Messages), u \in Seq(Messages) : s = ipc /\ u = t
    BY <1>1
  <2>2. /\ \A k : NoneOf(Then(s, u), k) <=> NoneOf(s, k) /\ NoneOf(u, k)
        /\ \A m : LastIs(u, m) => LastIs(Then(s, u), m)
        /\ \A m : LastIs(s, m) /\ NoneOf(u, m.type) => LastIs(Then(s, u), m)
    BY ThenFacts, Zenon
  <2> QED BY <1>1, <2>1, <2>2, Zenon
<1>3. ClockSafe'
  <2>1. ClockAfterResume(ipc')
    <3>1. ClockAfterResume(ipc \o t)
      BY <1>1, AppendClock DEF Following, ClockSafe
    <3> QED BY <1>1, <3>1 DEF Then
  <2>2. NoneOf(ipc', "pause")
    BY <1>2, Zenon DEF Following, ClockSafe
  <2>3. ~NoneOf(ipc, "mode") => ~NoneOf(ipc', "mode")
    BY <1>2, Zenon
  <2> QED BY <2>1, <2>2, <2>3 DEF Following, ClockSafe
<1>4. FreqComing(w.freq)'
  <2>1. CASE LastIs(t, SetMode(w'.freq))
    <3>1. LastIs(ipc', SetMode(w'.freq))
      BY <1>2, <2>1, Zenon
    <3> QED BY <3>1 DEF FreqComing, SetMode
  <2>2. CASE NoneOf(t, "mode") /\ w'.freq = w.freq
    <3>1. SetMode(w.freq).type = "mode"
      BY Kinds
    <3>2. LastIs(ipc, SetMode(w.freq)) => LastIs(ipc', SetMode(w.freq))
      BY <1>2, <2>2, <3>1
    <3>3. NoneOf(ipc, "mode") => NoneOf(ipc', "mode")
      BY <1>2, <2>2, Zenon
    <3>4. SetMode(w'.freq) = SetMode(w.freq)
      BY <2>2 DEF SetMode
    <3> QED BY <2>2, <3>2, <3>3, <3>4 DEF Following, FreqComing, SetMode
  <2> QED BY <2>1, <2>2 DEF TellsFreq
<1>5. (w.volt # None => VoltComing(w.volt))'
  <2> SUFFICES ASSUME w'.volt # None PROVE VoltComing(w.volt)'
    OBVIOUS
  <2>1. CASE LastIs(t, SetVolt(w'.volt))
    <3>1. LastIs(ipc', SetVolt(w'.volt))
      BY <1>2, <2>1, Zenon
    <3> QED BY <3>1 DEF VoltComing, SetVolt
  <2>2. CASE NoneOf(t, "volt") /\ w'.volt = w.volt
    <3>1. SetVolt(w.volt).type = "volt"
      BY Kinds
    <3>2. LastIs(ipc, SetVolt(w.volt)) => LastIs(ipc', SetVolt(w.volt))
      BY <1>2, <2>2, <3>1
    <3>3. NoneOf(ipc, "volt") => NoneOf(ipc', "volt")
      BY <1>2, <2>2, Zenon
    <3>4. SetVolt(w'.volt) = SetVolt(w.volt)
      BY <2>2 DEF SetVolt
    <3>5. VoltComing(w.volt)
      BY <2>2 DEF Following
    <3>6. Quantised(w'.volt) = Quantised(w.volt)
      BY <2>2
    <3> QED BY <2>2, <3>2, <3>3, <3>4, <3>5 DEF VoltComing, SetVolt
  <2> QED BY <2>1, <2>2 DEF TellsVolt
<1> QED BY <1>3, <1>4, <1>5 DEF Following

\* A message that arrives moves from what is under way to what is pending.
LEMMA DeliverFollows ==
    ASSUME ipc \in Seq(Messages), rtos \in RtosStates, w \in WorkerStates, Following, Deliver
    PROVE  Following'
<1>1. ipc # <<>> /\ ipc' = Tail(ipc) /\ w' = w /\ dcdc' = dcdc
  BY DEF Deliver
<1> DEFINE m == Head(ipc)
<1>2. m \in Messages
  BY <1>1
<1>3. /\ \A k : NoneOf(ipc, k) <=> NoneOf(ipc', k) /\ m.type # k
      /\ \A x : LastIs(ipc, x) => LastIs(ipc', x) \/ (m = x /\ NoneOf(ipc', x.type))
  <2>1. PICK s \in Seq(Messages) : s = ipc
    OBVIOUS
  <2>2. s # <<>>
    BY <1>1, <2>1
  <2>3. /\ \A k : NoneOf(s, k) <=> NoneOf(Tail(s), k) /\ Head(s).type # k
        /\ \A x : LastIs(s, x) => LastIs(Tail(s), x) \/ (Head(s) = x /\ NoneOf(Tail(s), x.type))
    BY <2>2, TailNone, TailLast, Zenon
  <2> QED BY <1>1, <2>1, <2>3, Zenon
<1>4. m.type \in {"job", "mode", "volt", "pause", "resume"}
  BY <1>2 DEF Messages, PauseMsg, ResumeMsg, SetMode
<1>5. m.type # "pause"
  BY <1>3 DEF Following, ClockSafe
<1>6. /\ m.type = "mode" => m = SetMode(m.freq) /\ m.freq \in Freqs
      /\ m.type = "volt" => m = SetVolt(m.mv) /\ m.mv \in Int
  BY <1>2 DEF Messages, PauseMsg, ResumeMsg, SetMode, SetVolt
<1>7. /\ rtos'.pendFreq = IF m.type = "mode" THEN m.freq ELSE rtos.pendFreq
      /\ rtos'.pendVolt = IF m.type = "volt" THEN m.mv ELSE rtos.pendVolt
      /\ rtos'.resumeReq = (rtos.resumeReq \/ m.type = "resume")
      /\ rtos'.pauseReq = rtos.pauseReq /\ rtos'.paused = rtos.paused
      /\ rtos'.freq = rtos.freq /\ rtos'.volt = rtos.volt
  <2> HIDE DEF m
  <2>1. rtos' = CASE m.type = "job"    -> [rtos EXCEPT !.pendJob = m.id]
                  [] m.type = "mode"   -> [rtos EXCEPT !.pendFreq = m.freq]
                  [] m.type = "volt"   -> [rtos EXCEPT !.pendVolt = m.mv]
                  [] m.type = "pause"  -> [rtos EXCEPT !.pauseReq = TRUE, !.persist = TRUE]
                  [] m.type = "resume" -> [rtos EXCEPT !.resumeReq = TRUE, !.persist = FALSE]
    BY Zenon DEF Deliver, m
  <2>2. CASE m.type = "job"
    BY <2>1, <2>2 DEF RtosStates
  <2>3. CASE m.type = "mode"
    BY <2>1, <2>3 DEF RtosStates
  <2>4. CASE m.type = "volt"
    BY <2>1, <2>4 DEF RtosStates
  <2>5. CASE m.type = "resume"
    BY <2>1, <2>5 DEF RtosStates
  <2> QED BY <1>4, <1>5, <2>2, <2>3, <2>4, <2>5
<1> HIDE DEF m
<1>8. ClockSafe'
  <2>1. ClockAfterResume(ipc') /\ (m.type = "resume" => ~NoneOf(ipc', "mode"))
    BY <1>1, TailClock DEF Following, ClockSafe, m
  <2>2. NoneOf(ipc', "pause")
    BY <1>3, Zenon DEF Following, ClockSafe
  <2>3. ASSUME rtos'.resumeReq, rtos'.paused
        PROVE  rtos'.pendFreq # None \/ ~NoneOf(ipc', "mode")
    <3>1. CASE m.type = "resume"
      BY <2>1, <3>1
    <3>2. CASE m.type = "mode"
      BY <1>6, <1>7, <3>2, Nano3sConstants
    <3>3. CASE m.type # "resume" /\ m.type # "mode"
      <4>1. NoneOf(ipc', "mode") => NoneOf(ipc, "mode")
        BY <1>3, <3>3, Zenon
      <4> QED BY <1>7, <2>3, <3>3, <4>1 DEF Following, ClockSafe
    <3> QED BY <3>1, <3>2, <3>3
  <2> QED BY <1>7, <2>1, <2>2, <2>3 DEF Following, ClockSafe
<1>9. FreqComing(w.freq)'
  <2>1. w.freq \in Freqs /\ SetMode(w.freq).type = "mode" /\ SetMode(w.freq).freq = w.freq
    BY DEF WorkerStates, SetMode
  <2>2. CASE LastIs(ipc, SetMode(w.freq))
    <3>1. LastIs(ipc', SetMode(w.freq)) \/ (m = SetMode(w.freq) /\ NoneOf(ipc', "mode"))
      BY <1>3, <2>1, <2>2
    <3> QED BY <1>1, <1>7, <2>1, <3>1 DEF FreqComing
  <2>3. CASE NoneOf(ipc, "mode")
    <3>1. NoneOf(ipc', "mode") /\ m.type # "mode"
      BY <1>3, <2>3, Zenon
    <3> QED BY <1>1, <1>7, <2>2, <3>1 DEF Following, FreqComing
  <2> QED BY <2>2, <2>3 DEF Following, FreqComing
<1>10. (w.volt # None => VoltComing(w.volt))'
  <2> SUFFICES ASSUME w.volt # None PROVE VoltComing(w.volt)'
    BY <1>1
  <2>1. VoltComing(w.volt)
    BY DEF Following
  <2>2. SetVolt(w.volt).type = "volt" /\ SetVolt(w.volt).mv = w.volt
    BY DEF SetVolt
  <2>3. CASE LastIs(ipc, SetVolt(w.volt))
    <3>1. LastIs(ipc', SetVolt(w.volt)) \/ (m = SetVolt(w.volt) /\ NoneOf(ipc', "volt"))
      BY <1>3, <2>2, <2>3
    <3> QED BY <1>1, <1>7, <2>2, <3>1 DEF VoltComing
  <2>4. CASE NoneOf(ipc, "volt")
    <3>1. NoneOf(ipc', "volt") /\ m.type # "volt"
      BY <1>3, <2>4, Zenon
    <3> QED BY <1>1, <1>7, <2>1, <2>3, <3>1 DEF VoltComing
  <2> QED BY <2>1, <2>3, <2>4 DEF VoltComing
<1> QED BY <1>8, <1>9, <1>10 DEF Following

\* A batch that ends in the clock and the voltage of the worker, with nothing
\* of an earlier resume or pause left, starts the promise.
LEMMA FullBatchFollows ==
    ASSUME LastIs(ipc', SetMode(w'.freq)), w'.volt # None => LastIs(ipc', SetVolt(w'.volt)),
           NoneOf(ipc', "pause"), ClockAfterResume(ipc'), ~rtos.pauseReq, ~rtos.resumeReq,
           rtos' = rtos
    PROVE  Following'
BY DEF Following, ClockSafe, FreqComing, VoltComing, SetMode, SetVolt

\* The real-time side takes up what is pending.
LEMMA RtosFollows ==
    ASSUME rtos \in RtosStates, w \in WorkerStates, Following, Rc = {TRUE},
           rtos.at = "pending" => ~rtos.paused, RtosFlags \/ RtosApply
    PROVE  Following'
<1>1. CASE RtosFlags
  <2>1. ipc' = ipc /\ w' = w /\ dcdc' = dcdc
    BY <1>1 DEF RtosFlags
  <2>2. /\ rtos'.pauseReq = FALSE /\ rtos'.resumeReq = FALSE
        /\ rtos'.pendFreq = rtos.pendFreq /\ rtos'.pendVolt = rtos.pendVolt
        /\ rtos'.volt = rtos.volt
        /\ rtos'.freq = IF rtos.resumeReq /\ (rtos.paused \/ rtos.pauseReq)
                        THEN BroughtUp ELSE rtos.freq
    BY <1>1 DEF RtosFlags, RtosStates
  <2>3. ~rtos.pauseReq
    BY DEF Following, ClockSafe
  <2>4. rtos.pendFreq = None /\ NoneOf(ipc, "mode") => rtos'.freq = rtos.freq
    BY <2>2, <2>3 DEF Following, ClockSafe
  <2>5. ClockSafe'
    BY <2>1, <2>2 DEF Following, ClockSafe
  <2>6. FreqComing(w.freq)'
    BY <2>1, <2>2, <2>4 DEF Following, FreqComing
  <2>7. (w.volt # None => VoltComing(w.volt))'
    BY <2>1, <2>2 DEF Following, VoltComing
  <2> QED BY <2>5, <2>6, <2>7 DEF Following
<1>2. CASE RtosApply
  <2>1. ipc' = ipc /\ w' = w
    BY <1>2 DEF RtosApply
  <2>2. dcdc' = IF rtos.pendVolt # None THEN Quantised(rtos.pendVolt) ELSE dcdc
    <3>1. PICK ok \in Rc : dcdc' = IF rtos.pendVolt # None /\ ok THEN Quantised(rtos.pendVolt)
                                   ELSE dcdc
      BY <1>2, Zenon DEF RtosApply
    <3>2. ok = TRUE
      OBVIOUS
    <3> QED BY <3>1, <3>2
  <2>3. /\ rtos'.pauseReq = rtos.pauseReq /\ rtos'.resumeReq = rtos.resumeReq
        /\ rtos'.paused = rtos.paused /\ rtos'.pendFreq = None /\ rtos'.pendVolt = None
        /\ rtos'.freq = IF rtos.pendFreq = None THEN rtos.freq ELSE rtos.pendFreq
        /\ rtos'.volt = IF rtos.pendVolt = None THEN rtos.volt ELSE rtos.pendVolt
    BY <1>2 DEF RtosApply, RtosStates
  <2>4. ~rtos.paused
    BY <1>2 DEF RtosApply
  <2>5. ClockSafe'
    BY <2>1, <2>3, <2>4 DEF Following, ClockSafe
  <2>6. FreqComing(w.freq)'
    BY <2>1, <2>3 DEF Following, FreqComing
  <2>7. (w.volt # None => VoltComing(w.volt))'
    <3> SUFFICES ASSUME w.volt # None PROVE VoltComing(w.volt)'
      BY <2>1
    <3>1. VoltComing(w.volt)
      BY DEF Following
    <3> QED BY <2>1, <2>2, <2>3, <3>1 DEF VoltComing
  <2> QED BY <2>5, <2>6, <2>7 DEF Following
<1> QED BY <1>1, <1>2

LEMMA FollowInit == Init => FollowInv
BY DEF Init, FollowInv, FreshRtos, FreshWorker

\* Undisturbed steps keep it.
LEMMA FollowStep ==
    ASSUME Undisturbed, PowerTypes, FollowInv, [Next]_vars PROVE FollowInv'
<1>1. ipc \in Seq(Messages) /\ rtos \in RtosStates /\ w \in WorkerStates
  BY DEF PowerTypes
<1>2. Rc = {TRUE} /\ ~Idling
  BY DEF Undisturbed
<1>3. ASSUME UNCHANGED <<rtos, ipc, dcdc>>, w'.freq = w.freq, w'.volt = w.volt,
             w'.idle = w.idle, w'.manual = w.manual, (pc' = "start") = (pc = "start")
      PROVE  FollowInv'
  <2>1. Following => Following'
    BY <1>3 DEF Following, ClockSafe, FreqComing, VoltComing
  <2> QED BY <1>3, <2>1 DEF FollowInv
<1>4. CASE WriteControl \/ ReadControl \/ ClearControl \/ IgnorePause \/ SaveMode \/ EndDrain
  BY <1>3, <1>4 DEF WriteControl, ReadControl, ClearControl, IgnorePause, SaveMode, EndDrain,
     Handled, rtosVars
<1>5. CASE PollNonce \/ EndNonces \/ ShareTaken \/ NoStatus \/ KeepTask \/ RtosStatus
           \/ RtosNonce \/ UNCHANGED vars
  BY <1>3, <1>5 DEF PollNonce, EndNonces, ShareTaken, NoStatus, KeepTask, RtosStatus,
     RtosNonce, vars, rtosVars
<1>6. CASE ApplyTarget \/ CheckDue
  <2>1. /\ w'.freq = w.freq /\ w'.volt = w.volt /\ w'.idle = w.idle /\ w'.manual = w.manual
    BY <1>1, <1>6 DEF ApplyTarget, CheckDue, WorkerStates
  <2> QED BY <1>3, <1>6, <2>1 DEF ApplyTarget, CheckDue, Handled, rtosVars
<1>7. ASSUME NEW n, NEW t, Sends(t, n), PowerOnly(t), TellsFreq(t), TellsVolt(t),
             pc # "start", pc' # "start", w'.idle = w.idle, w'.manual = w.manual,
             rtos' = rtos, dcdc' = dcdc
      PROVE  FollowInv'
  <2>1. ASSUME Following PROVE Following'
    BY <1>1, <1>7, <2>1, SendsFollow DEF PowerOnly
  <2> QED BY <1>7, <2>1 DEF FollowInv
<1>8. CASE SwitchMode
  <2>1. w'.idle = w.idle /\ w'.manual = w.manual
    BY <1>1, <1>8 DEF SwitchMode, WorkerStates
  <2>2. pc # "start" /\ pc' # "start" /\ rtos' = rtos /\ dcdc' = dcdc
    BY <1>8 DEF SwitchMode, Handled
  <2> QED BY <1>2, <1>7, <1>8, <2>1, <2>2, SwitchSends
<1>9. CASE ApplyTune
  <2>1. w'.idle = w.idle /\ w'.manual = w.manual
    BY <1>1, <1>9 DEF ApplyTune, WorkerStates
  <2>2. pc # "start" /\ pc' # "start" /\ rtos' = rtos /\ dcdc' = dcdc
    BY <1>9 DEF ApplyTune, Handled
  <2> QED BY <1>2, <1>7, <1>9, <2>1, <2>2, TuneSends
<1>10. CASE RefreshStatus
  <2>1. w'.idle = w.idle /\ w'.manual = w.manual
    BY <1>1, <1>10 DEF RefreshStatus, WorkerStates
  <2>2. pc # "start" /\ pc' # "start" /\ rtos' = rtos /\ dcdc' = dcdc
    BY <1>10 DEF RefreshStatus
  <2> QED BY <1>2, <1>7, <1>10, <2>1, <2>2, StatusSends
<1>11. CASE Start
  <2>1. PICK t : /\ Sends(t, 3) /\ PowerOnly(t) /\ LastIs(t, SetMode(w'.freq))
                 /\ w'.volt # None => LastIs(t, SetVolt(w'.volt))
    BY <1>2, <1>11, StartSends
  <2>2. ipc = <<>> /\ ~rtos.pauseReq /\ ~rtos.resumeReq /\ rtos' = rtos /\ pc' # "start"
    BY <1>11 DEF FollowInv, Start
  <2>3. t \in Seq(Messages) /\ ipc' = t
    <3>1. t \in Seq(Messages) /\ ipc' = ipc \o t
      BY <2>1 DEF Sends, Then
    <3>2. <<>> \o t = t
      BY <3>1
    <3> QED BY <2>2, <3>1, <3>2, Zenon
  <2>4. ClockAfterResume(t) /\ NoneOf(t, "pause")
    BY <2>1 DEF PowerOnly, NoneOf, ClockAfterResume
  <2>5. Following'
    BY <2>1, <2>2, <2>3, <2>4, FullBatchFollows
  <2>6. w'.idle = FALSE /\ w'.manual = FALSE
    BY <1>11 DEF Start, FreshWorker
  <2> QED BY <2>2, <2>5, <2>6 DEF FollowInv
<1>12. CASE ManualPause
  <2>1. w'.manual = TRUE /\ pc' # "start" /\ rtos' = rtos
    BY <1>1, <1>12 DEF ManualPause, Handled, WorkerStates
  <2> QED BY <2>1 DEF FollowInv
<1>13. CASE ManualResume
  <2>1. PICK t : /\ ipc' = t /\ NoneOf(t, "pause")
                 /\ LastIs(t, SetMode(w'.freq)) /\ ClockAfterResume(t)
                 /\ w'.volt # None => LastIs(t, SetVolt(w'.volt))
    BY <1>2, <1>13, ResumeSends
  <2>2. ~rtos.pauseReq /\ ~rtos.resumeReq /\ rtos' = rtos /\ pc' # "start"
    BY <1>13 DEF ManualResume, Settled, Handled
  <2>3. Following'
    BY <2>1, <2>2, FullBatchFollows
  <2>4. w'.idle = FALSE
    BY <1>1, <1>13 DEF ManualResume, WorkerStates
  <2> QED BY <2>2, <2>3, <2>4 DEF FollowInv
<1>14. CASE SendTask
  <2>1. /\ w'.freq = w.freq /\ w'.volt = w.volt /\ w'.idle = FALSE /\ w'.manual = w.manual
        /\ ~w.manual /\ pc # "start" /\ pc' = pc /\ rtos' = rtos /\ dcdc' = dcdc
    BY <1>1, <1>14 DEF SendTask, WorkerStates
  <2>2. ~w.idle
    BY <2>1 DEF FollowInv
  <2>3. PICK t : /\ Sends(t, 2) /\ NoneOf(t, "pause") /\ NoneOf(t, "mode") /\ NoneOf(t, "volt")
                 /\ NoneOf(t, "resume")
    BY <1>14, <2>2, TaskSends
  <2>4. TellsFreq(t) /\ TellsVolt(t)
    BY <2>1, <2>3 DEF TellsFreq, TellsVolt
  <2>5. Following'
    BY <1>1, <2>1, <2>3, <2>4, SendsFollow DEF FollowInv
  <2> QED BY <2>1, <2>5 DEF FollowInv
<1>15. CASE GoIdle
  BY <1>2, <1>15 DEF GoIdle
<1>16. CASE Deliver
  <2>1. ipc # <<>> /\ pc' = pc /\ w' = w
    BY <1>16 DEF Deliver
  <2>2. Following => Following'
    BY <1>1, <1>16, DeliverFollows
  <2>3. rtos'.at = rtos.at /\ rtos'.paused = rtos.paused
    <3>1. Head(ipc) \in Messages
      BY <1>1, <2>1
    <3>2. Head(ipc).type \in {"job", "mode", "volt", "pause", "resume"}
      BY <3>1 DEF Messages, PauseMsg, ResumeMsg, SetMode
    <3> QED BY <1>1, <1>16, <3>2 DEF Deliver, RtosStates
  <2> QED BY <2>1, <2>2, <2>3 DEF FollowInv
<1>17. CASE RtosFlags \/ RtosApply
  <2>1. pc' = pc /\ w' = w /\ ipc' = ipc
    BY <1>17 DEF RtosFlags, RtosApply
  <2>2. Following => Following'
    BY <1>1, <1>2, <1>17, RtosFollows DEF FollowInv
  <2>3. rtos'.at = "pending" => ~rtos'.paused
    <3>1. CASE RtosFlags
      BY <1>1, <3>1 DEF RtosFlags, RtosStates
    <3>2. CASE RtosApply
      BY <1>1, <3>2 DEF RtosApply, RtosStates
    <3> QED BY <1>17, <3>1, <3>2
  <2>4. (~rtos.pauseReq /\ ~rtos.resumeReq) => (~rtos'.pauseReq /\ ~rtos'.resumeReq)
    <3>1. CASE RtosFlags
      BY <1>1, <3>1 DEF RtosFlags, RtosStates
    <3>2. CASE RtosApply
      BY <1>1, <3>2 DEF RtosApply, RtosStates
    <3> QED BY <1>17, <3>1, <3>2
  <2> QED BY <2>1, <2>2, <2>3, <2>4 DEF FollowInv
<1>18. CASE Reboot \/ Relaunch
  <2>1. Restart /\ (rtos' = FreshRtos(FALSE) \/ rtos' = FreshRtos(rtos.persist))
    <3>1. CASE Reboot
      BY <3>1, Rebooting
    <3>2. CASE Relaunch
      BY <1>1, <3>2, Relaunching
    <3> QED BY <1>18, <3>1, <3>2
  <2>2. rtos'.at = "top" /\ rtos'.pauseReq = FALSE /\ rtos'.resumeReq = FALSE
    BY <2>1 DEF FreshRtos
  <2>3. pc' = "start" /\ ipc' = <<>> /\ w' = FreshWorker
    BY <2>1 DEF Restart
  <2> QED BY <2>2, <2>3 DEF FollowInv, FreshWorker
<1> QED
  BY <1>4, <1>5, <1>6, <1>8, <1>9, <1>10, <1>11, <1>12, <1>13, <1>14, <1>15, <1>16, <1>17, <1>18
     DEF Next, Worker, Rtos

\* While the scheduler does not idle the chain and the sends succeed, a chain
\* that nobody has paused has, once its messages have arrived, the clock and
\* the voltage the worker latched: whatever modes, tunings, targets, pauses and
\* resumes the operator commands, in whatever order they meet the steps of the
\* power-target loop and the passes of the RTOS, and through restarts of either
\* kind.
THEOREM ChainFollowsWorker == Undisturbed /\ Spec => []ChainFollows
<1> SUFFICES ASSUME Undisturbed PROVE Spec => []ChainFollows
  OBVIOUS
<1>1. PowerTypes /\ FollowInv => ChainFollows
  <2> SUFFICES ASSUME PowerTypes, FollowInv, Quiet, ~w.manual
               PROVE  /\ rtos.freq = w.freq
                      /\ w.volt # None => rtos.volt = w.volt /\ dcdc = Quantised(w.volt)
    BY DEF ChainFollows
  <2>1. Following /\ ipc = <<>> /\ rtos.pendFreq = None /\ rtos.pendVolt = None
    BY DEF FollowInv, Quiet
  <2>2. \A m : ~LastIs(ipc, m)
    BY <2>1 DEF LastIs
  <2>3. w.freq # None
    BY Nano3sConstants DEF PowerTypes, WorkerStates
  <2> QED BY <2>1, <2>2, <2>3 DEF Following, FreqComing, VoltComing
<1>2. PowerTypes /\ FollowInv /\ [Next]_vars => FollowInv'
  BY FollowStep
<1> QED BY <1>1, <1>2, FollowInit, PowerTypesHold, PTL DEF Spec

-----------------------------------------------------------------------------
(* The chain works on the worker's task.                                   *)

\* The job the chain hashes when all that is under way and pending has been
\* applied.
JobComing(id) ==
    \/ LastIs(ipc, Job(id))
    \/ NoneOf(ipc, "job") /\ rtos.pendJob = id
    \/ NoneOf(ipc, "job") /\ rtos.pendJob = None /\ rtos.job = id

NothingComing == NoneOf(ipc, "job") /\ rtos.pendJob = None /\ rtos.job = None

\* An older job never comes back: what is coming is the newest the worker knows.
NewestComing ==
    \/ NothingComing
    \/ \E j \in jobs : JobComing(j.id) /\ \A k \in jobs : k.id <= j.id

\* A pause is under way only while the worker is idle, and then it has no task
\* or owes the chain one: no pause can take a job from the chain behind the
\* worker's back.
WorkInv ==
    /\ w.manual => w.idle /\ unsent
    /\ w.idle => task = None \/ unsent
    /\ pc = "start" => ipc = <<>> /\ task = None /\ ~rtos.pauseReq
    /\ ~w.idle => NoneOf(ipc, "pause") /\ ~rtos.pauseReq
    /\ NewestComing
    /\ task # None /\ ~unsent => \E j \in jobs : j.task = task /\ JobComing(j.id)

\* A batch without jobs leaves the job that is coming.
LEMMA SendsKeepJob ==
    ASSUME ipc \in Seq(Messages), NEW n, NEW t, Sends(t, n), NoneOf(t, "job"), rtos' = rtos
    PROVE  (\A id : JobComing(id) => JobComing(id)') /\ (NothingComing => NothingComing')
<1>1. PICK s \in Seq(Messages), u \in Seq(Messages) : s = ipc /\ u = t
  BY DEF Sends
<1>2. /\ \A k : NoneOf(Then(s, u), k) <=> NoneOf(s, k) /\ NoneOf(u, k)
      /\ \A m : LastIs(s, m) /\ NoneOf(u, m.type) => LastIs(Then(s, u), m)
  BY ThenFacts, Zenon
<1>3. ipc' = Then(s, u)
  BY <1>1 DEF Sends
<1>4. NoneOf(ipc, "job") => NoneOf(ipc', "job")
  BY <1>1, <1>2, <1>3, Zenon
<1>5. \A id : LastIs(ipc, Job(id)) => LastIs(ipc', Job(id))
  <2> SUFFICES ASSUME NEW id, LastIs(ipc, Job(id)) PROVE LastIs(ipc', Job(id))
    OBVIOUS
  <2>1. Job(id).type = "job"
    BY Kinds
  <2> QED BY <1>1, <1>2, <1>3, <2>1
<1> QED BY <1>4, <1>5 DEF JobComing, NothingComing, Job

LEMMA SendsKeepPause ==
    ASSUME ipc \in Seq(Messages), NEW n, NEW t, Sends(t, n), NoneOf(t, "pause"),
           NoneOf(ipc, "pause")
    PROVE  NoneOf(ipc', "pause")
<1>1. PICK s \in Seq(Messages), u \in Seq(Messages) : s = ipc /\ u = t
  BY DEF Sends
<1>2. \A k : NoneOf(Then(s, u), k) <=> NoneOf(s, k) /\ NoneOf(u, k)
  BY ThenFacts, Zenon
<1>3. ipc' = Then(s, u)
  BY <1>1 DEF Sends
<1> QED BY <1>1, <1>2, <1>3, Zenon

\* A job that arrives is pending.
LEMMA DeliverKeepsJob ==
    ASSUME ipc \in Seq(Messages), rtos \in RtosStates, Deliver
    PROVE  /\ \A id \in Nat : JobComing(id) => JobComing(id)'
           /\ NothingComing => NothingComing'
           /\ NoneOf(ipc, "pause") => NoneOf(ipc', "pause") /\ rtos'.pauseReq = rtos.pauseReq
<1>1. ipc # <<>> /\ ipc' = Tail(ipc)
  BY DEF Deliver
<1> DEFINE m == Head(ipc)
<1>2. m \in Messages
  BY <1>1
<1>3. /\ \A k : NoneOf(ipc, k) <=> NoneOf(ipc', k) /\ m.type # k
      /\ \A x : LastIs(ipc, x) => LastIs(ipc', x) \/ (m = x /\ NoneOf(ipc', x.type))
  <2>1. PICK s \in Seq(Messages) : s = ipc
    OBVIOUS
  <2>2. s # <<>>
    BY <1>1, <2>1
  <2>3. /\ \A k : NoneOf(s, k) <=> NoneOf(Tail(s), k) /\ Head(s).type # k
        /\ \A x : LastIs(s, x) => LastIs(Tail(s), x) \/ (Head(s) = x /\ NoneOf(Tail(s), x.type))
    BY <2>2, TailNone, TailLast, Zenon
  <2> QED BY <1>1, <2>1, <2>3, Zenon
<1>4. m.type \in {"job", "mode", "volt", "pause", "resume"}
  BY <1>2 DEF Messages, PauseMsg, ResumeMsg, SetMode
<1>5. /\ rtos'.pendJob = IF m.type = "job" THEN m.id ELSE rtos.pendJob
      /\ rtos'.job = rtos.job
      /\ m.type # "pause" => rtos'.pauseReq = rtos.pauseReq
  <2> HIDE DEF m
  <2>1. rtos' = CASE m.type = "job"    -> [rtos EXCEPT !.pendJob = m.id]
                  [] m.type = "mode"   -> [rtos EXCEPT !.pendFreq = m.freq]
                  [] m.type = "volt"   -> [rtos EXCEPT !.pendVolt = m.mv]
                  [] m.type = "pause"  -> [rtos EXCEPT !.pauseReq = TRUE, !.persist = TRUE]
                  [] m.type = "resume" -> [rtos EXCEPT !.resumeReq = TRUE, !.persist = FALSE]
    BY Zenon DEF Deliver, m
  <2>2. CASE m.type = "job"
    BY <2>1, <2>2 DEF RtosStates
  <2>3. CASE m.type = "mode"
    BY <2>1, <2>3 DEF RtosStates
  <2>4. CASE m.type = "volt"
    BY <2>1, <2>4 DEF RtosStates
  <2>5. CASE m.type = "pause"
    BY <2>1, <2>5 DEF RtosStates
  <2>6. CASE m.type = "resume"
    BY <2>1, <2>6 DEF RtosStates
  <2> QED BY <1>4, <2>2, <2>3, <2>4, <2>5, <2>6
<1> HIDE DEF m
<1>6. ASSUME NEW id \in Nat, JobComing(id) PROVE JobComing(id)'
  <2>1. Job(id).type = "job" /\ Job(id).id = id
    BY Kinds
  <2>2. CASE LastIs(ipc, Job(id))
    <3>1. LastIs(ipc', Job(id)) \/ (m = Job(id) /\ NoneOf(ipc', "job"))
      BY <1>3, <2>1, <2>2
    <3> QED BY <1>5, <2>1, <3>1 DEF JobComing
  <2>3. CASE NoneOf(ipc, "job")
    <3>1. NoneOf(ipc', "job") /\ m.type # "job"
      BY <1>3, <2>3, Zenon
    <3> QED BY <1>5, <1>6, <2>2, <3>1 DEF JobComing
  <2> QED BY <1>6, <2>2, <2>3 DEF JobComing
<1>7. ASSUME NoneOf(ipc, "pause")
      PROVE  NoneOf(ipc', "pause") /\ rtos'.pauseReq = rtos.pauseReq
  <2>1. NoneOf(ipc', "pause") /\ m.type # "pause"
    BY <1>3, <1>7, Zenon
  <2> QED BY <1>5, <2>1
<1>8. ASSUME NothingComing PROVE NothingComing'
  <2>1. NoneOf(ipc', "job") /\ m.type # "job"
    BY <1>3, <1>8, Zenon DEF NothingComing
  <2> QED BY <1>5, <1>8, <2>1 DEF NothingComing
<1> QED BY <1>6, <1>7, <1>8

LEMMA WorkInit == Init => WorkInv
<1> SUFFICES ASSUME Init PROVE WorkInv
  OBVIOUS
<1>1. /\ pc = "start" /\ ipc = <<>> /\ task = None /\ w.manual = FALSE /\ w.idle = FALSE
      /\ rtos.pauseReq = FALSE /\ rtos.pendJob = None /\ rtos.job = None
  BY DEF Init, FreshRtos, FreshWorker
<1>2. NoneOf(ipc, "pause") /\ NoneOf(ipc, "job")
  BY <1>1, EmptyKinds
<1> QED BY <1>1, <1>2 DEF WorkInv, NewestComing, NothingComing

\* A step that sends no job leaves what is coming.
ComingKept ==
    /\ \A id \in Nat : JobComing(id) => JobComing(id)'
    /\ NothingComing => NothingComing'

LEMMA NewestKept ==
    ASSUME \A j \in jobs : j.id \in Nat, ComingKept, jobs' = jobs, NewestComing
    PROVE  /\ NewestComing'
           /\ \A j \in jobs : JobComing(j.id) => JobComing(j.id)'
<1>1. \A j \in jobs : JobComing(j.id) => JobComing(j.id)'
  BY DEF ComingKept
<1> QED BY <1>1 DEF ComingKept, NewestComing

LEMMA SendsKeepComing ==
    ASSUME ipc \in Seq(Messages), NEW n, NEW t, Sends(t, n), NoneOf(t, "job"), rtos' = rtos
    PROVE  ComingKept
BY SendsKeepJob DEF ComingKept

\* A task that is sent is the newest job, and it is coming.
LEMMA SentTaskComes ==
    ASSUME PowerTypes, Bounds, HistoryInv, SendTask, NEW t, Sends(t, 2),
           jobs' = Remembered(jobs \cup {[id |-> nextJob, task |-> given']}),
           task' = given', LastIs(t, Job(nextJob))
    PROVE  NewestComing' /\ \E j \in jobs' : j.task = task' /\ JobComing(j.id)'
<1>1. ipc \in Seq(Messages)
  BY DEF PowerTypes
<1>2. given' \in 1..MaxTasks
  <2>1. given' = given + 1 /\ given < MaxTasks /\ given \in Nat /\ MaxTasks \in Nat
    BY Nano3sConstants DEF SendTask, Bounds
  <2> QED BY <2>1
<1>3. PICK g \in 1..MaxTasks, n \in Nat, js \in {jobs} : g = given' /\ n = nextJob
  BY <1>2 DEF PowerTypes
<1>4. HistoryBefore(js, n)
  BY <1>3 DEF HistoryInv
<1> DEFINE new  == [id |-> n, task |-> g]
           kept == Remembered(js \cup {new})
<1>5. new \in kept /\ HistoryBefore(kept, n + 1)
  BY <1>4, HistoryKept, Zenon
<1>6. jobs' = kept /\ js = jobs
  BY <1>3
<1>7. new.id = n /\ new.task = task'
  BY <1>3
<1> HIDE DEF new, kept
<1>8. \A k \in kept : k.id \in Nat /\ k.id < n + 1
  BY <1>5 DEF HistoryBefore
<1>9. \A k \in kept : k.id <= n
  BY <1>3, <1>8
<1>10. LastIs(ipc', Job(n))
  <2>1. PICK s \in Seq(Messages), u \in Seq(Messages) : s = ipc /\ u = t
    BY <1>1 DEF Sends
  <2>2. \A m : LastIs(u, m) => LastIs(Then(s, u), m)
    BY ThenFacts, Zenon
  <2>3. ipc' = Then(s, u)
    BY <2>1 DEF Sends
  <2> QED BY <1>3, <2>1, <2>2, <2>3
<1>11. JobComing(n)'
  BY <1>10 DEF JobComing, Job
<1>12. \E j \in jobs' : JobComing(j.id)' /\ \A k \in jobs' : k.id <= j.id
  BY <1>5, <1>6, <1>7, <1>9, <1>11
<1> QED BY <1>5, <1>6, <1>7, <1>11, <1>12 DEF NewestComing

\* Every step keeps it, the operator's pauses too.
LEMMA WorkStep ==
    ASSUME PowerTypes, Bounds, HistoryInv, WorkInv, [Next]_vars
    PROVE  WorkInv'
<1>1. ipc \in Seq(Messages) /\ rtos \in RtosStates /\ w \in WorkerStates
  BY DEF PowerTypes
<1>2. (\A j \in jobs : j.id \in Nat) /\ NewestComing
  BY DEF HistoryInv, HistoryBefore, WorkInv
<1>3. ASSUME UNCHANGED <<rtos, ipc, jobs, task, unsent>>, w'.idle = w.idle,
             w'.manual = w.manual, pc' = "start" => pc = "start"
      PROVE  WorkInv'
  <2>1. ComingKept
    BY <1>3 DEF ComingKept, JobComing, NothingComing
  <2>2. NewestComing' /\ \A j \in jobs : JobComing(j.id) => JobComing(j.id)'
    BY <1>2, <1>3, <2>1, NewestKept
  <2> QED BY <1>3, <2>2 DEF WorkInv
<1>4. CASE WriteControl \/ ReadControl \/ ClearControl
  BY <1>3, <1>4 DEF WriteControl, ReadControl, ClearControl, jobVars, rtosVars, histVars
<1>5. CASE IgnorePause \/ SaveMode \/ EndDrain \/ NoStatus
  BY <1>3, <1>5 DEF IgnorePause, SaveMode, EndDrain, NoStatus, Handled, jobVars, rtosVars,
     histVars
<1>6. CASE PollNonce \/ EndNonces \/ ShareTaken \/ RtosStatus \/ RtosNonce \/ UNCHANGED vars
  BY <1>3, <1>6 DEF PollNonce, EndNonces, ShareTaken, RtosStatus, RtosNonce, vars, jobVars,
     rtosVars, histVars
<1>7. CASE ApplyTarget \/ CheckDue
  <2>1. w'.idle = w.idle /\ w'.manual = w.manual
    BY <1>1, <1>7 DEF ApplyTarget, CheckDue, WorkerStates
  <2> QED BY <1>3, <1>7, <2>1 DEF ApplyTarget, CheckDue, Handled, jobVars, rtosVars, histVars
<1>8. CASE KeepTask
  <2>1. /\ w.manual /\ pc' = pc /\ pc = "drain" /\ w' = w
        /\ UNCHANGED <<rtos, ipc, jobs, unsent>>
    BY <1>8 DEF KeepTask, rtosVars, histVars
  <2>2. ComingKept
    BY <2>1 DEF ComingKept, JobComing, NothingComing
  <2>3. NewestComing'
    BY <1>2, <2>1, <2>2, NewestKept
  <2> QED BY <2>1, <2>3 DEF WorkInv
<1>9. CASE ManualPause
  <2>1. PICK t : Sends(t, 1) /\ NoneOf(t, "job")
    BY <1>9, PauseSends
  <2>2. /\ w'.manual = TRUE /\ w'.idle = TRUE /\ unsent' = TRUE /\ pc' = "drain"
        /\ UNCHANGED <<rtos, jobs, task>>
    BY <1>1, <1>9 DEF ManualPause, Handled, jobVars, WorkerStates
  <2>3. NewestComing'
    BY <1>1, <1>2, <2>1, <2>2, SendsKeepComing, NewestKept
  <2> QED BY <2>2, <2>3 DEF WorkInv
<1>10. CASE ManualResume
  <2>1. PICK t : ipc' = t /\ NoneOf(t, "pause") /\ NoneOf(t, "job")
    BY <1>10, ResumeSends
  <2>2. /\ w.manual /\ Settled /\ pc' = "drain"
        /\ w'.manual = FALSE /\ w'.idle = FALSE
        /\ UNCHANGED <<rtos, jobs, task, unsent>>
    BY <1>1, <1>10 DEF ManualResume, Handled, jobVars, WorkerStates
  <2>3. ipc = <<>> /\ ~rtos.pauseReq
    BY <2>2 DEF Settled
  <2>4. ComingKept
    <3>1. NoneOf(ipc', "job") /\ \A m : ~LastIs(ipc, m)
      BY <2>1, <2>3 DEF LastIs
    <3> QED BY <2>2, <3>1 DEF ComingKept, JobComing, NothingComing
  <2>5. NewestComing'
    BY <1>2, <2>2, <2>4, NewestKept
  <2>6. unsent
    BY <2>2 DEF WorkInv
  <2> QED BY <2>1, <2>2, <2>3, <2>5, <2>6 DEF WorkInv
<1>11. ASSUME NEW n, NEW t, Sends(t, n), PowerOnly(t), pc' \in {"read", "drain"},
              w'.idle = w.idle, w'.manual = w.manual, UNCHANGED <<rtos, jobs, task, unsent>>
       PROVE  WorkInv'
  <2>1. NewestComing' /\ \A j \in jobs : JobComing(j.id) => JobComing(j.id)'
    BY <1>1, <1>2, <1>11, SendsKeepComing, NewestKept DEF PowerOnly
  <2>2. NoneOf(ipc, "pause") => NoneOf(ipc', "pause")
    BY <1>1, <1>11, SendsKeepPause DEF PowerOnly
  <2> QED BY <1>11, <2>1, <2>2 DEF WorkInv
<1>12. CASE SwitchMode
  <2>1. w'.idle = w.idle /\ w'.manual = w.manual
    BY <1>1, <1>12 DEF SwitchMode, WorkerStates
  <2>2. pc' = "drain" /\ UNCHANGED <<rtos, jobs, task, unsent>>
    BY <1>12 DEF SwitchMode, Handled, jobVars
  <2> QED BY <1>11, <1>12, <2>1, <2>2, SwitchSends
<1>13. CASE ApplyTune
  <2>1. w'.idle = w.idle /\ w'.manual = w.manual
    BY <1>1, <1>13 DEF ApplyTune, WorkerStates
  <2>2. pc' = "drain" /\ UNCHANGED <<rtos, jobs, task, unsent>>
    BY <1>13 DEF ApplyTune, Handled, jobVars
  <2> QED BY <1>11, <1>13, <2>1, <2>2, TuneSends
<1>14. CASE RefreshStatus
  <2>1. w'.idle = w.idle /\ w'.manual = w.manual
    BY <1>1, <1>14 DEF RefreshStatus, WorkerStates
  <2>2. pc' = "read" /\ UNCHANGED <<rtos, jobs, task, unsent>>
    BY <1>14 DEF RefreshStatus, jobVars, histVars
  <2> QED BY <1>11, <1>14, <2>1, <2>2, StatusSends
<1>15. CASE Start
  <2>1. PICK t : Sends(t, 3) /\ PowerOnly(t)
    BY <1>15, StartSends
  <2>2. /\ pc = "start" /\ pc' = "read" /\ UNCHANGED <<rtos, jobs, task, unsent>>
        /\ w'.idle = FALSE /\ w'.manual = FALSE
    BY <1>15 DEF Start, jobVars, histVars, FreshWorker
  <2>3. task = None /\ ipc = <<>> /\ ~rtos.pauseReq
    BY <2>2 DEF WorkInv
  <2>4. NoneOf(ipc', "pause")
    BY <1>1, <2>1, <2>3, SendsKeepPause, EmptyKinds DEF PowerOnly
  <2>5. NewestComing'
    BY <1>1, <1>2, <2>1, <2>2, SendsKeepComing, NewestKept DEF PowerOnly
  <2> QED BY <2>2, <2>3, <2>4, <2>5 DEF WorkInv
<1>16. CASE SendTask
  <2>1. /\ pc = "drain" /\ pc' = pc /\ rtos' = rtos /\ w'.idle = FALSE /\ ~w.manual
        /\ w'.manual = w.manual
        /\ w.idle => Settled
    BY <1>1, <1>16 DEF SendTask, WorkerStates
  <2>2. PICK t : /\ Sends(t, 2) /\ NoneOf(t, "pause")
                 /\ \/ /\ jobs' = Remembered(jobs \cup {[id |-> nextJob, task |-> given']})
                       /\ task' = given' /\ unsent' = FALSE /\ LastIs(t, Job(nextJob))
                    \/ UNCHANGED <<jobs, task, unsent>> /\ NoneOf(t, "job")
    BY <1>16, TaskSends
  <2>3. NoneOf(ipc, "pause") /\ ~rtos.pauseReq
    <3>1. CASE w.idle = TRUE
      BY <2>1, <3>1, EmptyKinds DEF Settled
    <3>2. CASE w.idle = FALSE
      BY <3>2 DEF WorkInv
    <3>3. w.idle \in BOOLEAN
      BY <1>1 DEF WorkerStates
    <3> QED BY <3>1, <3>2, <3>3
  <2>4. NoneOf(ipc', "pause")
    BY <1>1, <2>2, <2>3, SendsKeepPause
  <2>5. /\ NewestComing'
        /\ task' # None /\ ~unsent' => \E j \in jobs' : j.task = task' /\ JobComing(j.id)'
    <3>1. CASE UNCHANGED <<jobs, task, unsent>> /\ NoneOf(t, "job")
      <4>1. ComingKept
        BY <1>1, <2>1, <2>2, <3>1, SendsKeepComing
      <4>2. NewestComing' /\ \A j \in jobs : JobComing(j.id) => JobComing(j.id)'
        BY <1>2, <3>1, <4>1, NewestKept
      <4> QED BY <3>1, <4>2 DEF WorkInv
    <3>2. CASE /\ jobs' = Remembered(jobs \cup {[id |-> nextJob, task |-> given']})
               /\ task' = given' /\ LastIs(t, Job(nextJob))
      BY <1>16, <2>2, <3>2, SentTaskComes
    <3> QED BY <2>2, <3>1, <3>2
  <2> QED BY <2>1, <2>3, <2>4, <2>5 DEF WorkInv
<1>17. CASE GoIdle
  <2>1. PICK t : Sends(t, 1) /\ NoneOf(t, "job")
    BY <1>17, PauseSends
  <2>2. /\ task' = None /\ w'.idle = TRUE /\ w'.manual = w.manual /\ pc' = pc /\ pc = "drain"
        /\ UNCHANGED <<rtos, jobs, unsent>>
    BY <1>1, <1>17 DEF GoIdle, WorkerStates
  <2>3. NewestComing'
    BY <1>1, <1>2, <2>1, <2>2, SendsKeepComing, NewestKept
  <2> QED BY <2>2, <2>3 DEF WorkInv
<1>18. CASE Deliver
  <2>1. /\ ipc # <<>> /\ pc' = pc /\ w' = w /\ UNCHANGED <<jobs, task, unsent>>
    BY <1>18 DEF Deliver, jobVars, histVars
  <2>2. NoneOf(ipc, "pause") => NoneOf(ipc', "pause") /\ rtos'.pauseReq = rtos.pauseReq
    BY <1>1, <1>18, DeliverKeepsJob
  <2>3. ComingKept
    BY <1>1, <1>18, DeliverKeepsJob DEF ComingKept
  <2>4. NewestComing' /\ \A j \in jobs : JobComing(j.id) => JobComing(j.id)'
    BY <1>2, <2>1, <2>3, NewestKept
  <2> QED BY <2>1, <2>2, <2>4 DEF WorkInv
<1>19. CASE RtosFlags
  <2>1. pc' = pc /\ w' = w /\ UNCHANGED <<ipc, jobs, task, unsent>>
    BY <1>19 DEF RtosFlags, jobVars, histVars
  <2>2. /\ rtos'.pauseReq = FALSE /\ rtos'.pendJob = rtos.pendJob
        /\ rtos'.job = rtos.job \/ (rtos.pauseReq /\ rtos'.job = None)
    BY <1>1, <1>19 DEF RtosFlags, RtosStates
  <2>3. CASE rtos'.job = rtos.job
    <3>1. ComingKept
      BY <2>1, <2>2, <2>3 DEF ComingKept, JobComing, NothingComing
    <3>2. NewestComing' /\ \A j \in jobs : JobComing(j.id) => JobComing(j.id)'
      BY <1>2, <2>1, <3>1, NewestKept
    <3> QED BY <2>1, <2>2, <3>2 DEF WorkInv
  <2>4. CASE rtos.pauseReq /\ rtos'.job = None
    <3>1. w.idle /\ (task = None \/ unsent)
      BY <2>4 DEF WorkInv
    <3>2. NewestComing'
      <4>1. CASE NothingComing
        BY <2>1, <2>2, <2>4, <4>1 DEF NothingComing, NewestComing
      <4>2. ASSUME NEW j \in jobs, JobComing(j.id), \A k \in jobs : k.id <= j.id
            PROVE  NewestComing'
        <5>1. JobComing(j.id)' \/ NothingComing'
          BY <2>1, <2>2, <2>4, <4>2 DEF JobComing, NothingComing
        <5> QED BY <2>1, <4>2, <5>1 DEF NewestComing
      <4> QED BY <1>2, <4>1, <4>2 DEF NewestComing
    <3> QED BY <2>1, <2>2, <3>1, <3>2 DEF WorkInv
  <2> QED BY <2>2, <2>3, <2>4
<1>20. CASE RtosApply
  <2>1. pc' = pc /\ w' = w /\ UNCHANGED <<ipc, jobs, task, unsent>>
    BY <1>20 DEF RtosApply, jobVars, histVars
  <2>2. /\ rtos'.pauseReq = rtos.pauseReq /\ rtos'.pendJob = None
        /\ rtos'.job = IF rtos.pendJob = None THEN rtos.job ELSE rtos.pendJob
    BY <1>1, <1>20 DEF RtosApply, RtosStates
  <2>3. \A id \in Nat : id # None
    BY Nano3sConstants
  <2>4. ComingKept
    BY <2>1, <2>2, <2>3 DEF ComingKept, JobComing, NothingComing
  <2>5. NewestComing' /\ \A j \in jobs : JobComing(j.id) => JobComing(j.id)'
    BY <1>2, <2>1, <2>4, NewestKept
  <2> QED BY <2>1, <2>2, <2>5 DEF WorkInv
<1>21. CASE Reboot \/ Relaunch
  <2>1. Restart /\ (rtos' = FreshRtos(FALSE) \/ rtos' = FreshRtos(rtos.persist))
    <3>1. CASE Reboot
      BY <3>1, Rebooting
    <3>2. CASE Relaunch
      BY <1>1, <3>2, Relaunching
    <3> QED BY <1>21, <3>1, <3>2
  <2>2. rtos'.pauseReq = FALSE /\ rtos'.pendJob = None /\ rtos'.job = None
    BY <2>1 DEF FreshRtos
  <2>3. /\ pc' = "start" /\ ipc' = <<>> /\ task' = None
        /\ w'.idle = FALSE /\ w'.manual = FALSE
    BY <2>1 DEF Restart, FreshWorker
  <2>4. NoneOf(ipc', "pause") /\ NoneOf(ipc', "job")
    BY <2>3, EmptyKinds
  <2>5. NewestComing'
    BY <2>2, <2>4 DEF NewestComing, NothingComing
  <2> QED BY <2>2, <2>3, <2>4, <2>5 DEF WorkInv
<1> QED
  BY <1>4, <1>5, <1>6, <1>7, <1>8, <1>9, <1>10, <1>12, <1>13, <1>14, <1>15, <1>16, <1>17, <1>18,
     <1>19, <1>20, <1>21 DEF Next, Worker, Rtos

\* A chain that should hash works on the worker's current task once its
\* messages have arrived, and the worker still knows the job by its id: however
\* the scheduler alternates tasks and idling and the operator pauses and
\* resumes, whatever sends fail and through restarts.  Only from a pause of the
\* operator until the next task is sent may it hash nothing, because the RTOS
\* forgets its job and the resume does not send it again; and even then it
\* never goes back to a job older than the newest the worker knows.
THEOREM ChainWorks == Spec => []ChainWorksOnTask
<1>1. HistoryInv /\ WorkInv => ChainWorksOnTask
  <2> SUFFICES ASSUME HistoryInv, WorkInv, ShouldHash
               PROVE  \/ HashesTask
                      \/ unsent /\ rtos.job = None
                      \/ unsent /\ \E j \in jobs : j.id = rtos.job /\ \A k \in jobs : k.id <= j.id
    BY DEF ChainWorksOnTask
  <2>1. ipc = <<>> /\ rtos.pendJob = None /\ task # None
    BY DEF ShouldHash, Quiet
  <2>2. \A m : ~LastIs(ipc, m)
    BY <2>1 DEF LastIs
  <2>3. \A j \in jobs : j \in [id : Nat, task : 1..MaxTasks] /\ j.id # None
    BY Nano3sConstants DEF HistoryInv, HistoryBefore
  <2>4. \A j \in jobs : JobComing(j.id) => rtos.job = j.id
    BY <2>1, <2>2, <2>3 DEF JobComing
  <2>5. CASE ~unsent
    <3>1. PICK j \in jobs : j.task = task /\ JobComing(j.id)
      BY <2>1, <2>5 DEF WorkInv
    <3>2. rtos.job = j.id /\ j \in [id : Nat, task : 1..MaxTasks]
      BY <2>3, <2>4, <3>1
    <3>3. [id |-> rtos.job, task |-> task] = j
      BY <3>1, <3>2
    <3> QED BY <3>3 DEF HashesTask
  <2>6. CASE unsent
    BY <2>4, <2>6 DEF WorkInv, NewestComing, NothingComing
  <2> QED BY <2>5, <2>6
<1>2. PowerTypes /\ Bounds /\ HistoryInv /\ WorkInv /\ [Next]_vars => WorkInv'
  BY WorkStep
<1> QED BY <1>1, <1>2, WorkInit, HistoryInvariant, PTL DEF Spec
=============================================================================
