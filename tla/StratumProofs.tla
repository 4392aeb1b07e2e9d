---------------------------- MODULE StratumProofs ----------------------------
(***************************************************************************)
(* Proofs about StratumV1: what the scheduler sees is a JobSource; shares  *)
(* stay with the session and the answer they belong to; templates carry    *)
(* the session and the difficulty of their job.                            *)
(*                                                                         *)
(* A source that is not connected has taken its jobs back (SessionInv), and *)
(* if the scheduler is prompt none is left when the next connection is made, *)
(* so no share of an old job can be (ShareInv).  Ids of requests only grow, *)
(* so of the answers on the line only one has the id of the request under  *)
(* way (AnswerInv).  Where a job is, on the line, in the client or in the  *)
(* source, the difficulty told last before it is the pool's when the job   *)
(* was announced (TellInv), which needs a state to keep it in (ReadyInv).  *)
(***************************************************************************)
EXTENDS StratumV1, SequenceTheorems, TLAPS

-----------------------------------------------------------------------------
(* Types.                                                                  *)

Elems(s) == {s[i] : i \in DOMAIN s}

SourceCommands == [type : {"share"}, share : Shares] \cup [type : {"rate"}, rate : Rates]
SourceEvents   == [type : {"update", "replace"}, job : Jobs] \cup [type : {"clear"}]
Notifications  == [type : {"notify"}, n : Nat, clean : BOOLEAN] \cup [type : {"diff"}, d : Diffs]
                  \cup [type : {"mask"}, m : Masks]
Lines          == [type : {"response"}, id : Nat, val : {"yes", "no", "bad"}, mask : OptMask]
                  \cup Notifications \cup [type : {"reconnect", "odd", "garbage"}]
ClientEvents   == [type : {"configured"}, mask : OptMask]
                  \cup [type : {"subscribed"}, session : Nat]
                  \cup [type : {"accepted", "rejected"}, n : Nat] \cup Notifications
ClientCommands == [type : {"suggest"}, d : Nat] \cup [type : {"submit"}, share : Shares]
PoolRequests   == [method : Requests, id : Nat, share : Shares \cup {None}]
Announcements  == [n : Nat, ses : Nat, diff : OptDiff]

SchedTypes ==
    /\ rx \in Seq(SourceCommands) /\ tx \in Seq(SourceEvents) /\ known \subseteq Jobs

SourceTypes ==
    /\ src \in {"wait", "connect", "run", "backoff", "exited"}
    /\ rate \in Rates \cup {0}
    /\ state \in ProtocolStates \cup {None}
    /\ suggested \in Nat \cup {None}
    /\ cooldown \in {"off", "on", "due"}
    /\ delay \in {1, 2, 4, 8, 16, 32, 60}

ClientTypes ==
    /\ events \in Seq(ClientEvents) /\ commands \in Seq(ClientCommands)
    /\ pc \in Requests \cup {"main", "ended"}
    /\ reqId \in Nat
    /\ initial \in Nat \cup {None}
    /\ share \in Shares \cup {None} /\ (share # None <=> pc = "submit")
    /\ result \in {None, "disconnected", "fatal"}
    /\ partial \in BOOLEAN /\ (partial => toClient # <<>> /\ pc # "ended")

PoolTypes ==
    /\ session \in Nat /\ open \in BOOLEAN
    /\ toPool \in Seq(PoolRequests) /\ toClient \in Seq(Lines)
    /\ poolDiff \in OptDiff /\ subscribed \in BOOLEAN
    /\ announced \subseteq Announcements
    /\ left \in BudgetType
    /\ lost \in BOOLEAN /\ foreign \in BOOLEAN

StratumTypes == SchedTypes /\ SourceTypes /\ ClientTypes /\ PoolTypes

-----------------------------------------------------------------------------
(* Lemmas about sequences.                                                 *)

LEMMA AppendAt ==
    ASSUME NEW S, NEW s \in Seq(S), NEW x \in S
    PROVE  /\ Append(s, x) \in Seq(S) /\ Len(Append(s, x)) = Len(s) + 1 /\ Append(s, x) # <<>>
           /\ \A i \in DOMAIN s : i \in DOMAIN Append(s, x) /\ Append(s, x)[i] = s[i]
           /\ Len(s) + 1 \in DOMAIN Append(s, x) /\ Append(s, x)[Len(s) + 1] = x
           /\ \A i \in DOMAIN Append(s, x) : i \in DOMAIN s \/ i = Len(s) + 1
OBVIOUS

LEMMA TailAt ==
    ASSUME NEW S, NEW s \in Seq(S), s # <<>>
    PROVE  /\ Tail(s) \in Seq(S) /\ Len(Tail(s)) = Len(s) - 1
           /\ Head(s) \in S /\ 1 \in DOMAIN s /\ s[1] = Head(s)
           /\ \A i \in DOMAIN Tail(s) : i + 1 \in DOMAIN s /\ Tail(s)[i] = s[i + 1]
           /\ \A i \in DOMAIN s : i # 1 => i - 1 \in DOMAIN Tail(s) /\ Tail(s)[i - 1] = s[i]
OBVIOUS

LEMMA ElemsEmpty == Elems(<<>>) = {}
BY DEF Elems

LEMMA ElemsAppend ==
    ASSUME NEW S, NEW s \in Seq(S), NEW x \in S
    PROVE  Append(s, x) \in Seq(S) /\ Elems(Append(s, x)) = Elems(s) \cup {x}
<1>1. /\ Append(s, x) \in Seq(S)
      /\ \A i \in DOMAIN s : i \in DOMAIN Append(s, x) /\ Append(s, x)[i] = s[i]
      /\ Len(s) + 1 \in DOMAIN Append(s, x) /\ Append(s, x)[Len(s) + 1] = x
      /\ \A i \in DOMAIN Append(s, x) : i \in DOMAIN s \/ i = Len(s) + 1
  BY AppendAt
<1> DEFINE u == Append(s, x)
           n == Len(s) + 1
<1> HIDE DEF u, n
<1>2. /\ \A i \in DOMAIN s : i \in DOMAIN u /\ u[i] = s[i]
      /\ n \in DOMAIN u /\ u[n] = x
      /\ \A i \in DOMAIN u : i \in DOMAIN s \/ i = n
  BY <1>1 DEF u, n
<1>3. Elems(u) = Elems(s) \cup {x}
  BY <1>2 DEF Elems
<1> QED BY <1>1, <1>3 DEF u

LEMMA ElemsTail ==
    ASSUME NEW S, NEW s \in Seq(S), s # <<>>
    PROVE  /\ Tail(s) \in Seq(S) /\ Head(s) \in S /\ Head(s) \in Elems(s)
           /\ Elems(Tail(s)) \subseteq Elems(s)
<1>1. /\ Tail(s) \in Seq(S) /\ Head(s) \in S /\ 1 \in DOMAIN s /\ s[1] = Head(s)
      /\ \A i \in DOMAIN Tail(s) : i + 1 \in DOMAIN s /\ Tail(s)[i] = s[i + 1]
  BY TailAt
<1> DEFINE u == Tail(s)
<1>2. \A i \in DOMAIN u : \E k \in DOMAIN s : u[i] = s[k]
  BY <1>1
<1> HIDE DEF u
<1>3. Elems(u) \subseteq Elems(s)
  BY <1>2 DEF Elems
<1>4. Head(s) \in Elems(s)
  BY <1>1 DEF Elems
<1> QED BY <1>1, <1>3, <1>4 DEF u

LEMMA ElemsType == ASSUME NEW S, NEW s \in Seq(S) PROVE Elems(s) \subseteq S
BY DEF Elems

-----------------------------------------------------------------------------
(* Lemmas about messages.                                                  *)

LEMMA MadeTypes ==
    /\ \A s \in Shares : [type |-> "share", share |-> s] \in SourceCommands
    /\ \A r \in Rates : [type |-> "rate", rate |-> r] \in SourceCommands
    /\ \A j \in Jobs : /\ [type |-> "update", job |-> j] \in SourceEvents
                       /\ [type |-> "replace", job |-> j] \in SourceEvents
    /\ [type |-> "clear"] \in SourceEvents
    /\ \A m \in OptMask : [type |-> "configured", mask |-> m] \in ClientEvents
    /\ \A n \in Nat : /\ [type |-> "subscribed", session |-> n] \in ClientEvents
                      /\ [type |-> "accepted", n |-> n] \in ClientEvents
                      /\ [type |-> "rejected", n |-> n] \in ClientEvents
    /\ \A d \in Nat : [type |-> "suggest", d |-> d] \in ClientCommands
    /\ \A s \in Shares : [type |-> "submit", share |-> s] \in ClientCommands
BY DEF SourceCommands, SourceEvents, ClientEvents, ClientCommands

LEMMA RequestType ==
    ASSUME NEW m \in Requests, NEW id \in Nat, NEW s \in Shares \cup {None}
    PROVE  /\ Request(m, id, s) \in PoolRequests
           /\ Request(m, id, s).method = m /\ Request(m, id, s).id = id
           /\ Request(m, id, s).share = s
BY DEF Request, PoolRequests

LEMMA LineTypes ==
    /\ \A id \in Nat, v \in {"yes", "no", "bad"}, m \in OptMask :
         /\ Response(id, v, m) \in Lines /\ Response(id, v, m).type = "response"
         /\ Response(id, v, m).id = id /\ Response(id, v, m).val = v
    /\ \A n \in Nat, c \in BOOLEAN :
         Notify(n, c) \in Lines /\ Notify(n, c).type = "notify" /\ Notify(n, c).n = n
    /\ \A d \in Diffs : SetDifficulty(d) \in Lines
    /\ \A m \in Masks : SetVersionMask(m) \in Lines /\ SetVersionMask(m).type = "mask"
    /\ \A d : SetDifficulty(d).type = "diff" /\ SetDifficulty(d).d = d
    /\ Reconnect \in Lines /\ Reconnect.type = "reconnect"
    /\ Odd \in Lines /\ Odd.type = "odd"
    /\ Garbage \in Lines /\ Garbage.type = "garbage"
<1>1. \A id \in Nat, v \in {"yes", "no", "bad"}, m \in OptMask :
         /\ Response(id, v, m) \in Lines /\ Response(id, v, m).type = "response"
         /\ Response(id, v, m).id = id /\ Response(id, v, m).val = v
  BY DEF Lines, Response
<1>2. \A n \in Nat, c \in BOOLEAN :
         Notify(n, c) \in Lines /\ Notify(n, c).type = "notify" /\ Notify(n, c).n = n
  BY DEF Lines, Notifications, Notify
<1> QED BY <1>1, <1>2 DEF Lines, Notifications, SetDifficulty, SetVersionMask, Reconnect, Odd, Garbage

\* What a line is, by its type.
LEMMA LineKinds ==
    ASSUME NEW m \in Lines
    PROVE  /\ m.type = "response" => /\ m.id \in Nat /\ m.val \in {"yes", "no", "bad"}
                                     /\ m.mask \in OptMask
           /\ m.type \in {"notify", "diff", "mask"} => m \in ClientEvents
           /\ m.type = "notify" => m.n \in Nat
           /\ m.type = "diff" => m.d \in Diffs /\ m = SetDifficulty(m.d)
           /\ m.type \in {"response", "notify", "diff", "mask", "reconnect", "odd", "garbage"}
<1>1. CASE m.type = "response"
  BY <1>1 DEF Lines, Notifications
<1>2. CASE m.type = "notify"
  BY <1>2 DEF Lines, Notifications, ClientEvents
<1>3. CASE m.type = "diff"
  BY <1>3 DEF Lines, Notifications, ClientEvents, SetDifficulty
<1>4. CASE m.type = "mask"
  BY <1>4 DEF Lines, Notifications, ClientEvents
<1>5. CASE m.type \in {"reconnect", "odd", "garbage"}
  BY <1>5
<1> QED BY <1>1, <1>2, <1>3, <1>4, <1>5 DEF Lines, Notifications

-----------------------------------------------------------------------------
(* What the steps leave alone.                                             *)

LEMMA SchedFrame ==
    ASSUME SchedulerSteps
    PROVE  UNCHANGED <<sourceVars, events, commands, clientVars, linkVars, poolVars, lost,
                       counted, foreign>>
BY DEF SchedulerSteps, SchedulerTakes, SchedulerSubmits, SchedulerAnnounces, quiet

\* Steps of the source other than Connect.
SourceMoves ==
    \/ WaitForRate \/ ConnectFails \/ ClientGone \/ BackoffDrains \/ BackoffEnds
    \/ SourceRate \/ CooldownPasses \/ CooldownFlush \/ SourceSubmit \/ HandleClientEvent

LEMMA SourceFrame ==
    ASSUME SourceMoves
    PROVE  UNCHANGED <<known, clientVars, linkVars, poolVars, lost, foreign>>
<1>1. CASE WaitForRate \/ ConnectFails \/ ClientGone \/ BackoffDrains \/ BackoffEnds
  BY <1>1 DEF WaitForRate, ConnectFails, ClientGone, BackoffDrains, BackoffEnds, quiet, schedVars
<1>2. CASE SourceRate \/ CooldownPasses \/ CooldownFlush \/ SourceSubmit \/ HandleClientEvent
  BY <1>2 DEF SourceRate, CooldownPasses, CooldownFlush, SourceSubmit, HandleClientEvent, quiet,
     schedVars
<1> QED BY <1>1, <1>2 DEF SourceMoves

LEMMA ClientFrame == ASSUME ClientSteps PROVE UNCHANGED clientRest
BY DEF ClientSteps, ReadPart, ReadResponse, ReadStray, ReadNotification, ReadReconnect,
   ReadGarbage, ReadEof, RequestTimesOut, TakeCommand, ReadLine

LEMMA PoolFrame ==
    ASSUME PoolSteps
    PROVE  UNCHANGED <<schedVars, sourceVars, events, commands, pc, reqId, initial, share, result,
                       session, lost, counted, foreign>>
BY DEF PoolSteps, PoolAnswers, PoolNotifies, PoolSets, PoolDisturbs, PoolCloses, PoolSays, poolRest,
   clientVars

LEMMA SpendType ==
    ASSUME left \in BudgetType, NEW what \in {"attempts", "jobs", "sets", "shares", "faults"},
           Spend(what)
    PROVE  /\ left' \in BudgetType
           /\ IF what = "jobs" THEN left.jobs > 0 /\ left'.jobs = left.jobs - 1
                               ELSE left'.jobs = left.jobs
<1>1. CASE what = "attempts"
  BY <1>1 DEF Spend, BudgetType
<1>2. CASE what = "jobs"
  BY <1>2 DEF Spend, BudgetType
<1>3. CASE what = "sets"
  BY <1>3 DEF Spend, BudgetType
<1>4. CASE what = "shares"
  BY <1>4 DEF Spend, BudgetType
<1>5. CASE what = "faults"
  BY <1>5 DEF Spend, BudgetType
<1> QED BY <1>1, <1>2, <1>3, <1>4, <1>5

\* The budget, and the jobs left in it.
LEMMA LeftStep ==
    ASSUME left \in BudgetType, StratumNext
    PROVE  /\ left' \in BudgetType
           /\ left'.jobs = left.jobs \/ (PoolNotifies /\ left.jobs > 0 /\ left'.jobs = left.jobs - 1)
<1>1. CASE left' = left
  BY <1>1
<1>2. CASE SchedulerAnnounces
  <2>1. left.rates # <<>> /\ left' = [left EXCEPT !.rates = Tail(@)]
    BY <1>2 DEF SchedulerAnnounces
  <2>2. Tail(left.rates) \in Seq(Rates)
    BY <2>1 DEF BudgetType
  <2> QED BY <2>1, <2>2 DEF BudgetType
<1>3. CASE SchedulerSubmits
  BY <1>3, SpendType DEF SchedulerSubmits
<1>4. CASE Connect \/ ConnectFails
  BY <1>4, SpendType DEF Connect, ConnectFails
<1>5. CASE ReadPart \/ PoolDisturbs \/ PoolCloses
  BY <1>5, SpendType DEF ReadPart, PoolDisturbs, PoolCloses
<1>6. CASE RequestTimesOut
  <2>1. left' = left \/ Spend("faults")
    BY <1>6 DEF RequestTimesOut
  <2> QED BY <2>1, SpendType
<1>7. CASE PoolAnswers
  <2>1. left' = left \/ Spend("faults")
    BY <1>7 DEF PoolAnswers
  <2> QED BY <2>1, SpendType
<1>8. CASE PoolNotifies \/ PoolSets
  BY <1>8, SpendType DEF PoolNotifies, PoolSets
<1>9. CASE SchedulerTakes \/ WaitForRate \/ ClientGone \/ BackoffDrains \/ BackoffEnds
           \/ SourceRate \/ CooldownPasses \/ CooldownFlush \/ SourceSubmit \/ HandleClientEvent
  BY <1>1, <1>9 DEF SchedulerTakes, WaitForRate, ClientGone, BackoffDrains, BackoffEnds,
     SourceRate, CooldownPasses, CooldownFlush, SourceSubmit, HandleClientEvent, quiet
<1>10. CASE ReadResponse \/ ReadStray \/ ReadNotification \/ ReadReconnect \/ ReadGarbage
            \/ ReadEof \/ TakeCommand
  BY <1>1, <1>10 DEF ReadResponse, ReadStray, ReadNotification, ReadReconnect, ReadGarbage,
     ReadEof, TakeCommand, ReadLine
<1> QED
  BY <1>2, <1>3, <1>4, <1>5, <1>6, <1>7, <1>8, <1>9, <1>10
     DEF StratumNext, SchedulerSteps, SourceSteps, ClientSteps, PoolSteps

-----------------------------------------------------------------------------
(* The types hold.                                                         *)

LEMMA TypesInit == StratumInit => StratumTypes
<1> SUFFICES ASSUME StratumInit PROVE StratumTypes
  OBVIOUS
<1>1. SchedTypes /\ SourceTypes
  BY DEF StratumInit, SchedTypes, SourceTypes
<1>2. ClientTypes
  <2>1. events \in Seq(ClientEvents) /\ commands \in Seq(ClientCommands)
    BY DEF StratumInit
  <2>2. partial \in BOOLEAN /\ ~partial
    BY DEF StratumInit
  <2>3. share = None /\ pc = "ended" /\ reqId \in Nat /\ initial = None /\ result = None
    BY DEF StratumInit
  <2> QED BY <2>1, <2>2, <2>3 DEF ClientTypes
<1>3. left \in BudgetType
  BY StratumConstants DEF StratumInit
<1>4. PoolTypes
  <2>1. toPool \in Seq(PoolRequests) /\ toClient \in Seq(Lines) /\ session \in Nat
    BY DEF StratumInit
  <2>2. open \in BOOLEAN /\ subscribed \in BOOLEAN /\ lost \in BOOLEAN /\ foreign \in BOOLEAN
    BY DEF StratumInit
  <2>3. poolDiff \in OptDiff /\ announced \subseteq Announcements
    BY DEF StratumInit, OptDiff
  <2> QED BY <1>3, <2>1, <2>2, <2>3 DEF PoolTypes
<1> QED BY <1>1, <1>2, <1>4 DEF StratumTypes

LEMMA SchedTypesStep == ASSUME StratumTypes, [StratumNext]_stratumVars PROVE SchedTypes'
<1>1. /\ rx \in Seq(SourceCommands) /\ tx \in Seq(SourceEvents) /\ known \subseteq Jobs
      /\ left \in BudgetType /\ state \in ProtocolStates \cup {None}
      /\ events \in Seq(ClientEvents)
  BY DEF StratumTypes, SchedTypes, PoolTypes, SourceTypes, ClientTypes
<1>2. ASSUME UNCHANGED schedVars PROVE SchedTypes'
  BY <1>1, <1>2 DEF schedVars, SchedTypes
<1>3. CASE SchedulerTakes
  <2>1. tx # <<>> /\ tx' = Tail(tx) /\ rx' = rx
    BY <1>3 DEF SchedulerTakes
  <2>2. Head(tx) \in SourceEvents /\ Tail(tx) \in Seq(SourceEvents)
    BY <1>1, <2>1, ElemsTail
  <2> DEFINE e == Head(tx)
  <2>3. /\ e.type \in {"update", "replace", "clear"}
        /\ e.type # "clear" => e.job \in Jobs
    BY <2>2 DEF SourceEvents
  <2>4. known' = CASE e.type = "update"  -> known \cup {e.job}
                   [] e.type = "replace" -> {e.job}
                   [] e.type = "clear"   -> {}
    BY <1>3 DEF SchedulerTakes
  <2> HIDE DEF e
  <2>5. known' \subseteq Jobs
    BY <1>1, <2>3, <2>4
  <2> QED BY <1>1, <2>1, <2>2, <2>5 DEF SchedTypes
<1>4. CASE SchedulerSubmits
  <2>1. PICK j \in known :
          rx' = Append(rx, [type |-> "share", share |-> [n |-> left.shares, job |-> j]])
    BY <1>4 DEF SchedulerSubmits
  <2>2. [n |-> left.shares, job |-> j] \in Shares
    BY <1>1 DEF Shares, BudgetType
  <2>3. rx' \in Seq(SourceCommands)
    BY <1>1, <2>1, <2>2, MadeTypes, ElemsAppend
  <2> QED BY <1>1, <1>4, <2>3 DEF SchedulerSubmits, SchedTypes
<1>5. CASE SchedulerAnnounces
  <2>1. left.rates # <<>> /\ rx' = Append(rx, [type |-> "rate", rate |-> Head(left.rates)])
    BY <1>5 DEF SchedulerAnnounces
  <2>2. Head(left.rates) \in Rates
    BY <1>1, <2>1 DEF BudgetType
  <2>3. rx' \in Seq(SourceCommands)
    BY <1>1, <2>1, <2>2, MadeTypes, ElemsAppend
  <2> QED BY <1>1, <1>5, <2>3 DEF SchedulerAnnounces, SchedTypes
<1>6. CASE WaitForRate \/ BackoffDrains \/ SourceRate \/ SourceSubmit
  <2>1. rx # <<>> /\ rx' = Tail(rx) /\ tx' = tx /\ known' = known
    BY <1>6 DEF WaitForRate, BackoffDrains, SourceRate, SourceSubmit, DrainCommand
  <2>2. rx' \in Seq(SourceCommands)
    BY <1>1, <2>1, ElemsTail
  <2> QED BY <1>1, <2>1, <2>2 DEF SchedTypes
<1>7. CASE ConnectFails \/ ClientGone
  <2>1. rx' = rx /\ known' = known /\ (tx' = tx \/ tx' = Append(tx, [type |-> "clear"]))
    BY <1>7 DEF ConnectFails, ClientGone, ClearJobs
  <2>2. [type |-> "clear"] \in SourceEvents
    BY MadeTypes
  <2>3. Append(tx, [type |-> "clear"]) \in Seq(SourceEvents)
    BY <1>1, <2>2, ElemsAppend
  <2> QED BY <1>1, <2>1, <2>3 DEF SchedTypes
<1>8. CASE HandleClientEvent
  <2>1. rx' = rx /\ known' = known /\ events # <<>>
    BY <1>8 DEF HandleClientEvent
  <2>2. Head(events) \in ClientEvents
    BY <1>1, <2>1, ElemsTail
  <2>3. CASE tx' = tx
    BY <1>1, <2>1, <2>3 DEF SchedTypes
  <2>4. CASE tx' # tx
    <3> DEFINE e == Head(events)
               j == [n |-> e.n, ses |-> state.en1, diff |-> state.diff, mask |-> state.mask]
    <3>1. /\ e.type = "notify" /\ TemplateBuilt(e)
          /\ tx' = Append(tx, [type |-> IF e.clean THEN "replace" ELSE "update", job |-> j])
      BY <1>8, <2>4, Zenon DEF HandleClientEvent
    <3>2. e.n \in Nat
      BY <2>2, <3>1 DEF ClientEvents, Notifications
    <3> HIDE DEF e
    <3>3. state \in ProtocolStates /\ state.en1 \in Nat
      BY <1>1, <3>1 DEF TemplateBuilt, ProtocolStates
    <3>4. j \in Jobs
      BY <3>2, <3>3 DEF Jobs, ProtocolStates
    <3> HIDE DEF j
    <3>5. \/ tx' = Append(tx, [type |-> "replace", job |-> j])
          \/ tx' = Append(tx, [type |-> "update", job |-> j])
      BY <3>1, Zenon
    <3>6. /\ [type |-> "replace", job |-> j] \in SourceEvents
          /\ [type |-> "update", job |-> j] \in SourceEvents
      BY <3>4, MadeTypes
    <3>7. /\ Append(tx, [type |-> "replace", job |-> j]) \in Seq(SourceEvents)
          /\ Append(tx, [type |-> "update", job |-> j]) \in Seq(SourceEvents)
      BY <1>1, <3>6, ElemsAppend
    <3> QED BY <1>1, <2>1, <3>5, <3>7 DEF SchedTypes
  <2> QED BY <2>3, <2>4
<1>9. CASE Connect \/ BackoffEnds \/ CooldownPasses \/ CooldownFlush \/ UNCHANGED stratumVars
  BY <1>2, <1>9 DEF Connect, BackoffEnds, CooldownPasses, CooldownFlush, stratumVars
<1>10. CASE ClientSteps \/ PoolSteps
  BY <1>2, <1>10, ClientFrame, PoolFrame DEF clientRest
<1> QED
  BY <1>3, <1>4, <1>5, <1>6, <1>7, <1>8, <1>9, <1>10 DEF StratumNext, SchedulerSteps, SourceSteps

LEMMA NextDelayType ==
    ASSUME NEW b, delay \in {1, 2, 4, 8, 16, 32, 60}
    PROVE  NextDelay(b) \in {1, 2, 4, 8, 16, 32, 60}
BY DEF NextDelay

LEMMA StateAfterType ==
    ASSUME NEW e \in ClientEvents, state \in ProtocolStates \cup {None}
    PROVE  StateAfter(e) \in ProtocolStates \cup {None}
<1>1. CASE e.type = "configured"
  <2>1. e.mask \in OptMask
    BY <1>1 DEF ClientEvents, Notifications
  <2> QED BY <1>1, <2>1 DEF StateAfter, ProtocolStates, OptDiff
<1>2. CASE e.type = "subscribed"
  <2>1. e.session \in Nat
    BY <1>2 DEF ClientEvents, Notifications
  <2> QED BY <1>2, <2>1 DEF StateAfter, ProtocolStates, OptDiff, OptMask
<1>3. CASE e.type = "diff"
  <2>1. e.d \in Diffs
    BY <1>3 DEF ClientEvents, Notifications
  <2> QED BY <1>3, <2>1 DEF StateAfter, ProtocolStates, OptDiff
<1>4. CASE e.type = "mask"
  <2>1. e.m \in Masks
    BY <1>4 DEF ClientEvents, Notifications
  <2> QED BY <1>4, <2>1 DEF StateAfter, ProtocolStates, OptMask
<1>5. CASE e.type \notin {"configured", "subscribed", "diff", "mask"}
  BY <1>5 DEF StateAfter
<1> QED BY <1>1, <1>2, <1>3, <1>4, <1>5

LEMMA RateTaken ==
    ASSUME StratumTypes, rx # <<>>, Head(rx).type = "rate"
    PROVE  Head(rx).rate \in Rates
<1>1. Head(rx) \in SourceCommands
  BY ElemsTail DEF StratumTypes, SchedTypes
<1> QED BY <1>1 DEF SourceCommands

LEMMA SuggestedType == ASSUME NEW r \in Rates \cup {0} PROVE SuggestedFor(r) \in Nat \cup {None}
BY StratumConstants DEF SuggestedFor

LEMMA SourceTypesStep == ASSUME StratumTypes, [StratumNext]_stratumVars PROVE SourceTypes'
<1>1. SourceTypes
  BY DEF StratumTypes
<1>2. ASSUME UNCHANGED sourceVars PROVE SourceTypes'
  BY <1>1, <1>2 DEF sourceVars, SourceTypes
<1>3. CASE WaitForRate \/ BackoffDrains
  <2>1. /\ rx # <<>> /\ rate' = IF Head(rx).type = "rate" THEN Head(rx).rate ELSE rate
        /\ src' \in {src, "connect"} /\ UNCHANGED <<state, suggested, cooldown, delay>>
    BY <1>3 DEF WaitForRate, BackoffDrains, DrainCommand
  <2>2. rate' \in Rates \cup {0}
    BY <1>1, <2>1, RateTaken DEF SourceTypes
  <2> QED BY <1>1, <2>1, <2>2 DEF SourceTypes
<1>4. CASE Connect \/ ConnectFails
  <2>1. /\ src' \in {"run", "backoff"} /\ rate' = rate /\ state' = None
        /\ suggested' = SuggestedFor(rate) /\ cooldown' = "off"
        /\ delay' = delay \/ delay' = NextDelay(FALSE)
    BY <1>4 DEF Connect, ConnectFails, StateAtConnect
  <2>2. SuggestedFor(rate) \in Nat \cup {None}
    BY <1>1, SuggestedType DEF SourceTypes
  <2>3. delay' \in {1, 2, 4, 8, 16, 32, 60}
    BY <1>1, <2>1 DEF SourceTypes, NextDelay
  <2> QED BY <1>1, <2>1, <2>2, <2>3 DEF SourceTypes
<1>5. CASE ClientGone
  <2>1. /\ src' \in {"exited", "backoff"} /\ UNCHANGED <<rate, state, suggested, cooldown>>
        /\ delay' = delay \/ \E b \in BOOLEAN : delay' = NextDelay(b)
    BY <1>5 DEF ClientGone
  <2>2. delay' \in {1, 2, 4, 8, 16, 32, 60}
    BY <1>1, <2>1, NextDelayType DEF SourceTypes
  <2> QED BY <1>1, <2>1, <2>2 DEF SourceTypes
<1>6. CASE SourceRate
  <2>1. rx # <<>> /\ Head(rx).type = "rate" /\ rate' = Head(rx).rate
        /\ UNCHANGED <<src, state, delay>>
    BY <1>6 DEF SourceRate
  <2>2. rate' \in Rates \cup {0} /\ SuggestedFor(rate') \in Nat \cup {None}
    BY <2>1, RateTaken, SuggestedType
  <2>3. \/ suggested' = SuggestedFor(rate') /\ cooldown' = "on"
        \/ suggested' = suggested /\ cooldown' = cooldown
    BY <1>6 DEF SourceRate, SendSuggest
  <2> QED BY <1>1, <2>1, <2>2, <2>3 DEF SourceTypes
<1>7. CASE CooldownFlush
  <2>1. SuggestedFor(rate) \in Nat \cup {None}
    BY <1>1, SuggestedType DEF SourceTypes
  <2>2. \/ suggested' = SuggestedFor(rate) /\ cooldown' = "on"
        \/ suggested' = suggested /\ cooldown' = "off"
    BY <1>7 DEF CooldownFlush, FlushSuggest, SendSuggest
  <2> QED BY <1>1, <1>7, <2>1, <2>2 DEF SourceTypes, CooldownFlush
<1>8. CASE BackoffEnds \/ CooldownPasses
  BY <1>1, <1>8 DEF BackoffEnds, CooldownPasses, SourceTypes
<1>9. CASE HandleClientEvent
  <2>1. /\ events # <<>> /\ state' = StateAfter(Head(events))
        /\ UNCHANGED <<src, rate, suggested, cooldown, delay>>
    BY <1>9 DEF HandleClientEvent
  <2>2. Head(events) \in ClientEvents
    BY <2>1, ElemsTail DEF StratumTypes, ClientTypes
  <2>3. StateAfter(Head(events)) \in ProtocolStates \cup {None}
    BY <1>1, <2>2, StateAfterType DEF SourceTypes
  <2> QED BY <1>1, <2>1, <2>3 DEF SourceTypes
<1>10. CASE SourceSubmit \/ UNCHANGED stratumVars
  BY <1>2, <1>10 DEF SourceSubmit, stratumVars
<1>11. CASE SchedulerSteps \/ ClientSteps \/ PoolSteps
  BY <1>2, <1>11, SchedFrame, ClientFrame, PoolFrame DEF clientRest
<1> QED
  BY <1>3, <1>4, <1>5, <1>6, <1>7, <1>8, <1>9, <1>10, <1>11 DEF StratumNext, SourceSteps

-----------------------------------------------------------------------------
(* The steps of the client, by what they do to the request under way.      *)

\* It stays, ends, or a suggestion follows.
Carries == UNCHANGED <<pc, reqId, share, result, toPool>>
Moves   == Carries \/ ToMain \/ EndWith("disconnected") \/ EndWith("fatal") \/ Ask("suggest", None)

LEMMA FailMoves == Fail => ToMain \/ EndWith("disconnected")
BY DEF Fail

\* An answer moves the handshake on, reports a share, or neither.
LEMMA ResponseCases ==
    ASSUME ReadResponse
    PROVE  LET m == Head(toClient)
           IN  /\ m.type = "response" /\ m.id = reqId
               /\ \/ /\ pc = "configure" /\ Ask("subscribe", None)
                     /\ events' = Append(events, [type |-> "configured",
                                                  mask |-> IF m.val = "yes" THEN m.mask ELSE None])
                  \/ /\ pc = "subscribe" /\ Ask("authorize", None)
                     /\ events' = Append(events, [type |-> "subscribed", session |-> session])
                  \/ /\ pc = "submit" /\ ToMain
                     /\ \/ /\ m.val = "yes"
                           /\ events' = Append(events, [type |-> "accepted", n |-> share.n])
                        \/ events' = Append(events, [type |-> "rejected", n |-> share.n])
                  \/ events' = events /\ Moves
<1> DEFINE m == Head(toClient)
<1>1. /\ m.type = "response" /\ Awaited(m)
      /\ \/ Configured(m) \/ Subscribed(m) \/ Authorized(m)
         \/ Suggested(m) \/ Submitted(m) \/ Refused(m)
  BY Zenon DEF ReadResponse
<1> HIDE DEF m
<1>2. m.id = reqId
  BY <1>1 DEF Awaited
<1>3. CASE Configured(m)
  BY <1>1, <1>2, <1>3, Zenon DEF Configured, Emit, m
<1>4. CASE Subscribed(m)
  BY <1>1, <1>2, <1>4, Zenon DEF Subscribed, Emit, m
<1>5. CASE Authorized(m)
  <2>1. events' = events /\ (ToMain \/ Ask("suggest", None))
    BY <1>5 DEF Authorized
  <2> QED BY <1>1, <1>2, <2>1, Zenon DEF Moves, m
<1>6. CASE Suggested(m)
  <2>1. events' = events /\ ToMain
    BY <1>6 DEF Suggested
  <2> QED BY <1>1, <1>2, <2>1, Zenon DEF Moves, m
<1>7. CASE Submitted(m)
  <2>1. /\ pc = "submit" /\ ToMain
        /\ events' = Append(events, [type |-> IF m.val = "yes" THEN "accepted" ELSE "rejected",
                                     n |-> share.n])
    BY <1>7, Zenon DEF Submitted, Emit
  <2>2. CASE m.val = "yes"
    BY <1>1, <1>2, <2>1, <2>2, Zenon DEF m
  <2>3. CASE m.val # "yes"
    BY <1>1, <1>2, <2>1, <2>3, Zenon DEF m
  <2> QED BY <2>2, <2>3
<1>8. CASE Refused(m)
  <2>1. events' = events /\ (EndWith("fatal") \/ Fail)
    BY <1>8, Zenon DEF Refused
  <2> QED BY <1>1, <1>2, <2>1, FailMoves, Zenon DEF Moves, m
<1> QED BY <1>1, <1>3, <1>4, <1>5, <1>6, <1>7, <1>8

\* The other lines leave the request alone or end it.
LEMMA OtherCases ==
    ASSUME ReadStray \/ ReadReconnect \/ ReadGarbage \/ ReadEof \/ ReadPart
    PROVE  /\ events' = events /\ commands' = commands /\ foreign' = foreign /\ lost' = lost
           /\ Moves
           /\ \/ toClient' = toClient
              \/ /\ toClient # <<>> /\ toClient' = Tail(toClient)
                 /\ Head(toClient).type \notin {"notify", "diff"}
<1>1. CASE ReadStray
  BY <1>1 DEF ReadStray, ReadLine, Moves, Carries
<1>2. CASE ReadReconnect
  BY <1>2 DEF ReadReconnect, ReadLine, Moves, Carries
<1>3. CASE ReadGarbage
  BY <1>3, FailMoves DEF ReadGarbage, ReadLine, Moves
<1>4. CASE ReadEof
  BY <1>4, FailMoves DEF ReadEof, Moves
<1>5. CASE ReadPart
  BY <1>5 DEF ReadPart, Moves, Carries
<1> QED BY <1>1, <1>2, <1>3, <1>4, <1>5

LEMMA NotificationCases ==
    ASSUME ReadNotification
    PROVE  /\ Head(toClient).type \in {"notify", "diff", "mask"}
           /\ events' = Append(events, Head(toClient))
           /\ toClient # <<>> /\ toClient' = Tail(toClient)
           /\ commands' = commands /\ foreign' = foreign /\ lost' = lost /\ Carries
BY DEF ReadNotification, Handles, Emit, ReadLine, Carries

LEMMA TimeoutCases ==
    ASSUME RequestTimesOut
    PROVE  /\ commands' = commands /\ foreign' = foreign
           /\ \/ /\ pc = "configure" /\ Ask("subscribe", None)
                 /\ events' = Append(events, [type |-> "configured", mask |-> None])
              \/ events' = events /\ Moves
<1>1. /\ commands' = commands /\ foreign' = foreign
      /\ IF pc = "configure"
         THEN Emit([type |-> "configured", mask |-> None]) /\ Ask("subscribe", None)
         ELSE UNCHANGED events /\ Fail
  BY DEF RequestTimesOut
<1>2. CASE pc = "configure"
  BY <1>1, <1>2, Zenon DEF Emit
<1>3. CASE pc # "configure"
  BY <1>1, <1>3, FailMoves, Zenon DEF Moves
<1> QED BY <1>2, <1>3

LEMMA CommandCases ==
    ASSUME TakeCommand
    PROVE  /\ pc = "main" /\ commands # <<>> /\ commands' = Tail(commands) /\ events' = events
           /\ \/ /\ Head(commands).type = "submit" /\ Ask("submit", Head(commands).share)
                 /\ foreign' = (foreign \/ Head(commands).share.job.ses # session)
              \/ Ask("suggest", None) /\ foreign' = foreign
BY Zenon DEF TakeCommand

\* A dropped read may leave garbage.
LEMMA DropCases ==
    ASSUME toClient \in Seq(Lines), partial => toClient # <<>>, DropRead
    PROVE  /\ toClient' \in Seq(Lines) /\ Elems(toClient') \subseteq Elems(toClient) \cup {Garbage}
           /\ partial' = FALSE
           /\ (~lost' => toClient' = toClient /\ ~lost) /\ lost' \in BOOLEAN
<1>1. /\ partial' = FALSE /\ lost' = (lost \/ partial)
      /\ toClient' = IF partial THEN <<Garbage>> \o Tail(toClient) ELSE toClient
  BY DEF DropRead
<1>2. CASE ~partial
  BY <1>1, <1>2
<1>3. CASE partial
  <2>1. Garbage \in Lines
    BY LineTypes
  <2>2. Tail(toClient) \in Seq(Lines) /\ Elems(Tail(toClient)) \subseteq Elems(toClient)
    BY <1>3, ElemsTail
  <2> DEFINE t == Tail(toClient)
             u == <<Garbage>> \o t
  <2> HIDE DEF t
  <2>3. t \in Seq(Lines)
    BY <2>2 DEF t
  <2>4. u \in Seq(Lines)
    BY <2>1, <2>3
  <2>5. \A i \in DOMAIN u : u[i] = Garbage \/ \E k \in DOMAIN t : u[i] = t[k]
    BY <2>1, <2>3
  <2> HIDE DEF u
  <2>6. Elems(u) \subseteq Elems(t) \cup {Garbage}
    BY <2>5 DEF Elems
  <2>7. toClient' = u
    BY <1>1, <1>3 DEF u, t
  <2> QED BY <1>1, <1>3, <2>2, <2>4, <2>6, <2>7 DEF t
<1> QED BY <1>2, <1>3

-----------------------------------------------------------------------------
(* The types hold, continued.                                              *)

\* The request under way after a move.
LEMMA MovesTypes ==
    ASSUME ClientTypes, toPool \in Seq(PoolRequests), Moves
    PROVE  /\ toPool' \in Seq(PoolRequests) /\ reqId' \in Nat
           /\ pc' \in Requests \cup {"main", "ended"}
           /\ share' \in Shares \cup {None} /\ (share' # None <=> pc' = "submit")
           /\ result' \in {None, "disconnected", "fatal"}
<1>1. CASE Carries \/ ToMain \/ EndWith("disconnected") \/ EndWith("fatal")
  BY <1>1 DEF Carries, ToMain, EndWith, ClientTypes
<1>2. CASE Ask("suggest", None)
  <2>1. "suggest" \in Requests /\ reqId + 1 \in Nat
    BY DEF Requests, ClientTypes
  <2>2. Request("suggest", reqId + 1, None) \in PoolRequests
    BY <2>1, RequestType
  <2>3. Append(toPool, Request("suggest", reqId + 1, None)) \in Seq(PoolRequests)
    BY <2>2, ElemsAppend
  <2> QED BY <1>2, <2>1, <2>3 DEF Ask, ClientTypes
<1> QED BY <1>1, <1>2 DEF Moves

LEMMA AskTypes ==
    ASSUME ClientTypes, toPool \in Seq(PoolRequests), NEW m \in Requests,
           NEW s \in Shares \cup {None}, s # None <=> m = "submit", Ask(m, s)
    PROVE  /\ toPool' \in Seq(PoolRequests) /\ reqId' \in Nat
           /\ pc' \in Requests \cup {"main", "ended"} /\ pc' # "ended"
           /\ share' \in Shares \cup {None} /\ (share' # None <=> pc' = "submit")
           /\ result' \in {None, "disconnected", "fatal"}
<1>1. reqId + 1 \in Nat
  BY DEF ClientTypes
<1>2. Request(m, reqId + 1, s) \in PoolRequests
  BY <1>1, RequestType
<1>3. Append(toPool, Request(m, reqId + 1, s)) \in Seq(PoolRequests)
  BY <1>2, ElemsAppend
<1>4. m # "ended"
  BY DEF Requests, Handshake
<1> QED BY <1>1, <1>3, <1>4 DEF Ask, ClientTypes

\* The steps of the client keep the types of its request and of the link.
LEMMA ClientStepTypes ==
    ASSUME StratumTypes, ClientSteps
    PROVE  /\ toPool' \in Seq(PoolRequests) /\ toClient' \in Seq(Lines) /\ reqId' \in Nat
           /\ pc' \in Requests \cup {"main", "ended"}
           /\ share' \in Shares \cup {None} /\ (share' # None <=> pc' = "submit")
           /\ result' \in {None, "disconnected", "fatal"}
           /\ events' \in Seq(ClientEvents) /\ commands' \in Seq(ClientCommands)
<1>1. /\ ClientTypes /\ toPool \in Seq(PoolRequests) /\ toClient \in Seq(Lines)
      /\ events \in Seq(ClientEvents) /\ commands \in Seq(ClientCommands) /\ session \in Nat
      /\ partial => toClient # <<>>
  BY DEF StratumTypes, PoolTypes, ClientTypes
<1>2. {"subscribe", "authorize", "suggest", "submit"} \subseteq Requests
  BY DEF Requests, Handshake
<1>3. None \notin Shares
  BY StratumConstants
<1>4. ASSUME Ask("subscribe", None) \/ Ask("authorize", None) \/ Moves
      PROVE  /\ toPool' \in Seq(PoolRequests) /\ reqId' \in Nat
             /\ pc' \in Requests \cup {"main", "ended"}
             /\ share' \in Shares \cup {None} /\ (share' # None <=> pc' = "submit")
             /\ result' \in {None, "disconnected", "fatal"}
  <2>1. CASE Ask("subscribe", None)
    BY <1>1, <1>2, <2>1, AskTypes
  <2>2. CASE Ask("authorize", None)
    BY <1>1, <1>2, <2>2, AskTypes
  <2>3. CASE Moves
    BY <1>1, <2>3, MovesTypes
  <2> QED BY <1>4, <2>1, <2>2, <2>3
<1>5. CASE ReadResponse
  <2> DEFINE m == Head(toClient)
  <2>1. toClient # <<>> /\ toClient' = Tail(toClient) /\ commands' = commands
    BY <1>5 DEF ReadResponse, ReadLine
  <2>2. m \in Lines /\ toClient' \in Seq(Lines)
    BY <1>1, <2>1, ElemsTail
  <2>3. /\ m.type = "response"
        /\ \/ /\ pc = "configure" /\ Ask("subscribe", None)
              /\ events' = Append(events, [type |-> "configured",
                                           mask |-> IF m.val = "yes" THEN m.mask ELSE None])
           \/ /\ pc = "subscribe" /\ Ask("authorize", None)
              /\ events' = Append(events, [type |-> "subscribed", session |-> session])
           \/ /\ pc = "submit" /\ ToMain
              /\ \/ events' = Append(events, [type |-> "accepted", n |-> share.n])
                 \/ events' = Append(events, [type |-> "rejected", n |-> share.n])
           \/ events' = events /\ Moves
    BY <1>5, ResponseCases, Zenon
  <2> HIDE DEF m
  <2>4. events' \in Seq(ClientEvents)
    <3>1. (IF m.val = "yes" THEN m.mask ELSE None) \in OptMask
      BY <2>2, <2>3, LineKinds DEF OptMask
    <3>2. [type |-> "configured", mask |-> IF m.val = "yes" THEN m.mask ELSE None] \in ClientEvents
      BY <3>1, MadeTypes
    <3>3. [type |-> "subscribed", session |-> session] \in ClientEvents
      BY <1>1, MadeTypes
    <3>4. pc = "submit" => share.n \in Nat
      BY <1>1 DEF ClientTypes, Shares
    <3>5. pc = "submit" => /\ [type |-> "accepted", n |-> share.n] \in ClientEvents
                           /\ [type |-> "rejected", n |-> share.n] \in ClientEvents
      BY <3>4, MadeTypes
    <3>6. \A x \in ClientEvents : Append(events, x) \in Seq(ClientEvents)
      BY <1>1, ElemsAppend
    <3> QED BY <1>1, <2>3, <3>2, <3>3, <3>5, <3>6, Zenon
  <2>5. Ask("subscribe", None) \/ Ask("authorize", None) \/ Moves
    BY <2>3, Zenon DEF Moves
  <2> QED BY <1>1, <1>4, <2>1, <2>2, <2>4, <2>5
<1>6. CASE ReadStray \/ ReadReconnect \/ ReadGarbage \/ ReadEof \/ ReadPart
  <2>1. /\ events' = events /\ commands' = commands /\ Moves
        /\ toClient' = toClient \/ (toClient # <<>> /\ toClient' = Tail(toClient))
    BY <1>6, OtherCases
  <2>2. toClient' \in Seq(Lines)
    BY <1>1, <2>1, ElemsTail
  <2> QED BY <1>1, <1>4, <2>1, <2>2
<1>7. CASE ReadNotification
  <2>1. /\ Head(toClient).type \in {"notify", "diff", "mask"}
        /\ events' = Append(events, Head(toClient)) /\ commands' = commands
        /\ toClient # <<>> /\ toClient' = Tail(toClient) /\ Moves
    BY <1>7, NotificationCases DEF Moves
  <2>2. Head(toClient) \in Lines /\ toClient' \in Seq(Lines)
    BY <1>1, <2>1, ElemsTail
  <2>3. Head(toClient) \in ClientEvents
    BY <2>1, <2>2, LineKinds
  <2>4. events' \in Seq(ClientEvents)
    BY <1>1, <2>1, <2>3, ElemsAppend
  <2> QED BY <1>1, <1>4, <2>1, <2>2, <2>4
<1>8. CASE RequestTimesOut
  <2>1. toClient' \in Seq(Lines)
    BY <1>1, <1>8, DropCases DEF RequestTimesOut
  <2>2. /\ commands' = commands
        /\ \/ /\ Ask("subscribe", None)
              /\ events' = Append(events, [type |-> "configured", mask |-> None])
           \/ events' = events /\ Moves
    BY <1>8, TimeoutCases, Zenon
  <2>3. [type |-> "configured", mask |-> None] \in ClientEvents
    BY MadeTypes DEF OptMask
  <2>4. Append(events, [type |-> "configured", mask |-> None]) \in Seq(ClientEvents)
    BY <1>1, <2>3, ElemsAppend
  <2>5. events' \in Seq(ClientEvents)
    BY <1>1, <2>2, <2>4
  <2> QED BY <1>1, <1>4, <2>1, <2>2, <2>5
<1>9. CASE TakeCommand
  <2>1. toClient' \in Seq(Lines)
    BY <1>1, <1>9, DropCases DEF TakeCommand
  <2>2. /\ commands # <<>> /\ commands' = Tail(commands) /\ events' = events
        /\ \/ Head(commands).type = "submit" /\ Ask("submit", Head(commands).share)
           \/ Ask("suggest", None)
    BY <1>9, CommandCases, Zenon
  <2>3. Head(commands) \in ClientCommands /\ commands' \in Seq(ClientCommands)
    BY <1>1, <2>2, ElemsTail
  <2>4. CASE Head(commands).type = "submit" /\ Ask("submit", Head(commands).share)
    <3>1. Head(commands).share \in Shares
      BY <2>3, <2>4 DEF ClientCommands
    <3> QED BY <1>1, <1>2, <1>3, <2>1, <2>2, <2>3, <2>4, <3>1, AskTypes
  <2>5. CASE Ask("suggest", None)
    BY <1>1, <1>4, <2>1, <2>2, <2>3, <2>5 DEF Moves
  <2> QED BY <2>2, <2>4, <2>5
<1> QED BY <1>5, <1>6, <1>7, <1>8, <1>9 DEF ClientSteps

\* A part of a line is pending only while there is a line and a reader.
LEMMA PartialStep ==
    ASSUME StratumTypes, [StratumNext]_stratumVars
    PROVE  partial' \in BOOLEAN /\ (partial' => toClient' # <<>> /\ pc' # "ended")
<1>1. /\ partial \in BOOLEAN /\ (partial => toClient # <<>> /\ pc # "ended")
      /\ toClient \in Seq(Lines)
  BY DEF StratumTypes, ClientTypes, PoolTypes
<1>2. CASE SchedulerSteps \/ SourceMoves \/ UNCHANGED stratumVars
  BY <1>1, <1>2, SchedFrame, SourceFrame DEF clientVars, linkVars, stratumVars
<1>3. CASE partial' = FALSE
  BY <1>3
<1>4. CASE Connect \/ ReadResponse \/ ReadStray \/ ReadNotification \/ ReadReconnect \/ ReadGarbage
  BY <1>3, <1>4 DEF Connect, ReadResponse, ReadStray, ReadNotification, ReadReconnect, ReadGarbage,
     ReadLine
<1>5. CASE RequestTimesOut \/ TakeCommand
  BY <1>3, <1>5 DEF RequestTimesOut, TakeCommand, DropRead
<1>6. CASE ReadPart
  BY <1>6 DEF ReadPart
<1>7. CASE ReadEof
  <2>1. partial = FALSE /\ partial' = partial
    BY <1>1, <1>7 DEF ReadEof
  <2> QED BY <2>1
<1>8. CASE PoolCloses
  <2>1. partial' = (partial /\ toClient' # <<>>) /\ pc' = pc
    BY <1>8 DEF PoolCloses
  <2> QED BY <1>1, <2>1
<1>9. CASE PoolAnswers
  <2>1. partial' = partial /\ pc' = pc
    BY <1>9 DEF PoolAnswers, poolRest, clientVars
  <2>2. toClient' = toClient \/ \E m : toClient' = Append(toClient, m)
    BY <1>9 DEF PoolAnswers
  <2>3. \A m : Append(toClient, m) # <<>>
    BY <1>1
  <2> QED BY <1>1, <2>1, <2>2, <2>3
<1>10. CASE PoolNotifies \/ PoolSets \/ PoolDisturbs
  <2>1. partial' = partial /\ pc' = pc /\ \E m : toClient' = Append(toClient, m)
    BY <1>10 DEF PoolNotifies, PoolSets, PoolDisturbs, PoolSays, poolRest, clientVars
  <2>2. \A m : Append(toClient, m) # <<>>
    BY <1>1
  <2> QED BY <1>1, <2>1, <2>2
<1> QED
  BY <1>2, <1>4, <1>5, <1>6, <1>7, <1>8, <1>9, <1>10
     DEF StratumNext, SourceSteps, SourceMoves, ClientSteps, PoolSteps

LEMMA ClientTypesStep == ASSUME StratumTypes, [StratumNext]_stratumVars PROVE ClientTypes'
<1>1. /\ ClientTypes /\ events \in Seq(ClientEvents) /\ commands \in Seq(ClientCommands)
  BY DEF StratumTypes, ClientTypes
<1>2. partial' \in BOOLEAN /\ (partial' => toClient' # <<>> /\ pc' # "ended")
  BY PartialStep
<1>3. ASSUME UNCHANGED <<pc, reqId, initial, share, result>>,
             events' \in Seq(ClientEvents), commands' \in Seq(ClientCommands)
      PROVE  ClientTypes'
  BY <1>1, <1>2, <1>3 DEF ClientTypes
<1>4. CASE SchedulerSteps \/ PoolSteps \/ UNCHANGED stratumVars
  BY <1>1, <1>3, <1>4, SchedFrame, PoolFrame DEF clientVars, stratumVars
<1>5. CASE ClientSteps
  <2>1. initial' = initial
    BY <1>5, ClientFrame DEF clientRest
  <2> QED BY <1>1, <1>2, <1>5, <2>1, ClientStepTypes DEF ClientTypes
<1>6. CASE Connect
  <2>1. /\ events' = <<>> /\ commands' = <<>> /\ pc' = "configure" /\ reqId' = 1
        /\ initial' = SuggestedFor(rate) /\ share' = None /\ result' = None
    BY <1>6 DEF Connect
  <2>2. SuggestedFor(rate) \in Nat \cup {None}
    BY SuggestedType DEF StratumTypes, SourceTypes
  <2>3. pc' \in Requests /\ pc' # "submit"
    BY <2>1 DEF Requests, Handshake
  <2>4. events' \in Seq(ClientEvents) /\ commands' \in Seq(ClientCommands) /\ reqId' \in Nat
    BY <2>1
  <2> QED BY <1>2, <2>1, <2>2, <2>3, <2>4 DEF ClientTypes
<1>7. CASE SourceRate
  <2>1. events' = events /\ UNCHANGED <<pc, reqId, initial, share, result>>
        /\ rx # <<>> /\ Head(rx).type = "rate" /\ rate' = Head(rx).rate
    BY <1>7 DEF SourceRate, clientVars
  <2>2. PICK r \in Rates : r = rate'
    BY <2>1, RateTaken
  <2>3. \/ commands' = commands
        \/ /\ SuggestedFor(r) # None
           /\ commands' = Append(commands, [type |-> "suggest", d |-> SuggestedFor(r)])
    BY <1>7, <2>2 DEF SourceRate, SendSuggest, ToClient, Material
  <2>4. SuggestedFor(r) \in Nat \cup {None}
    BY SuggestedType
  <2>5. commands' \in Seq(ClientCommands)
    <3>1. CASE commands' = commands
      BY <1>1, <3>1
    <3>2. CASE /\ SuggestedFor(r) # None
               /\ commands' = Append(commands, [type |-> "suggest", d |-> SuggestedFor(r)])
      <4>1. [type |-> "suggest", d |-> SuggestedFor(r)] \in ClientCommands
        BY <2>4, <3>2, MadeTypes
      <4> QED BY <1>1, <3>2, <4>1, ElemsAppend
    <3> QED BY <2>3, <3>1, <3>2
  <2> QED BY <1>1, <1>3, <2>1, <2>5
<1>8. CASE CooldownFlush
  <2>1. events' = events /\ UNCHANGED <<pc, reqId, initial, share, result>>
    BY <1>8 DEF CooldownFlush, clientVars
  <2>2. \/ commands' = commands
        \/ /\ SuggestedFor(rate) # None
           /\ commands' = Append(commands, [type |-> "suggest", d |-> SuggestedFor(rate)])
    BY <1>8 DEF CooldownFlush, FlushSuggest, SendSuggest, ToClient, Material
  <2>3. SuggestedFor(rate) \in Nat \cup {None}
    BY SuggestedType DEF StratumTypes, SourceTypes
  <2>4. commands' \in Seq(ClientCommands)
    <3>1. CASE commands' = commands
      BY <1>1, <3>1
    <3>2. CASE /\ SuggestedFor(rate) # None
               /\ commands' = Append(commands, [type |-> "suggest", d |-> SuggestedFor(rate)])
      <4>1. [type |-> "suggest", d |-> SuggestedFor(rate)] \in ClientCommands
        BY <2>3, <3>2, MadeTypes
      <4> QED BY <1>1, <3>2, <4>1, ElemsAppend
    <3> QED BY <2>2, <3>1, <3>2
  <2> QED BY <1>1, <1>3, <2>1, <2>4
<1>9. CASE SourceSubmit
  <2>1. /\ events' = events /\ UNCHANGED <<pc, reqId, initial, share, result>>
        /\ rx # <<>> /\ Head(rx).type = "share"
        /\ \/ commands' = commands
           \/ commands' = Append(commands, [type |-> "submit", share |-> Head(rx).share])
    BY <1>9 DEF SourceSubmit, ToClient, clientVars
  <2>2. Head(rx) \in SourceCommands
    BY <2>1, ElemsTail DEF StratumTypes, SchedTypes
  <2>3. Head(rx).share \in Shares
    BY <2>1, <2>2 DEF SourceCommands
  <2>4. [type |-> "submit", share |-> Head(rx).share] \in ClientCommands
    BY <2>3, MadeTypes
  <2>5. Append(commands, [type |-> "submit", share |-> Head(rx).share]) \in Seq(ClientCommands)
    BY <1>1, <2>4, ElemsAppend
  <2> QED BY <1>1, <1>3, <2>1, <2>5
<1>10. CASE HandleClientEvent
  <2>1. /\ events # <<>> /\ events' = Tail(events) /\ commands' = commands
        /\ UNCHANGED <<pc, reqId, initial, share, result>>
    BY <1>10 DEF HandleClientEvent, clientVars
  <2>2. events' \in Seq(ClientEvents)
    BY <1>1, <2>1, ElemsTail
  <2> QED BY <1>1, <1>3, <2>1, <2>2
<1>11. CASE WaitForRate \/ ConnectFails \/ ClientGone \/ BackoffDrains \/ BackoffEnds \/ CooldownPasses
  BY <1>1, <1>3, <1>11 DEF WaitForRate, ConnectFails, ClientGone, BackoffDrains, BackoffEnds,
     CooldownPasses, clientVars
<1> QED BY <1>4, <1>5, <1>6, <1>7, <1>8, <1>9, <1>10, <1>11 DEF StratumNext, SourceSteps

\* What the pool answers.
LEMMA AnswerCases ==
    ASSUME StratumTypes, PoolAnswers
    PROVE  LET r == Head(toPool)
           IN  /\ toPool # <<>> /\ toPool' = Tail(toPool) /\ r \in PoolRequests /\ r \in Elems(toPool)
               /\ \/ /\ \E m \in Masks : toClient' = Append(toClient, Response(r.id, "yes", m))
                     /\ accepted' = IF r.method = "submit" THEN accepted \cup {r.share.n} ELSE accepted
                     /\ subscribed' = (subscribed \/ r.method = "subscribe")
                  \/ /\ accepted' = accepted /\ subscribed' = subscribed
                     /\ \/ toClient' = toClient
                        \/ \E v \in {"no", "bad"} :
                              toClient' = Append(toClient, Response(r.id, v, None))
<1>1. toPool # <<>> /\ toPool' = Tail(toPool)
  BY DEF PoolAnswers
<1>2. Head(toPool) \in PoolRequests /\ Head(toPool) \in Elems(toPool)
  BY <1>1, ElemsTail DEF StratumTypes, PoolTypes
<1> DEFINE r == Head(toPool)
<1>3. \/ /\ \E m \in Masks : toClient' = Append(toClient, Response(r.id, "yes", m))
         /\ accepted' = IF r.method = "submit" THEN accepted \cup {r.share.n} ELSE accepted
         /\ subscribed' = (subscribed \/ r.method = "subscribe")
      \/ /\ accepted' = accepted /\ subscribed' = subscribed
         /\ \E v \in {"no", "bad"} :
               toClient' \in {Append(toClient, Response(r.id, v, None)), toClient}
  BY Zenon DEF PoolAnswers
<1> HIDE DEF r
<1>4. (\E v \in {"no", "bad"} : toClient' \in {Append(toClient, Response(r.id, v, None)), toClient})
        => \/ toClient' = toClient
           \/ \E v \in {"no", "bad"} : toClient' = Append(toClient, Response(r.id, v, None))
  BY Zenon
<1>5. \/ /\ \E m \in Masks : toClient' = Append(toClient, Response(r.id, "yes", m))
         /\ accepted' = IF r.method = "submit" THEN accepted \cup {r.share.n} ELSE accepted
         /\ subscribed' = (subscribed \/ r.method = "subscribe")
      \/ /\ accepted' = accepted /\ subscribed' = subscribed
         /\ \/ toClient' = toClient
            \/ \E v \in {"no", "bad"} : toClient' = Append(toClient, Response(r.id, v, None))
  BY <1>3, <1>4, Zenon
<1> QED BY <1>1, <1>2, <1>5, Zenon DEF r

LEMMA AnsweredLine ==
    ASSUME StratumTypes, NEW r \in PoolRequests, NEW v \in {"yes", "no", "bad"}, NEW m \in OptMask
    PROVE  /\ Response(r.id, v, m) \in Lines /\ Response(r.id, v, m).type = "response"
           /\ Response(r.id, v, m).id = r.id /\ Response(r.id, v, m).val = v
           /\ Append(toClient, Response(r.id, v, m)) \in Seq(Lines)
           /\ Elems(Append(toClient, Response(r.id, v, m))) = Elems(toClient) \cup {Response(r.id, v, m)}
<1>1. r.id \in Nat
  BY DEF PoolRequests
<1>2. /\ Response(r.id, v, m) \in Lines /\ Response(r.id, v, m).type = "response"
      /\ Response(r.id, v, m).id = r.id /\ Response(r.id, v, m).val = v
  BY <1>1, LineTypes
<1>3. toClient \in Seq(Lines)
  BY DEF StratumTypes, PoolTypes
<1> QED BY <1>2, <1>3, ElemsAppend

\* What the pool says by itself.
LEMMA SaysCases ==
    ASSUME StratumTypes, PoolNotifies \/ PoolSets \/ PoolDisturbs
    PROVE  /\ UNCHANGED <<toPool, accepted, subscribed, open>>
           /\ \E x \in Lines : /\ toClient' = Append(toClient, x) /\ x.type # "response"
                               /\ PoolNotifies => /\ x.type = "notify" /\ x.n = left.jobs
                               /\ ~PoolNotifies => x.type # "notify" /\ announced' = announced
                               /\ x.type # "diff" => poolDiff' = poolDiff
                               /\ x.type = "diff" =>
                                    /\ x.d \in Diffs /\ x = SetDifficulty(x.d)
                                    /\ poolDiff' = IF subscribed THEN x.d ELSE None
<1>1. left.jobs \in Nat
  BY DEF StratumTypes, PoolTypes, BudgetType
<1>2. CASE PoolNotifies
  <2>1. PICK c \in BOOLEAN : PoolSays(Notify(left.jobs, c))
    BY <1>2 DEF PoolNotifies
  <2> DEFINE x == Notify(left.jobs, c)
  <2>2. x \in Lines /\ x.type = "notify" /\ x.n = left.jobs
    BY <1>1, LineTypes
  <2>3. toClient' = Append(toClient, x) /\ UNCHANGED <<toPool, accepted, subscribed, open>>
    BY <2>1 DEF PoolSays
  <2>4. poolDiff' = poolDiff
    BY <1>2 DEF PoolNotifies
  <2> HIDE DEF x
  <2> QED BY <1>2, <2>2, <2>3, <2>4
<1>3. CASE ~PoolNotifies /\ PoolSets /\ \E d \in Diffs : /\ PoolSays(SetDifficulty(d))
                                         /\ poolDiff' = IF subscribed THEN d ELSE None
  <2>1. PICK d \in Diffs : PoolSays(SetDifficulty(d)) /\ poolDiff' = IF subscribed THEN d ELSE None
    BY <1>3
  <2> DEFINE x == SetDifficulty(d)
  <2>2. x \in Lines /\ x.type = "diff" /\ x.d = d
    BY LineTypes
  <2>3. toClient' = Append(toClient, x) /\ UNCHANGED <<toPool, accepted, subscribed, open>>
    BY <2>1 DEF PoolSays
  <2>4. announced' = announced
    BY <1>3 DEF PoolSets
  <2>5. x = SetDifficulty(x.d)
    BY <2>2
  <2> HIDE DEF x
  <2> QED BY <1>3, <2>1, <2>2, <2>3, <2>4, <2>5
<1>4. CASE ~PoolNotifies /\ PoolSets /\ \E m \in Masks : PoolSays(SetVersionMask(m)) /\ UNCHANGED poolDiff
  <2>1. PICK m \in Masks : PoolSays(SetVersionMask(m)) /\ UNCHANGED poolDiff
    BY <1>4
  <2> DEFINE x == SetVersionMask(m)
  <2>2. x \in Lines /\ x.type = "mask"
    BY LineTypes
  <2>3. toClient' = Append(toClient, x) /\ UNCHANGED <<toPool, accepted, subscribed, open>>
    BY <2>1 DEF PoolSays
  <2>4. announced' = announced
    BY <1>4 DEF PoolSets
  <2> HIDE DEF x
  <2> QED BY <1>4, <2>1, <2>2, <2>3, <2>4
<1>5. CASE ~PoolNotifies /\ PoolDisturbs
  <2>1. PICK x \in {Reconnect, Odd, Garbage} : PoolSays(x)
    BY <1>5 DEF PoolDisturbs
  <2>2. x \in Lines /\ x.type \in {"reconnect", "odd", "garbage"}
    BY LineTypes
  <2>3. toClient' = Append(toClient, x) /\ UNCHANGED <<toPool, accepted, subscribed, open>>
    BY <2>1 DEF PoolSays
  <2>4. announced' = announced /\ poolDiff' = poolDiff
    BY <1>5 DEF PoolDisturbs
  <2> QED BY <1>5, <2>2, <2>3, <2>4
<1> QED BY <1>2, <1>3, <1>4, <1>5 DEF PoolSets

LEMMA PoolTypesStep == ASSUME StratumTypes, [StratumNext]_stratumVars PROVE PoolTypes'
<1>1. /\ PoolTypes /\ toPool \in Seq(PoolRequests) /\ toClient \in Seq(Lines) /\ left \in BudgetType
      /\ ClientTypes
  BY DEF StratumTypes, PoolTypes
<1>2. left' \in BudgetType
  <2>1. CASE StratumNext
    BY <1>1, <2>1, LeftStep
  <2>2. CASE UNCHANGED stratumVars
    BY <1>1, <2>2 DEF stratumVars
  <2> QED BY <2>1, <2>2
<1>3. ASSUME UNCHANGED <<session, open, poolDiff, subscribed, announced, lost, foreign>>,
             toPool' \in Seq(PoolRequests), toClient' \in Seq(Lines)
      PROVE  PoolTypes'
  BY <1>1, <1>2, <1>3 DEF PoolTypes
<1>4. CASE SchedulerSteps \/ SourceMoves \/ UNCHANGED stratumVars
  BY <1>1, <1>3, <1>4, SchedFrame, SourceFrame DEF linkVars, poolVars, stratumVars
<1>5. CASE Connect
  <2>1. /\ session' = session + 1 /\ open' = TRUE /\ toClient' = <<>> /\ poolDiff' = None
        /\ toPool' = <<Request("configure", 1, None)>> /\ subscribed' = FALSE
        /\ UNCHANGED <<announced, lost, foreign>>
    BY <1>5 DEF Connect
  <2>2. Request("configure", 1, None) \in PoolRequests
    <3>1. "configure" \in Requests
      BY DEF Requests, Handshake
    <3> QED BY <3>1, RequestType
  <2>3. toPool' \in Seq(PoolRequests) /\ toClient' \in Seq(Lines)
    BY <2>1, <2>2
  <2>4. open' \in BOOLEAN /\ subscribed' \in BOOLEAN /\ lost' \in BOOLEAN /\ foreign' \in BOOLEAN
    BY <1>1, <2>1 DEF PoolTypes
  <2>5. session' \in Nat /\ poolDiff' \in OptDiff /\ announced' \subseteq Announcements
    BY <1>1, <2>1 DEF PoolTypes, OptDiff
  <2> QED BY <1>2, <2>3, <2>4, <2>5 DEF PoolTypes
<1>6. CASE ClientSteps
  <2>1. toPool' \in Seq(PoolRequests) /\ toClient' \in Seq(Lines)
    BY <1>6, ClientStepTypes
  <2>2. UNCHANGED <<session, open, poolDiff, subscribed, announced>>
    BY <1>6, ClientFrame DEF clientRest, poolVars
  <2>3. lost' \in BOOLEAN /\ foreign' \in BOOLEAN
    <3>1. lost \in BOOLEAN /\ foreign \in BOOLEAN
      BY <1>1 DEF PoolTypes
    <3>2. CASE RequestTimesOut
      <4>1. lost' = (lost \/ partial) /\ foreign' = foreign
        BY <3>2 DEF RequestTimesOut, DropRead
      <4> QED BY <3>1, <4>1
    <3>3. CASE TakeCommand
      <4>1. lost' = (lost \/ partial)
        BY <3>3 DEF TakeCommand, DropRead
      <4>2. foreign' = foreign \/ foreign' = (foreign \/ Head(commands).share.job.ses # session)
        BY <3>3, CommandCases
      <4> QED BY <3>1, <4>1, <4>2
    <3>4. CASE ReadStray \/ ReadReconnect \/ ReadGarbage \/ ReadEof \/ ReadPart
      BY <3>1, <3>4, OtherCases
    <3>5. CASE ReadNotification
      BY <3>1, <3>5, NotificationCases
    <3>6. CASE ReadResponse
      BY <3>1, <3>6 DEF ReadResponse, ReadLine
    <3> QED BY <1>6, <3>2, <3>3, <3>4, <3>5, <3>6 DEF ClientSteps
  <2>4. open' \in BOOLEAN /\ subscribed' \in BOOLEAN
    BY <1>1, <2>2 DEF PoolTypes
  <2>5. session' \in Nat /\ poolDiff' \in OptDiff /\ announced' \subseteq Announcements
    BY <1>1, <2>2 DEF PoolTypes
  <2> QED BY <1>2, <2>1, <2>3, <2>4, <2>5 DEF PoolTypes
<1>7. CASE PoolAnswers
  <2> DEFINE r == Head(toPool)
  <2>1. /\ toPool # <<>> /\ toPool' = Tail(toPool) /\ r \in PoolRequests
        /\ \/ /\ \E m \in Masks : toClient' = Append(toClient, Response(r.id, "yes", m))
              /\ subscribed' = (subscribed \/ r.method = "subscribe")
           \/ /\ subscribed' = subscribed
              /\ \/ toClient' = toClient
                 \/ \E v \in {"no", "bad"} : toClient' = Append(toClient, Response(r.id, v, None))
    BY <1>7, AnswerCases, Zenon
  <2> HIDE DEF r
  <2>2. toPool' \in Seq(PoolRequests)
    BY <1>1, <2>1, ElemsTail
  <2>3. subscribed \in BOOLEAN
    BY <1>1 DEF PoolTypes
  <2>4. subscribed' \in BOOLEAN
    BY <2>1, <2>3
  <2>5. \A v \in {"yes", "no", "bad"}, m \in OptMask :
          Append(toClient, Response(r.id, v, m)) \in Seq(Lines)
    BY <2>1, AnsweredLine
  <2>6. toClient' \in Seq(Lines)
    <3>1. None \in OptMask /\ Masks \subseteq OptMask
      BY DEF OptMask
    <3> QED BY <1>1, <2>1, <2>5, <3>1
  <2>7. UNCHANGED <<session, open, poolDiff, announced, lost, foreign>>
    BY <1>7 DEF PoolAnswers, poolRest
  <2> QED BY <1>1, <1>2, <2>2, <2>4, <2>6, <2>7 DEF PoolTypes
<1>8. CASE PoolNotifies \/ PoolSets \/ PoolDisturbs
  <2>1. UNCHANGED <<session, lost, foreign>>
    BY <1>8, PoolFrame DEF PoolSteps
  <2>2. PICK x \in Lines : /\ toClient' = Append(toClient, x) /\ UNCHANGED <<toPool, subscribed, open>>
                           /\ poolDiff' = poolDiff \/ poolDiff' \in Diffs \/ poolDiff' = None
    BY <1>8, SaysCases
  <2>3. toClient' \in Seq(Lines)
    BY <1>1, <2>2, ElemsAppend
  <2>4. poolDiff' \in OptDiff
    BY <1>1, <2>2 DEF PoolTypes, OptDiff
  <2>5. announced' \subseteq Announcements
    <3>1. CASE PoolNotifies
      <4>1. announced' = announced \cup {[n |-> left.jobs, ses |-> session, diff |-> poolDiff]}
        BY <3>1 DEF PoolNotifies
      <4>2. left.jobs \in Nat /\ session \in Nat /\ poolDiff \in OptDiff
        BY <1>1 DEF PoolTypes, BudgetType
      <4>3. [n |-> left.jobs, ses |-> session, diff |-> poolDiff] \in Announcements
        BY <4>2 DEF Announcements
      <4> QED BY <1>1, <4>1, <4>3 DEF PoolTypes
    <3>2. CASE PoolSets \/ PoolDisturbs
      BY <1>1, <3>2 DEF PoolSets, PoolDisturbs, PoolTypes
    <3> QED BY <1>8, <3>1, <3>2
  <2> QED BY <1>1, <1>2, <2>1, <2>2, <2>3, <2>4, <2>5 DEF PoolTypes
<1>9. CASE PoolCloses
  <2>1. /\ open' = FALSE /\ toClient' \in {toClient, <<>>}
        /\ UNCHANGED <<session, toPool, poolDiff, subscribed, announced, lost, foreign>>
    BY <1>9 DEF PoolCloses, poolVars
  <2>2. toClient' \in Seq(Lines)
    <3>1. <<>> \in Seq(Lines)
      OBVIOUS
    <3>2. toClient' = toClient \/ toClient' = <<>>
      BY <2>1
    <3> QED BY <1>1, <3>1, <3>2, Zenon
  <2>3. open' \in BOOLEAN
    BY <2>1
  <2> QED BY <1>1, <1>2, <2>1, <2>2, <2>3 DEF PoolTypes
<1> QED
  BY <1>4, <1>5, <1>6, <1>7, <1>8, <1>9 DEF StratumNext, SourceSteps, SourceMoves, PoolSteps

LEMMA TypesStep == ASSUME StratumTypes, [StratumNext]_stratumVars PROVE StratumTypes'
BY SchedTypesStep, SourceTypesStep, ClientTypesStep, PoolTypesStep DEF StratumTypes

-----------------------------------------------------------------------------
(* What the steps do to the queues.                                        *)

\* The scheduler takes an event.
LEMMA TakeCases ==
    ASSUME StratumTypes, SchedulerTakes
    PROVE  /\ tx # <<>> /\ tx' = Tail(tx) /\ rx' = rx /\ left' = left
           /\ Head(tx) \in SourceEvents /\ Head(tx) \in Elems(tx)
           /\ Head(tx).type \in {"update", "replace", "clear"}
           /\ Head(tx).type = "clear" => known' = {}
           /\ Head(tx).type = "update" => known' = known \cup {Head(tx).job}
           /\ Head(tx).type = "replace" => known' = {Head(tx).job}
           /\ Elems(tx') \subseteq Elems(tx)
<1>1. tx # <<>> /\ tx' = Tail(tx) /\ rx' = rx /\ left' = left
  BY DEF SchedulerTakes, quiet
<1>2. /\ Head(tx) \in SourceEvents /\ Head(tx) \in Elems(tx) /\ Elems(tx') \subseteq Elems(tx)
  BY <1>1, ElemsTail DEF StratumTypes, SchedTypes
<1> DEFINE e == Head(tx)
<1>3. e.type \in {"update", "replace", "clear"}
  BY <1>2 DEF SourceEvents
<1>4. known' = CASE e.type = "update"  -> known \cup {e.job}
                 [] e.type = "replace" -> {e.job}
                 [] e.type = "clear"   -> {}
  BY DEF SchedulerTakes
<1> HIDE DEF e
<1>5. /\ e.type = "clear" => known' = {}
      /\ e.type = "update" => known' = known \cup {e.job}
      /\ e.type = "replace" => known' = {e.job}
  BY <1>3, <1>4
<1> QED BY <1>1, <1>2, <1>3, <1>5 DEF e

\* The source handles an event of its client; a job becomes a template.
LEMMA HandleCases ==
    ASSUME StratumTypes, HandleClientEvent
    PROVE  LET e == Head(events)
           IN  /\ src = "run" /\ src' = src /\ events # <<>> /\ events' = Tail(events)
               /\ e \in ClientEvents /\ e \in Elems(events) /\ Elems(events') \subseteq Elems(events)
               /\ state' = StateAfter(e)
               /\ counted' = IF e.type = "accepted" THEN counted \cup {e.n} ELSE counted
               /\ UNCHANGED <<rx, known, left, commands>>
               /\ \/ tx' = tx
                  \/ \E x \in SourceEvents :
                       /\ tx' = Append(tx, x) /\ Elems(tx') = Elems(tx) \cup {x}
                       /\ x.type # "clear" /\ e.type = "notify"
                       /\ state \in ProtocolStates /\ state.en1 \in Nat
                       /\ x.job.n = e.n /\ x.job.ses = state.en1 /\ x.job.diff = state.diff
<1>1. /\ src = "run" /\ src' = src /\ events # <<>> /\ events' = Tail(events)
      /\ UNCHANGED <<rx, known, left, commands>>
  BY DEF HandleClientEvent
<1>2. /\ Head(events) \in ClientEvents /\ Head(events) \in Elems(events)
      /\ Elems(events') \subseteq Elems(events)
  BY <1>1, ElemsTail DEF StratumTypes, ClientTypes
<1> DEFINE e == Head(events)
<1>3. /\ state' = StateAfter(e)
      /\ counted' = IF e.type = "accepted" THEN counted \cup {e.n} ELSE counted
  BY DEF HandleClientEvent
<1>4. ASSUME tx' # tx
      PROVE  \E x \in SourceEvents :
                /\ tx' = Append(tx, x) /\ Elems(tx') = Elems(tx) \cup {x}
                /\ x.type # "clear" /\ e.type = "notify"
                /\ state \in ProtocolStates /\ state.en1 \in Nat
                /\ x.job.n = e.n /\ x.job.ses = state.en1 /\ x.job.diff = state.diff
  <2> DEFINE j == [n |-> e.n, ses |-> state.en1, diff |-> state.diff, mask |-> state.mask]
  <2>1. /\ e.type = "notify" /\ TemplateBuilt(e)
        /\ tx' = Append(tx, [type |-> IF e.clean THEN "replace" ELSE "update", job |-> j])
    BY <1>4, Zenon DEF HandleClientEvent
  <2>2. e.n \in Nat
    BY <1>2, <2>1 DEF ClientEvents, Notifications
  <2> HIDE DEF e
  <2>3. state \in ProtocolStates /\ state.en1 \in Nat
    BY <2>1 DEF TemplateBuilt, ProtocolStates, StratumTypes, SourceTypes
  <2>4. j \in Jobs /\ j.n = e.n /\ j.ses = state.en1 /\ j.diff = state.diff
    BY <2>2, <2>3 DEF Jobs, ProtocolStates
  <2> HIDE DEF j
  <2>5. PICK y \in {"replace", "update"} : tx' = Append(tx, [type |-> y, job |-> j])
    <3>1. \/ tx' = Append(tx, [type |-> "replace", job |-> j])
          \/ tx' = Append(tx, [type |-> "update", job |-> j])
      BY <2>1, Zenon
    <3> QED BY <3>1, Zenon
  <2> DEFINE x == [type |-> y, job |-> j]
  <2>6. x \in SourceEvents /\ x.type # "clear" /\ x.job = j
    BY <2>4 DEF SourceEvents
  <2> HIDE DEF x
  <2>7. tx' = Append(tx, x)
    BY <2>5 DEF x
  <2>8. Elems(tx') = Elems(tx) \cup {x}
    BY <2>6, <2>7, ElemsAppend DEF StratumTypes, SchedTypes
  <2> QED BY <2>1, <2>3, <2>4, <2>6, <2>7, <2>8, Zenon
<1> QED BY <1>1, <1>2, <1>3, <1>4, Zenon

\* What a step of the client emits.
LEMMA EmitCases ==
    ASSUME StratumTypes, ClientSteps
    PROVE  /\ pc # "ended"
           /\ \/ events' = events
              \/ \E e \in ClientEvents :
                   /\ events' = Append(events, e) /\ Elems(events') = Elems(events) \cup {e}
                   /\ e.type = "subscribed" => e.session = session
                   /\ e.type = "accepted" =>
                        /\ pc = "submit" /\ toClient # <<>> /\ e.n = share.n
                        /\ Head(toClient).type = "response" /\ Head(toClient).id = reqId
                        /\ Head(toClient).val = "yes"
                   /\ e.type \in {"notify", "diff"} =>
                        toClient # <<>> /\ e = Head(toClient)
<1>1. /\ toClient \in Seq(Lines) /\ events \in Seq(ClientEvents) /\ session \in Nat /\ ClientTypes
  BY DEF StratumTypes, PoolTypes, ClientTypes
<1> DEFINE Right(e) ==
             /\ e.type = "subscribed" => e.session = session
             /\ e.type = "accepted" =>
                  /\ pc = "submit" /\ toClient # <<>> /\ e.n = share.n
                  /\ Head(toClient).type = "response" /\ Head(toClient).id = reqId
                  /\ Head(toClient).val = "yes"
             /\ e.type \in {"notify", "diff"} => toClient # <<>> /\ e = Head(toClient)
<1>2. ASSUME NEW e \in ClientEvents, events' = Append(events, e), Right(e)
      PROVE  \E x \in ClientEvents : /\ events' = Append(events, x)
                                     /\ Elems(events') = Elems(events) \cup {x} /\ Right(x)
  <2> HIDE DEF Right
  <2>1. Elems(events') = Elems(events) \cup {e}
    BY <1>1, <1>2, ElemsAppend
  <2> QED BY <1>2, <2>1, Zenon
<1> SUFFICES pc # "ended" /\ (\/ events' = events
                              \/ \E x \in ClientEvents : /\ events' = Append(events, x)
                                                         /\ Elems(events') = Elems(events) \cup {x}
                                                         /\ Right(x))
  BY Zenon
<1>3. pc # "ended"
  BY DEF ClientSteps, ReadPart, ReadResponse, ReadStray, ReadNotification, ReadReconnect,
     ReadGarbage, ReadEof, RequestTimesOut, TakeCommand, ReadLine, Requests, Handshake
<1>4. CASE ReadResponse
  <2> DEFINE m == Head(toClient)
  <2>1. toClient # <<>>
    BY <1>4 DEF ReadResponse, ReadLine
  <2>2. m \in Lines
    BY <1>1, <2>1, ElemsTail
  <2>3. /\ m.type = "response" /\ m.id = reqId
        /\ \/ events' = Append(events, [type |-> "configured",
                                        mask |-> IF m.val = "yes" THEN m.mask ELSE None])
           \/ events' = Append(events, [type |-> "subscribed", session |-> session])
           \/ /\ pc = "submit"
              /\ \/ m.val = "yes" /\ events' = Append(events, [type |-> "accepted", n |-> share.n])
                 \/ events' = Append(events, [type |-> "rejected", n |-> share.n])
           \/ events' = events
    BY <1>4, ResponseCases, Zenon
  <2>4. CASE events' = Append(events, [type |-> "configured",
                                       mask |-> IF m.val = "yes" THEN m.mask ELSE None])
    <3> DEFINE e == [type |-> "configured", mask |-> IF m.val = "yes" THEN m.mask ELSE None]
    <3>1. (IF m.val = "yes" THEN m.mask ELSE None) \in OptMask
      BY <2>2, <2>3, LineKinds DEF OptMask
    <3>2. e \in ClientEvents
      BY <3>1, MadeTypes
    <3>3. Right(e)
      OBVIOUS
    <3> HIDE DEF Right
    <3> QED BY <1>2, <1>3, <2>4, <3>2, <3>3
  <2>5. CASE events' = Append(events, [type |-> "subscribed", session |-> session])
    <3> DEFINE e == [type |-> "subscribed", session |-> session]
    <3>1. e \in ClientEvents
      BY <1>1, MadeTypes
    <3>2. Right(e)
      OBVIOUS
    <3> HIDE DEF Right
    <3> QED BY <1>2, <1>3, <2>5, <3>1, <3>2
  <2>6. CASE pc = "submit" /\ m.val = "yes" /\ events' = Append(events, [type |-> "accepted", n |-> share.n])
    <3> DEFINE e == [type |-> "accepted", n |-> share.n]
    <3>1. share.n \in Nat
      BY <1>1, <2>6 DEF ClientTypes, Shares
    <3>2. e \in ClientEvents
      BY <3>1, MadeTypes
    <3>3. Right(e)
      BY <2>1, <2>3, <2>6
    <3> HIDE DEF Right
    <3> QED BY <1>2, <2>6, <3>2, <3>3
  <2>7. CASE pc = "submit" /\ events' = Append(events, [type |-> "rejected", n |-> share.n])
    <3> DEFINE e == [type |-> "rejected", n |-> share.n]
    <3>1. share.n \in Nat
      BY <1>1, <2>7 DEF ClientTypes, Shares
    <3>2. e \in ClientEvents
      BY <3>1, MadeTypes
    <3>3. Right(e)
      OBVIOUS
    <3> HIDE DEF Right
    <3> QED BY <1>2, <2>7, <3>2, <3>3
  <2> QED BY <1>3, <2>3, <2>4, <2>5, <2>6, <2>7, Zenon
<1>5. CASE ReadNotification
  <2> DEFINE e == Head(toClient)
  <2>1. toClient # <<>> /\ e.type \in {"notify", "diff", "mask"} /\ events' = Append(events, e)
    BY <1>5, NotificationCases
  <2>2. e \in Lines
    BY <1>1, <2>1, ElemsTail
  <2>3. e \in ClientEvents
    BY <2>1, <2>2, LineKinds
  <2>4. Right(e)
    BY <2>1
  <2> HIDE DEF Right, e
  <2> QED BY <1>2, <1>3, <2>1, <2>3, <2>4
<1>6. CASE RequestTimesOut
  <2> DEFINE e == [type |-> "configured", mask |-> None]
  <2>1. events' = events \/ events' = Append(events, e)
    BY <1>6, TimeoutCases, Zenon
  <2>2. e \in ClientEvents
    BY MadeTypes DEF OptMask
  <2>3. Right(e)
    OBVIOUS
  <2> HIDE DEF Right, e
  <2> QED BY <1>2, <1>3, <2>1, <2>2, <2>3
<1>7. CASE ReadStray \/ ReadReconnect \/ ReadGarbage \/ ReadEof \/ ReadPart
  BY <1>3, <1>7, OtherCases
<1>8. CASE TakeCommand
  BY <1>3, <1>8, CommandCases
<1> QED BY <1>4, <1>5, <1>6, <1>7, <1>8 DEF ClientSteps

-----------------------------------------------------------------------------
(* The sessions: the jobs of a dead connection are withdrawn.              *)

\* Every job the scheduler has, or will have taken, is void.
Withdrawn == IF tx = <<>> THEN known = {} ELSE tx[Len(tx)].type = "clear"

SessionInv ==
    /\ src = "run" => session # 0
    /\ pc # "ended" => src = "run"
    /\ src \in {"wait", "connect", "backoff"} => Withdrawn
    /\ state # None => state.en1 \in {None, session} /\ session # 0
    /\ \A e \in Elems(events) : e.type = "subscribed" => e.session = session
    /\ \A e \in Elems(tx) : e.type # "clear" => e.job.ses \in 1..session
    /\ \A j \in known : j.ses \in 1..session

LEMMA WithdrawnClear ==
    ASSUME tx \in Seq(SourceEvents), tx' = ClearJobs(tx)
    PROVE  Withdrawn' /\ tx' \in Seq(SourceEvents) /\ Elems(tx') = Elems(tx) \cup {[type |-> "clear"]}
<1> DEFINE x == [type |-> "clear"]
<1>1. x \in SourceEvents /\ x.type = "clear"
  BY MadeTypes
<1>2. tx' = Append(tx, x)
  BY DEF ClearJobs
<1> HIDE DEF x
<1>3. /\ tx' \in Seq(SourceEvents) /\ tx' # <<>> /\ Len(tx') = Len(tx) + 1 /\ tx'[Len(tx) + 1] = x
      /\ Elems(tx') = Elems(tx) \cup {x}
  BY <1>1, <1>2, AppendAt, ElemsAppend
<1>4. Withdrawn'
  BY <1>1, <1>3 DEF Withdrawn
<1> QED BY <1>3, <1>4 DEF x

LEMMA WithdrawnTake ==
    ASSUME StratumTypes, Withdrawn, SchedulerTakes
    PROVE  Withdrawn'
<1>1. /\ tx # <<>> /\ tx' = Tail(tx) /\ tx \in Seq(SourceEvents)
      /\ Head(tx).type = "clear" => known' = {}
  BY TakeCases DEF StratumTypes, SchedTypes
<1>2. tx[Len(tx)].type = "clear"
  BY <1>1 DEF Withdrawn
<1>3. CASE tx' = <<>>
  <2>1. tx[Len(tx)] = Head(tx)
    <3>1. Len(tx') = Len(tx) - 1 /\ tx[1] = Head(tx)
      BY <1>1, TailAt
    <3>3. Len(tx) \in Nat
      BY <1>1
    <3>4. Len(tx') = 0
      BY <1>3
    <3>2. Len(tx) = 1
      BY <3>1, <3>3, <3>4
    <3> QED BY <3>1, <3>2
  <2> QED BY <1>1, <1>2, <1>3, <2>1 DEF Withdrawn
<1>4. CASE tx' # <<>>
  <2>1. tx'[Len(tx')] = tx[Len(tx)]
    BY <1>1, <1>4
  <2> QED BY <1>2, <1>4, <2>1 DEF Withdrawn
<1> QED BY <1>3, <1>4

\* The state keeps the extranonce1 of the session.
LEMMA StateSession ==
    ASSUME NEW e, state \in ProtocolStates \cup {None}, None \notin ProtocolStates,
           state # None => state.en1 \in {None, session},
           e.type = "subscribed" => e.session = session, StateAfter(e) # None
    PROVE  StateAfter(e).en1 \in {None, session}
<1>1. CASE e.type = "configured"
  BY <1>1 DEF StateAfter, ProtocolStates
<1>2. CASE e.type = "subscribed"
  BY <1>2 DEF StateAfter, ProtocolStates
<1>3. CASE e.type = "diff" \/ e.type = "mask"
  BY <1>3 DEF StateAfter, ProtocolStates
<1>4. CASE e.type \notin {"configured", "subscribed", "diff", "mask"}
  BY <1>4 DEF StateAfter
<1> QED BY <1>1, <1>2, <1>3, <1>4

LEMMA SessionInit == StratumInit => SessionInv
<1> SUFFICES ASSUME StratumInit PROVE SessionInv
  OBVIOUS
<1>1. tx = <<>> /\ events = <<>> /\ known = {} /\ src = "wait" /\ pc = "ended" /\ state = None
  BY DEF StratumInit
<1>2. Elems(tx) = {} /\ Elems(events) = {}
  BY <1>1, ElemsEmpty
<1> QED BY <1>1, <1>2 DEF SessionInv, Withdrawn

LEMMA SessionStep == ASSUME StratumTypes, SessionInv, [StratumNext]_stratumVars PROVE SessionInv'
<1>1. /\ tx \in Seq(SourceEvents) /\ events \in Seq(ClientEvents) /\ session \in Nat
      /\ state \in ProtocolStates \cup {None} /\ None \notin ProtocolStates
  BY StratumConstants DEF StratumTypes, SchedTypes, ClientTypes, PoolTypes, SourceTypes
<1>2. ASSUME UNCHANGED <<schedVars, sourceVars, events, pc, session>> PROVE SessionInv'
  BY <1>2 DEF SessionInv, schedVars, sourceVars, Withdrawn, Elems
<1>3. CASE SchedulerTakes
  <2>1. UNCHANGED <<src, pc, state, session, events>>
    BY <1>3 DEF SchedulerTakes, sourceVars, clientVars, linkVars
  <2>2. src' \in {"wait", "connect", "backoff"} => Withdrawn'
    BY <1>3, <2>1, WithdrawnTake DEF SessionInv
  <2>3. /\ \A e \in Elems(tx') : e.type # "clear" => e.job.ses \in 1..session
        /\ \A j \in known' : j.ses \in 1..session
    <3> HIDE DEF Elems
    <3>1. /\ Head(tx) \in Elems(tx) /\ Elems(tx') \subseteq Elems(tx)
          /\ Head(tx).type = "clear" => known' = {}
          /\ Head(tx).type # "clear" => known' \subseteq known \cup {Head(tx).job}
      BY <1>3, TakeCases
    <3> QED BY <3>1 DEF SessionInv
  <2> QED BY <2>1, <2>2, <2>3 DEF SessionInv
<1>4. CASE SchedulerSubmits \/ SchedulerAnnounces
  BY <1>4 DEF SchedulerSubmits, SchedulerAnnounces, SessionInv, Withdrawn, sourceVars, clientVars,
     linkVars
<1>5. CASE Connect
  <2>1. /\ src = "connect" /\ src' = "run" /\ state' = None /\ session' = session + 1
        /\ events' = <<>> /\ tx' = tx /\ known' = known
    BY <1>5 DEF Connect, StateAtConnect, schedVars
  <2>2. Elems(events') = {}
    BY <2>1, ElemsEmpty
  <2>3. 1..session \subseteq 1..session'
    BY <1>1, <2>1
  <2>4. session' # 0
    BY <1>1, <2>1
  <2> QED BY <2>1, <2>2, <2>3, <2>4 DEF SessionInv
<1>6. CASE SourceMoves
  <2>1. UNCHANGED <<known, pc, session>>
    BY <1>6, SourceFrame DEF clientVars, linkVars
  <2>2. CASE HandleClientEvent
    <3> DEFINE e == Head(events)
    <3>1. /\ src = "run" /\ src' = src /\ state' = StateAfter(e)
          /\ e \in Elems(events) /\ Elems(events') \subseteq Elems(events)
          /\ \/ tx' = tx
             \/ \E x \in SourceEvents :
                  /\ Elems(tx') = Elems(tx) \cup {x}
                  /\ state \in ProtocolStates /\ state.en1 \in Nat /\ x.job.ses = state.en1
      BY <2>2, HandleCases, Zenon
    <3> HIDE DEF e
    <3>2. state' # None => state'.en1 \in {None, session}
      BY <1>1, <3>1, StateSession DEF SessionInv
    <3>3. \A y \in Elems(tx') : y.type # "clear" => y.job.ses \in 1..session
      <4>1. CASE tx' = tx
        BY <4>1 DEF SessionInv
      <4>2. CASE tx' # tx
        <5>1. PICK x \in SourceEvents :
                  /\ Elems(tx') = Elems(tx) \cup {x}
                  /\ state \in ProtocolStates /\ state.en1 \in Nat /\ x.job.ses = state.en1
          BY <3>1, <4>2
        <5>2. state # None /\ None \notin Nat
          BY <1>1, <5>1, StratumConstants
        <5>3. x.job.ses = session /\ session # 0
          BY <3>1, <5>1, <5>2 DEF SessionInv
        <5>4. session \in 1..session
          BY <1>1, <5>3
        <5> QED BY <5>1, <5>3, <5>4 DEF SessionInv
      <4> QED BY <4>1, <4>2
    <3> QED BY <2>1, <3>1, <3>2, <3>3 DEF SessionInv
  <2>3. CASE ConnectFails \/ (ClientGone /\ result # "fatal")
    <3>1. /\ src' = "backoff" /\ tx' = ClearJobs(tx) /\ events' = events
          /\ (state' = state \/ state' = None) /\ pc = "ended"
      BY <2>3 DEF ConnectFails, ClientGone, StateAtConnect, SessionInv
    <3>2. Withdrawn' /\ Elems(tx') = Elems(tx) \cup {[type |-> "clear"]}
      BY <1>1, <3>1, WithdrawnClear
    <3> QED BY <2>1, <3>1, <3>2 DEF SessionInv
  <2>4. CASE ClientGone /\ result = "fatal"
    <3>1. src' = "exited" /\ tx' = tx /\ events' = events /\ state' = state /\ pc = "ended"
      BY <2>4 DEF ClientGone
    <3> QED BY <2>1, <3>1 DEF SessionInv
  <2>5. CASE WaitForRate \/ BackoffDrains \/ BackoffEnds
    <3>1. /\ src \in {"wait", "backoff"} /\ src' \in {"wait", "backoff", "connect"}
          /\ UNCHANGED <<tx, events, state>>
      BY <2>5 DEF WaitForRate, BackoffDrains, BackoffEnds, schedVars
    <3> QED BY <2>1, <3>1 DEF SessionInv, Withdrawn
  <2>6. CASE SourceRate \/ CooldownPasses \/ CooldownFlush \/ SourceSubmit
    <3>1. UNCHANGED <<src, tx, events, state>>
      BY <2>6 DEF SourceRate, CooldownPasses, CooldownFlush, SourceSubmit, schedVars, sourceVars
    <3> QED BY <2>1, <3>1 DEF SessionInv, Withdrawn
  <2> QED BY <1>6, <2>2, <2>3, <2>4, <2>5, <2>6 DEF SourceMoves
<1>7. CASE ClientSteps
  <2>1. UNCHANGED <<tx, known, src, state, session>>
    BY <1>7, ClientFrame DEF clientRest, schedVars, sourceVars
  <2>2. src = "run"
    BY <1>7, EmitCases DEF SessionInv
  <2>3. \A e \in Elems(events') : e.type = "subscribed" => e.session = session
    <3>1. CASE events' = events
      BY <3>1 DEF SessionInv
    <3>2. CASE events' # events
      <4>1. PICK e \in ClientEvents : /\ Elems(events') = Elems(events) \cup {e}
                                      /\ e.type = "subscribed" => e.session = session
        BY <1>7, <3>2, EmitCases, Zenon
      <4> QED BY <4>1 DEF SessionInv
    <3> QED BY <3>1, <3>2
  <2> QED BY <2>1, <2>2, <2>3 DEF SessionInv
<1>8. CASE PoolSteps
  BY <1>2, <1>8, PoolFrame
<1>9. CASE UNCHANGED stratumVars
  BY <1>2, <1>9 DEF stratumVars, clientVars, linkVars
<1> QED
  BY <1>3, <1>4, <1>5, <1>6, <1>7, <1>8, <1>9
     DEF StratumNext, SchedulerSteps, SourceSteps, SourceMoves

\* SessionInv holds in every state.
LEMMA SessionHolds == StratumSpec => [](StratumTypes /\ SessionInv)
<1>1. StratumInit => StratumTypes /\ SessionInv
  BY TypesInit, SessionInit
<1>2. ASSUME StratumTypes /\ SessionInv, [StratumNext]_stratumVars PROVE (StratumTypes /\ SessionInv)'
  BY <1>2, TypesStep, SessionStep
<1> QED BY <1>1, <1>2, PTL DEF StratumSpec

-----------------------------------------------------------------------------
(* What the scheduler sees is a JobSource.                                 *)

\* The refinement mapping: an event is its session, 0 for ClearJobs.
Mark(e) == IF e.type = "clear" THEN 0 ELSE e.job.ses
Out(s)  == [i \in DOMAIN s |-> Mark(s[i])]
Has     == {j.ses : j \in known}

LEMMA MarkType == ASSUME NEW e \in SourceEvents PROVE Mark(e) \in Nat
BY DEF Mark, SourceEvents, Jobs

LEMMA OutType == ASSUME NEW s \in Seq(SourceEvents)
                 PROVE  Out(s) \in Seq(Nat) /\ Len(Out(s)) = Len(s) /\ DOMAIN Out(s) = DOMAIN s
<1>1. \A i \in DOMAIN s : Mark(s[i]) \in Nat
  BY MarkType
<1> QED BY <1>1 DEF Out

LEMMA OutAppend ==
    ASSUME NEW s \in Seq(SourceEvents), NEW e \in SourceEvents
    PROVE  Out(Append(s, e)) = Append(Out(s), Mark(e))
<1>1. /\ Append(s, e) \in Seq(SourceEvents) /\ Out(s) \in Seq(Nat) /\ Len(Out(s)) = Len(s)
      /\ Mark(e) \in Nat
  BY OutType, MarkType
<1>2. Out(Append(s, e)) \in Seq(Nat) /\ Len(Out(Append(s, e))) = Len(s) + 1
  <2> DEFINE u == Append(s, e)
  <2>1. u \in Seq(SourceEvents) /\ Len(u) = Len(s) + 1
    BY AppendAt
  <2> HIDE DEF u
  <2>2. Out(u) \in Seq(Nat) /\ Len(Out(u)) = Len(s) + 1
    BY <2>1, OutType
  <2> QED BY <2>2 DEF u
<1>3. ASSUME NEW i \in 1..(Len(s) + 1)
      PROVE  Out(Append(s, e))[i] = Append(Out(s), Mark(e))[i]
  <2>1. Out(Append(s, e))[i] = Mark(Append(s, e)[i])
    BY <1>1, <1>3 DEF Out
  <2>2. CASE i = Len(s) + 1
    BY <1>1, <2>1, <2>2
  <2>3. CASE i \in 1..Len(s)
    <3>1. Append(s, e)[i] = s[i] /\ Out(s)[i] = Mark(s[i])
      BY <2>3 DEF Out
    <3>2. Append(Out(s), Mark(e))[i] = Out(s)[i]
      BY <1>1, <2>3
    <3> QED BY <2>1, <3>1, <3>2
  <2>4. i = Len(s) + 1 \/ i \in 1..Len(s)
    <3>1. Len(s) \in Nat
      OBVIOUS
    <3> DEFINE n == Len(s)
    <3> HIDE DEF n
    <3>2. n \in Nat /\ i \in 1..(n + 1)
      BY <1>3, <3>1 DEF n
    <3>3. i = n + 1 \/ i \in 1..n
      BY <3>2
    <3> QED BY <3>3 DEF n
  <2> QED BY <2>2, <2>3, <2>4
<1>4. Append(Out(s), Mark(e)) \in Seq(Nat) /\ Len(Append(Out(s), Mark(e))) = Len(s) + 1
  BY <1>1
<1> QED
  <2> DEFINE u == Out(Append(s, e))
             v == Append(Out(s), Mark(e))
  <2>1. /\ u \in Seq(Nat) /\ v \in Seq(Nat) /\ Len(u) = Len(s) + 1 /\ Len(v) = Len(s) + 1
        /\ \A i \in 1..(Len(s) + 1) : u[i] = v[i]
    BY <1>2, <1>3, <1>4, Zenon
  <2> HIDE DEF u, v
  <2>2. u = v
    BY <2>1, SeqEqual
  <2> QED BY <2>2 DEF u, v

LEMMA OutTail ==
    ASSUME NEW s \in Seq(SourceEvents), s # <<>>
    PROVE  /\ Out(Tail(s)) = Tail(Out(s)) /\ Out(s) # <<>> /\ Head(Out(s)) = Mark(Head(s))
<1>1. /\ Tail(s) \in Seq(SourceEvents) /\ Len(Tail(s)) = Len(s) - 1 /\ 1 \in DOMAIN s
      /\ s[1] = Head(s) /\ Len(s) \in Nat
      /\ \A i \in DOMAIN Tail(s) : i + 1 \in DOMAIN s /\ Tail(s)[i] = s[i + 1]
  BY TailAt
<1>2. Out(s) \in Seq(Nat) /\ Len(Out(s)) = Len(s) /\ DOMAIN Out(s) = DOMAIN s
  BY OutType
<1>3. Out(s) # <<>>
  BY <1>1, <1>2
<1>4. /\ Tail(Out(s)) \in Seq(Nat) /\ Len(Tail(Out(s))) = Len(Out(s)) - 1 /\ Out(s)[1] = Head(Out(s))
      /\ \A i \in DOMAIN Tail(Out(s)) : Tail(Out(s))[i] = Out(s)[i + 1]
  BY <1>2, <1>3, TailAt
<1>5. Out(Tail(s)) \in Seq(Nat) /\ Len(Out(Tail(s))) = Len(Tail(s)) /\ DOMAIN Out(Tail(s)) = DOMAIN Tail(s)
  BY <1>1, OutType
<1>6. Head(Out(s)) = Mark(Head(s))
  BY <1>1, <1>4 DEF Out
<1>7. DOMAIN Tail(s) = 1..Len(Tail(s)) /\ DOMAIN Tail(Out(s)) = 1..Len(Tail(Out(s)))
  BY <1>1, <1>4
<1>8. ASSUME NEW i \in 1..Len(Tail(s)) PROVE Out(Tail(s))[i] = Tail(Out(s))[i]
  <2>1. i \in DOMAIN Tail(s) /\ i \in DOMAIN Tail(Out(s)) /\ i + 1 \in DOMAIN s
    BY <1>1, <1>2, <1>4, <1>7
  <2>2. Out(Tail(s))[i] = Mark(Tail(s)[i])
    BY <2>1 DEF Out
  <2>3. Tail(Out(s))[i] = Out(s)[i + 1] /\ Out(s)[i + 1] = Mark(s[i + 1])
    BY <1>4, <2>1 DEF Out
  <2> QED BY <1>1, <2>1, <2>2, <2>3
<1>9. Out(Tail(s)) = Tail(Out(s))
  <2>1. Len(Out(Tail(s))) = Len(Tail(Out(s)))
    BY <1>1, <1>2, <1>4, <1>5
  <2> QED BY <1>4, <1>5, <1>8, <2>1, SeqEqual
<1> QED BY <1>3, <1>6, <1>9

\* Nothing stands once the jobs are withdrawn.
LEMMA NothingStands ==
    ASSUME StratumTypes, Withdrawn PROVE Source!Standing = {}
<1>1. tx \in Seq(SourceEvents)
  BY DEF StratumTypes, SchedTypes
<1> DEFINE o == Out(tx)
           clears == {i \in DOMAIN o : o[i] = 0}
           after  == {i \in DOMAIN o : \A c \in clears : c < i}
<1>2. Source!Standing = {o[i] : i \in after} \cup (IF clears = {} THEN Has ELSE {})
  BY DEF Source!Standing, Out, Mark, Has
<1>3. CASE tx = <<>>
  <2>1. DOMAIN o = {}
    BY <1>3 DEF Out
  <2>2. Has = {}
    BY <1>3 DEF Withdrawn, Has
  <2> QED BY <1>2, <2>1, <2>2
<1>4. CASE tx # <<>>
  <2>1. Len(tx) \in DOMAIN tx /\ DOMAIN tx = 1..Len(tx) /\ Len(tx) \in Nat
    BY <1>1, <1>4
  <2>2. Len(tx) \in clears
    BY <1>4, <2>1 DEF Withdrawn, Out, Mark
  <2>3. DOMAIN o = 1..Len(tx)
    BY <2>1 DEF Out
  <2>4. after = {}
    <3> SUFFICES ASSUME NEW i \in after PROVE FALSE
      OBVIOUS
    <3>1. i \in 1..Len(tx) /\ Len(tx) < i
      BY <2>2, <2>3
    <3> QED BY <2>1, <3>1
  <2> QED BY <1>2, <2>2, <2>4
<1> QED BY <1>3, <1>4

LEMMA SourceInit == StratumInit => Source!Init
<1> SUFFICES ASSUME StratumInit PROVE Source!Init
  OBVIOUS
<1>1. tx = <<>> /\ known = {} /\ src = "wait"
  BY DEF StratumInit
<1>2. [i \in DOMAIN tx |-> IF tx[i].type = "clear" THEN 0 ELSE tx[i].job.ses] = <<>>
  BY <1>1
<1>3. {j.ses : j \in known} = {}
  BY <1>1
<1> QED BY <1>1, <1>2, <1>3 DEF Source!Init

\* A step the scheduler does not see.
LEMMA Unseen ==
    ASSUME UNCHANGED <<tx, known, session>>, (src = "run") = (src' = "run"),
           (src = "exited") = (src' = "exited")
    PROVE  UNCHANGED Source!jobSourceVars
BY DEF Source!jobSourceVars

\* Every step of the job source is a step of JobSource, or one it does not show.
LEMMA SourceStep ==
    ASSUME StratumTypes, SessionInv, [StratumNext]_stratumVars
    PROVE  [Source!Next]_(Source!jobSourceVars)
<1>1. /\ tx \in Seq(SourceEvents) /\ known \subseteq Jobs /\ session \in Nat
      /\ src \in {"wait", "connect", "run", "backoff", "exited"} /\ None \notin ProtocolStates
  BY StratumConstants DEF StratumTypes, SchedTypes, PoolTypes, SourceTypes
<1>2. CASE SchedulerTakes
  <2> DEFINE e == Head(tx)
  <2>1. /\ tx # <<>> /\ tx' = Tail(tx) /\ e \in Elems(tx)
        /\ e.type \in {"update", "replace", "clear"}
        /\ e.type = "clear" => known' = {}
        /\ e.type = "update" => known' = known \cup {e.job}
        /\ e.type = "replace" => known' = {e.job}
    BY <1>2, TakeCases
  <2>2. Out(tx) # <<>> /\ Out(tx)' = Tail(Out(tx)) /\ Head(Out(tx)) = Mark(e)
    <3>1. Out(tx)' = Out(Tail(tx))
      BY <2>1 DEF Out
    <3> QED BY <1>1, <2>1, <3>1, OutTail
  <2>3. UNCHANGED <<src, session>>
    BY <1>2 DEF SchedulerTakes, sourceVars, linkVars
  <2>4. e.type # "clear" => e.job.ses \in 1..session
    BY <2>1 DEF SessionInv
  <2>5. Has' \in IF Mark(e) = 0 THEN {{}} ELSE {Has \cup {Mark(e)}, {Mark(e)}}
    <3> HIDE DEF e
    <3>1. CASE e.type = "clear"
      BY <2>1, <3>1 DEF Has, Mark
    <3>2. CASE e.type = "update"
      <4>1. Mark(e) = e.job.ses /\ Mark(e) # 0
        BY <1>1, <2>4, <3>2 DEF Mark
      <4>2. Has' = Has \cup {e.job.ses}
        BY <2>1, <3>2 DEF Has
      <4> QED BY <4>1, <4>2
    <3>3. CASE e.type = "replace"
      <4>1. Mark(e) = e.job.ses /\ Mark(e) # 0
        BY <1>1, <2>4, <3>3 DEF Mark
      <4>2. Has' = {e.job.ses}
        BY <2>1, <3>3 DEF Has
      <4> QED BY <4>1, <4>2
    <3> QED BY <2>1, <3>1, <3>2, <3>3
  <2>6. Has' \in IF Head(Out(tx)) = 0 THEN {{}} ELSE {Has \cup {Head(Out(tx))}, {Head(Out(tx))}}
    BY <2>2, <2>5
  <2>7. Source!Take
    BY <2>2, <2>3, <2>6 DEF Source!Take, Out, Mark, Has
  <2> QED BY <2>7 DEF Source!Next
<1>3. CASE Connect
  <2>1. src = "connect" /\ src' = "run" /\ session' = session + 1 /\ UNCHANGED <<tx, known>>
    BY <1>3 DEF Connect, schedVars
  <2>2. Source!Standing = {}
    BY <2>1, NothingStands DEF SessionInv
  <2>3. session + 1 \in Nat \ {0}
    BY <1>1
  <2>4. Source!Up
    BY <2>1, <2>2, <2>3 DEF Source!Up
  <2> QED BY <2>4 DEF Source!Next
<1>4. CASE HandleClientEvent
  <2>1. UNCHANGED <<src, session, known>> /\ src = "run"
    BY <1>4 DEF HandleClientEvent, linkVars
  <2>2. CASE tx' = tx
    BY <2>1, <2>2, Unseen
  <2>3. CASE tx' # tx
    <3>1. PICK x \in SourceEvents : /\ tx' = Append(tx, x) /\ x.type # "clear"
                                    /\ state \in ProtocolStates /\ state.en1 \in Nat
                                    /\ x.job.ses = state.en1
      BY <1>4, <2>3, HandleCases, Zenon
    <3>2. Mark(x) = session /\ session # 0
      <4>1. state # None /\ None \notin Nat
        BY <1>1, <3>1, StratumConstants
      <4> QED BY <2>1, <3>1, <4>1 DEF SessionInv, Mark
    <3>3. Out(tx)' = Append(Out(tx), session)
      <4>1. Out(tx)' = Out(Append(tx, x))
        BY <3>1 DEF Out
      <4> QED BY <1>1, <3>2, <4>1, OutAppend
    <3>4. Source!Offer
      BY <2>1, <3>2, <3>3 DEF Source!Offer, Out, Mark
    <3> QED BY <3>4 DEF Source!Next
  <2> QED BY <2>2, <2>3
<1>5. CASE ConnectFails \/ (ClientGone /\ result # "fatal")
  <2>1. /\ src \in {"connect", "run"} /\ src' = "backoff" /\ tx' = Append(tx, [type |-> "clear"])
        /\ UNCHANGED <<session, known>>
    BY <1>5 DEF ConnectFails, ClientGone, ClearJobs, linkVars
  <2>2. Out(tx)' = Append(Out(tx), 0)
    <3>1. Out(tx)' = Out(Append(tx, [type |-> "clear"])) /\ Mark([type |-> "clear"]) = 0
      BY <2>1 DEF Out, Mark
    <3>2. [type |-> "clear"] \in SourceEvents
      BY MadeTypes
    <3> QED BY <1>1, <3>1, <3>2, OutAppend
  <2>3. Source!Down
    BY <2>1, <2>2 DEF Source!Down, Out, Mark
  <2> QED BY <2>3 DEF Source!Next
<1>6. CASE ClientGone /\ result = "fatal"
  <2>1. src = "run" /\ src' = "exited" /\ UNCHANGED <<tx, known, session>>
    BY <1>6 DEF ClientGone, linkVars
  <2>2. session # 0
    BY <2>1 DEF SessionInv
  <2>3. Source!GiveUp
    BY <2>1, <2>2 DEF Source!GiveUp
  <2> QED BY <2>3 DEF Source!Next
<1>7. CASE WaitForRate \/ BackoffDrains \/ BackoffEnds
  <2>1. /\ src \in {"wait", "backoff"} /\ src' \in {"wait", "backoff", "connect"}
        /\ UNCHANGED <<tx, known, session>>
    BY <1>7 DEF WaitForRate, BackoffDrains, BackoffEnds, schedVars, linkVars
  <2> QED BY <2>1, Unseen
<1>8. CASE SourceRate \/ CooldownPasses \/ CooldownFlush \/ SourceSubmit
  <2>1. UNCHANGED <<src, tx, known, session>>
    BY <1>8 DEF SourceRate, CooldownPasses, CooldownFlush, SourceSubmit, schedVars, sourceVars,
       linkVars
  <2> QED BY <2>1, Unseen
<1>9. CASE SchedulerSubmits \/ SchedulerAnnounces \/ UNCHANGED stratumVars
  <2>1. UNCHANGED <<src, tx, known, session>>
    BY <1>9 DEF SchedulerSubmits, SchedulerAnnounces, stratumVars, schedVars, sourceVars, linkVars
  <2> QED BY <2>1, Unseen
<1>10. CASE ClientSteps \/ PoolSteps
  <2>1. UNCHANGED <<src, tx, known, session>>
    BY <1>10, ClientFrame, PoolFrame DEF clientRest, schedVars, sourceVars
  <2> QED BY <2>1, Unseen
<1> QED
  BY <1>2, <1>3, <1>4, <1>5, <1>6, <1>7, <1>8, <1>9, <1>10
     DEF StratumNext, SchedulerSteps, SourceSteps

\* For every pool and scheduler, what the Stratum v1 source tells the scheduler
\* is what JobSource allows: jobs of the connection that is up, and ClearJobs
\* between the jobs of a connection and those of the next (stratum_v1.rs:541,
\* :625), whatever the timing of events, commands and the backoff.
THEOREM StratumIsAJobSource == StratumSpec => ImplementsJobSource
<1>1. StratumSpec => [](StratumTypes /\ SessionInv)
  BY SessionHolds
<1>2. StratumInit => Source!Init
  BY SourceInit
<1>3. ASSUME StratumTypes /\ SessionInv, [StratumNext]_stratumVars
      PROVE  [Source!Next]_(Source!jobSourceVars)
  BY <1>3, SourceStep
<1> QED BY <1>1, <1>2, <1>3, PTL DEF StratumSpec, ImplementsJobSource, Source!Spec

-----------------------------------------------------------------------------
(* Shares stay with their session.                                         *)

\* While a connection is up all jobs and shares are its own; before a
\* connection is made there are none.
ShareInv ==
    /\ src = "run" =>
         /\ \A j \in known : j.ses = session
         /\ \A e \in Elems(tx) : e.type # "clear" => e.job.ses = session
         /\ \A c \in Elems(rx) : c.type = "share" => c.share.job.ses = session
         /\ \A c \in Elems(commands) : c.type = "submit" => c.share.job.ses = session
    /\ src \in {"wait", "connect"} =>
         known = {} /\ tx = <<>> /\ \A c \in Elems(rx) : c.type # "share"
    /\ ~foreign

\* What the source passes on to its client.
LEMMA PassCases ==
    ASSUME StratumTypes, SourceMoves
    PROVE  \/ commands' = commands
           \/ \E c \in ClientCommands :
                /\ commands' = Append(commands, c) /\ Elems(commands') = Elems(commands) \cup {c}
                /\ c.type = "submit" => rx # <<>> /\ Head(rx).type = "share" /\ c.share = Head(rx).share
<1>1. commands \in Seq(ClientCommands) /\ rx \in Seq(SourceCommands)
  BY DEF StratumTypes, ClientTypes, SchedTypes
<1>2. ASSUME NEW c \in ClientCommands, commands' = ToClient(c),
             c.type = "submit" => rx # <<>> /\ Head(rx).type = "share" /\ c.share = Head(rx).share
      PROVE  \/ commands' = commands
             \/ \E x \in ClientCommands :
                  /\ commands' = Append(commands, x) /\ Elems(commands') = Elems(commands) \cup {x}
                  /\ x.type = "submit" => rx # <<>> /\ Head(rx).type = "share" /\ x.share = Head(rx).share
  <2>1. commands' = commands \/ commands' = Append(commands, c)
    BY <1>2 DEF ToClient
  <2>2. Elems(Append(commands, c)) = Elems(commands) \cup {c}
    BY <1>1, ElemsAppend
  <2> QED BY <1>2, <2>1, <2>2
<1>3. ASSUME NEW d, d # None, d \in Nat \cup {None}, SendSuggest(d)
      PROVE  \/ commands' = commands
             \/ \E x \in ClientCommands :
                  /\ commands' = Append(commands, x) /\ Elems(commands') = Elems(commands) \cup {x}
                  /\ x.type = "submit" => rx # <<>> /\ Head(rx).type = "share" /\ x.share = Head(rx).share
  <2> DEFINE c == [type |-> "suggest", d |-> d]
  <2>1. c \in ClientCommands /\ c.type # "submit"
    BY <1>3, MadeTypes
  <2>2. commands' = ToClient(c)
    BY <1>3 DEF SendSuggest
  <2> HIDE DEF c
  <2> QED BY <1>2, <2>1, <2>2
<1>4. CASE SourceSubmit
  <2>1. /\ rx # <<>> /\ Head(rx).type = "share"
        /\ commands' = commands \/ commands' = ToClient([type |-> "submit", share |-> Head(rx).share])
    BY <1>4 DEF SourceSubmit
  <2>2. Head(rx).share \in Shares
    <3>1. Head(rx) \in SourceCommands
      BY <1>1, <2>1, ElemsTail
    <3> QED BY <2>1, <3>1 DEF SourceCommands
  <2> DEFINE c == [type |-> "submit", share |-> Head(rx).share]
  <2>3. c \in ClientCommands /\ c.share = Head(rx).share
    BY <2>2, MadeTypes
  <2> HIDE DEF c
  <2>4. commands' = commands \/ commands' = ToClient(c)
    BY <2>1 DEF c
  <2> QED BY <1>2, <2>1, <2>3, <2>4
<1>5. CASE SourceRate
  <2>1. \/ commands' = commands
        \/ Material(SuggestedFor(rate'), suggested) /\ SendSuggest(SuggestedFor(rate'))
    BY <1>5 DEF SourceRate
  <2>2. rate' \in Rates
    BY <1>5, RateTaken DEF SourceRate
  <2>3. PICK d : d = SuggestedFor(rate')
    OBVIOUS
  <2>4. d \in Nat \cup {None}
    BY <2>2, <2>3, SuggestedType
  <2>5. commands' = commands \/ (d # None /\ SendSuggest(d))
    BY <2>1, <2>3 DEF Material
  <2> QED BY <1>3, <2>4, <2>5
<1>6. CASE CooldownFlush
  <2>1. \/ commands' = commands
        \/ Material(SuggestedFor(rate), suggested) /\ SendSuggest(SuggestedFor(rate))
    BY <1>6 DEF CooldownFlush, FlushSuggest
  <2>2. SuggestedFor(rate) \in Nat \cup {None}
    BY SuggestedType DEF StratumTypes, SourceTypes
  <2> QED BY <1>3, <2>1, <2>2 DEF Material
<1>7. CASE WaitForRate \/ ConnectFails \/ ClientGone \/ BackoffDrains \/ BackoffEnds
           \/ CooldownPasses \/ HandleClientEvent
  BY <1>7 DEF WaitForRate, ConnectFails, ClientGone, BackoffDrains, BackoffEnds, CooldownPasses,
     HandleClientEvent
<1> QED BY <1>4, <1>5, <1>6, <1>7 DEF SourceMoves

\* What the source does to its command queue.
LEMMA DrainCases ==
    ASSUME StratumTypes, SourceMoves
    PROVE  /\ Elems(rx') \subseteq Elems(rx)
           /\ rx # <<>> => Head(rx) \in Elems(rx)
<1>1. rx \in Seq(SourceCommands)
  BY DEF StratumTypes, SchedTypes
<1>2. rx' = rx \/ (rx # <<>> /\ rx' = Tail(rx))
  BY DEF SourceMoves, WaitForRate, ConnectFails, ClientGone, BackoffDrains, BackoffEnds,
     SourceRate, CooldownPasses, CooldownFlush, SourceSubmit, HandleClientEvent, schedVars, DrainCommand
<1> QED BY <1>1, <1>2, ElemsTail

LEMMA ShareInit == StratumInit => ShareInv
<1> SUFFICES ASSUME StratumInit PROVE ShareInv
  OBVIOUS
<1>1. rx = <<>> /\ tx = <<>> /\ known = {} /\ src = "wait" /\ foreign = FALSE
  BY DEF StratumInit
<1>2. Elems(rx) = {}
  BY <1>1, ElemsEmpty
<1> QED BY <1>1, <1>2 DEF ShareInv

LEMMA ShareStep ==
    ASSUME Prompt, StratumTypes, SessionInv, ShareInv, [StratumNext]_stratumVars
    PROVE  ShareInv'
<1>1. /\ tx \in Seq(SourceEvents) /\ rx \in Seq(SourceCommands)
      /\ commands \in Seq(ClientCommands) /\ session \in Nat /\ left \in BudgetType
      /\ None \notin ProtocolStates
  BY StratumConstants DEF StratumTypes, SchedTypes, ClientTypes, PoolTypes
<1>2. ASSUME UNCHANGED <<schedVars, src, session, commands, foreign>> PROVE ShareInv'
  BY <1>2 DEF ShareInv, schedVars, Elems
<1>3. CASE SchedulerTakes
  <2>1. UNCHANGED <<src, session, commands, foreign, rx>>
    BY <1>3 DEF SchedulerTakes, sourceVars, linkVars, quiet
  <2>2. /\ tx # <<>> /\ Head(tx) \in Elems(tx) /\ Elems(tx') \subseteq Elems(tx)
        /\ Head(tx).type = "clear" => known' = {}
        /\ Head(tx).type # "clear" => known' \subseteq known \cup {Head(tx).job}
    BY <1>3, TakeCases
  <2> QED BY <2>1, <2>2 DEF ShareInv
<1>4. CASE SchedulerSubmits
  <2>1. UNCHANGED <<src, session, commands, foreign, tx, known>>
    BY <1>4 DEF SchedulerSubmits, sourceVars, linkVars
  <2>2. PICK j \in known :
          rx' = Append(rx, [type |-> "share", share |-> [n |-> left.shares, job |-> j]])
    BY <1>4 DEF SchedulerSubmits
  <2> DEFINE c == [type |-> "share", share |-> [n |-> left.shares, job |-> j]]
  <2>3. [n |-> left.shares, job |-> j] \in Shares
    BY <1>1 DEF Shares, BudgetType, StratumTypes, SchedTypes
  <2>4. c \in SourceCommands /\ c.share.job = j
    BY <2>3, MadeTypes
  <2> HIDE DEF c
  <2>5. Elems(rx') = Elems(rx) \cup {c}
    BY <1>1, <2>2, <2>4, ElemsAppend DEF c
  <2>6. src \notin {"wait", "connect"}
    BY <2>2 DEF ShareInv
  <2> QED BY <2>1, <2>2, <2>4, <2>5, <2>6 DEF ShareInv
<1>5. CASE SchedulerAnnounces
  <2>1. UNCHANGED <<src, session, commands, foreign, tx, known>>
    BY <1>5 DEF SchedulerAnnounces, sourceVars, linkVars
  <2>2. left.rates # <<>> /\ rx' = Append(rx, [type |-> "rate", rate |-> Head(left.rates)])
    BY <1>5 DEF SchedulerAnnounces
  <2>3. Head(left.rates) \in Rates
    BY <1>1, <2>2 DEF BudgetType
  <2> DEFINE c == [type |-> "rate", rate |-> Head(left.rates)]
  <2>4. c \in SourceCommands /\ c.type # "share"
    BY <2>3, MadeTypes
  <2> HIDE DEF c
  <2>5. Elems(rx') = Elems(rx) \cup {c}
    BY <1>1, <2>2, <2>4, ElemsAppend DEF c
  <2> QED BY <2>1, <2>4, <2>5 DEF ShareInv
<1>6. CASE Connect
  <2>1. src = "connect" /\ commands' = <<>> /\ foreign' = foreign /\ UNCHANGED <<tx, known, rx>>
    BY <1>6 DEF Connect, schedVars
  <2>2. Elems(commands') = {} /\ (tx = <<>> => Elems(tx') = {})
    BY <2>1, ElemsEmpty
  <2>3. src' = "run"
    BY <1>6 DEF Connect
  <2> QED BY <2>1, <2>2, <2>3 DEF ShareInv
<1>7. CASE SourceMoves
  <2>1. UNCHANGED <<known, session, foreign>>
    BY <1>7, SourceFrame DEF linkVars
  <2>2. Elems(rx') \subseteq Elems(rx) /\ (rx # <<>> => Head(rx) \in Elems(rx))
    BY <1>7, DrainCases
  <2>3. CASE src' = "run"
    <3>1. src = "run"
      BY <1>7, <2>3 DEF SourceMoves, WaitForRate, ConnectFails, ClientGone, BackoffDrains, BackoffEnds,
         SourceRate, CooldownPasses, CooldownFlush, SourceSubmit, HandleClientEvent, sourceVars
    <3>2. \A c \in Elems(commands') : c.type = "submit" => c.share.job.ses = session
      <4>1. CASE commands' = commands
        BY <3>1, <4>1 DEF ShareInv
      <4>2. CASE commands' # commands
        <5>1. PICK c \in ClientCommands :
                /\ Elems(commands') = Elems(commands) \cup {c}
                /\ c.type = "submit" => rx # <<>> /\ Head(rx).type = "share" /\ c.share = Head(rx).share
          BY <1>7, <4>2, PassCases, Zenon
        <5> QED BY <2>2, <3>1, <5>1 DEF ShareInv
      <4> QED BY <4>1, <4>2
    <3>3. \A e \in Elems(tx') : e.type # "clear" => e.job.ses = session
      <4>1. CASE tx' = tx
        BY <3>1, <4>1 DEF ShareInv
      <4>2. CASE tx' # tx
        <5>1. HandleClientEvent
          BY <1>7, <2>3, <4>2 DEF SourceMoves, WaitForRate, ConnectFails, ClientGone, BackoffDrains,
             BackoffEnds, SourceRate, CooldownPasses, CooldownFlush, SourceSubmit, schedVars
        <5>2. PICK x \in SourceEvents : /\ Elems(tx') = Elems(tx) \cup {x}
                                        /\ state \in ProtocolStates /\ state.en1 \in Nat
                                        /\ x.job.ses = state.en1
          BY <4>2, <5>1, HandleCases, Zenon
        <5>3. state # None /\ None \notin Nat
          BY <1>1, <5>2, StratumConstants
        <5>4. x.job.ses = session
          BY <5>2, <5>3 DEF SessionInv
        <5> QED BY <3>1, <5>2, <5>4 DEF ShareInv
      <4> QED BY <4>1, <4>2
    <3> QED BY <2>1, <2>2, <2>3, <3>1, <3>2, <3>3 DEF ShareInv
  <2>4. CASE src' \in {"wait", "connect"}
    <3>1. CASE WaitForRate \/ (CooldownPasses /\ src # "run")
      <4>1. UNCHANGED tx /\ src \in {"wait", "connect"}
        BY <2>4, <3>1 DEF WaitForRate, CooldownPasses, schedVars
      <4> QED BY <2>1, <2>2, <2>4, <4>1 DEF ShareInv
    <3>2. CASE BackoffEnds
      <4>1. src = "backoff" /\ tx = <<>> /\ rx = <<>> /\ UNCHANGED <<tx, rx>>
        BY <3>2 DEF BackoffEnds, schedVars
      <4>2. known = {} /\ Elems(rx') = {}
        BY <4>1, ElemsEmpty DEF SessionInv, Withdrawn
      <4> QED BY <2>1, <2>4, <4>1, <4>2 DEF ShareInv
    <3> QED
      BY <1>7, <2>4, <3>1, <3>2 DEF SourceMoves, ConnectFails, ClientGone, BackoffDrains, SourceRate,
         CooldownPasses, CooldownFlush, SourceSubmit, HandleClientEvent, sourceVars
  <2>5. CASE src' \notin {"run", "wait", "connect"}
    BY <2>1, <2>5 DEF ShareInv
  <2> QED BY <2>3, <2>4, <2>5
<1>8. CASE ClientSteps
  <2>1. UNCHANGED <<rx, tx, known, src, session>>
    BY <1>8, ClientFrame DEF clientRest, schedVars, sourceVars
  <2>2. src = "run"
    BY <1>8, EmitCases DEF SessionInv
  <2>3. CASE TakeCommand
    <3> DEFINE c == Head(commands)
    <3>1. /\ commands # <<>> /\ commands' = Tail(commands)
          /\ \/ c.type = "submit" /\ foreign' = (foreign \/ c.share.job.ses # session)
             \/ foreign' = foreign
      BY <2>3, CommandCases, Zenon
    <3>2. c \in Elems(commands) /\ Elems(commands') \subseteq Elems(commands)
      BY <1>1, <3>1, ElemsTail
    <3> HIDE DEF c
    <3>3. ~foreign'
      <4>1. ~foreign
        BY DEF ShareInv
      <4>2. c.type = "submit" => c.share.job.ses = session
        BY <2>2, <3>2 DEF ShareInv
      <4> QED BY <3>1, <4>1, <4>2
    <3> QED BY <2>1, <2>2, <3>2, <3>3 DEF ShareInv
  <2>4. CASE ~TakeCommand
    <3>1. UNCHANGED <<commands, foreign>>
      BY <1>8, <2>4 DEF ClientSteps, ReadPart, ReadResponse, ReadStray, ReadNotification, ReadReconnect,
         ReadGarbage, ReadEof, RequestTimesOut, ReadLine
    <3> QED BY <1>2, <2>1, <3>1 DEF schedVars
  <2> QED BY <2>3, <2>4
<1>9. CASE PoolSteps
  BY <1>2, <1>9, PoolFrame DEF sourceVars
<1>10. CASE UNCHANGED stratumVars
  BY <1>2, <1>10 DEF stratumVars, sourceVars, linkVars
<1> QED
  BY <1>3, <1>4, <1>5, <1>6, <1>7, <1>8, <1>9, <1>10
     DEF StratumNext, SchedulerSteps, SourceSteps, SourceMoves

-----------------------------------------------------------------------------
(* A share is counted by its own answer.                                   *)

\* Only the request under way has its id, so only its own answer is awaited.
AnswerInv ==
    /\ \A r \in Elems(toPool) :
         /\ r.id <= reqId
         /\ r.id = reqId /\ pc = "submit" => r.method = "submit" /\ r.share = share
    /\ \A m \in Elems(toClient) : m.type = "response" =>
         /\ m.id <= reqId
         /\ m.id = reqId /\ m.val = "yes" /\ pc = "submit" => share.n \in accepted
    /\ \A e \in Elems(events) : e.type = "accepted" => e.n \in accepted
    /\ counted \subseteq accepted

\* The client takes lines and may leave garbage.
LEMMA LinesShrink ==
    ASSUME StratumTypes, ClientSteps
    PROVE  Elems(toClient') \subseteq Elems(toClient) \cup {Garbage}
<1>1. toClient \in Seq(Lines) /\ (partial => toClient # <<>>)
  BY DEF StratumTypes, PoolTypes, ClientTypes
<1>2. CASE RequestTimesOut \/ TakeCommand
  BY <1>1, <1>2, DropCases DEF RequestTimesOut, TakeCommand
<1>3. CASE ~(RequestTimesOut \/ TakeCommand)
  <2>1. toClient' = toClient \/ (toClient # <<>> /\ toClient' = Tail(toClient))
    BY <1>3 DEF ClientSteps, ReadPart, ReadResponse, ReadStray, ReadNotification, ReadReconnect,
       ReadGarbage, ReadEof, ReadLine
  <2> QED BY <1>1, <2>1, ElemsTail
<1> QED BY <1>2, <1>3

\* A new request has a new id.
LEMMA RequestMoves ==
    ASSUME StratumTypes, ClientSteps
    PROVE  \/ Carries
           \/ pc' \in {"main", "ended"} /\ reqId' = reqId /\ toPool' = toPool
           \/ \E m \in Requests \ {"configure"}, s \in Shares \cup {None} :
                /\ pc' = m /\ share' = s /\ reqId' = reqId + 1
                /\ Elems(toPool') = Elems(toPool) \cup {Request(m, reqId + 1, s)}
                /\ m = "subscribe" => \E e \in Elems(events') : e.type = "configured"
<1>1. /\ toPool \in Seq(PoolRequests) /\ reqId \in Nat /\ commands \in Seq(ClientCommands)
      /\ events \in Seq(ClientEvents)
  BY DEF StratumTypes, PoolTypes, ClientTypes
<1> DEFINE New(m, s) == /\ pc' = m /\ share' = s /\ reqId' = reqId + 1
                        /\ Elems(toPool') = Elems(toPool) \cup {Request(m, reqId + 1, s)}
           Fine == \/ Carries
                   \/ pc' \in {"main", "ended"} /\ reqId' = reqId /\ toPool' = toPool
                   \/ \E m \in Requests \ {"configure"}, s \in Shares \cup {None} :
                        New(m, s) /\ (m = "subscribe" => \E e \in Elems(events') : e.type = "configured")
<1> SUFFICES Fine
  BY Zenon
<1>2. {"subscribe", "authorize", "suggest", "submit"} \subseteq Requests \ {"configure"}
  BY DEF Requests, Handshake
<1>3. ASSUME NEW m \in Requests, NEW s \in Shares \cup {None}, Ask(m, s) PROVE New(m, s)
  <2>1. Request(m, reqId + 1, s) \in PoolRequests
    <3>1. reqId + 1 \in Nat
      BY <1>1
    <3> QED BY <3>1, RequestType
  <2>2. toPool' = Append(toPool, Request(m, reqId + 1, s))
    BY <1>3 DEF Ask
  <2>3. Elems(toPool') = Elems(toPool) \cup {Request(m, reqId + 1, s)}
    BY <1>1, <2>1, <2>2, ElemsAppend
  <2> QED BY <1>3, <2>3 DEF Ask
<1> HIDE DEF New
<1>4. ASSUME Moves PROVE Fine
  <2>1. CASE Ask("suggest", None)
    <3>1. New("suggest", None)
      BY <1>2, <1>3, <2>1
    <3> QED BY <1>2, <3>1
  <2>2. CASE ~Ask("suggest", None)
    BY <1>4, <2>2 DEF Moves, ToMain, EndWith
  <2> QED BY <2>1, <2>2
<1>5. ASSUME Ask("subscribe", None), \E e \in Elems(events') : e.type = "configured" PROVE Fine
  <2>1. New("subscribe", None)
    BY <1>2, <1>3, <1>5
  <2> QED BY <1>2, <1>5, <2>1
<1>6. ASSUME NEW e \in ClientEvents, events' = Append(events, e), e.type = "configured"
      PROVE  \E x \in Elems(events') : x.type = "configured"
  BY <1>1, <1>6, ElemsAppend
<1>7. CASE ReadResponse
  <2> DEFINE h == Head(toClient)
  <2>1. toClient # <<>> /\ toClient \in Seq(Lines)
    BY <1>7 DEF ReadResponse, ReadLine, StratumTypes, PoolTypes
  <2>2. h \in Lines
    BY <2>1, ElemsTail
  <2>3. /\ h.type = "response"
        /\ \/ /\ pc = "configure" /\ Ask("subscribe", None)
              /\ events' = Append(events, [type |-> "configured",
                                           mask |-> IF h.val = "yes" THEN h.mask ELSE None])
           \/ Ask("authorize", None)
           \/ ToMain
           \/ Moves
    BY <1>7, ResponseCases, Zenon
  <2> HIDE DEF h
  <2>4. (IF h.val = "yes" THEN h.mask ELSE None) \in OptMask
    BY <2>2, <2>3, LineKinds DEF OptMask
  <2>5. [type |-> "configured", mask |-> IF h.val = "yes" THEN h.mask ELSE None] \in ClientEvents
    BY <2>4, MadeTypes
  <2>8. [type |-> "configured", mask |-> IF h.val = "yes" THEN h.mask ELSE None].type = "configured"
    OBVIOUS
  <2>6. CASE Ask("authorize", None)
    <3>1. New("authorize", None)
      BY <1>2, <1>3, <2>6
    <3> QED BY <1>2, <3>1
  <2>7. CASE Moves \/ ToMain
    BY <1>4, <2>7 DEF Moves
  <2> HIDE DEF Fine
  <2> QED BY <1>5, <1>6, <2>3, <2>5, <2>6, <2>7, <2>8
<1>8. CASE RequestTimesOut
  <2> DEFINE e == [type |-> "configured", mask |-> None]
  <2>1. \/ pc = "configure" /\ Ask("subscribe", None) /\ events' = Append(events, e)
        \/ Moves
    BY <1>8, TimeoutCases, Zenon
  <2>2. e \in ClientEvents /\ e.type = "configured"
    BY MadeTypes DEF OptMask
  <2> HIDE DEF Fine, e
  <2> QED BY <1>4, <1>5, <1>6, <2>1, <2>2
<1>9. CASE TakeCommand
  <2>1. /\ commands # <<>>
        /\ \/ Head(commands).type = "submit" /\ Ask("submit", Head(commands).share)
           \/ Moves
    BY <1>9, CommandCases, Zenon DEF Moves
  <2>2. CASE Head(commands).type = "submit" /\ Ask("submit", Head(commands).share)
    <3>1. Head(commands) \in ClientCommands
      BY <1>1, <2>1, ElemsTail
    <3>2. Head(commands).share \in Shares
      BY <2>2, <3>1 DEF ClientCommands
    <3>3. New("submit", Head(commands).share)
      BY <1>2, <1>3, <2>2, <3>2
    <3> QED BY <1>2, <3>2, <3>3
  <2> HIDE DEF Fine
  <2> QED BY <1>4, <2>1, <2>2
<1>10. CASE ReadStray \/ ReadReconnect \/ ReadGarbage \/ ReadEof \/ ReadPart
  BY <1>4, <1>10, OtherCases
<1>11. CASE ReadNotification
  BY <1>4, <1>11, NotificationCases DEF Moves
<1> QED BY <1>7, <1>8, <1>9, <1>10, <1>11 DEF ClientSteps

LEMMA AnswerInit == StratumInit => AnswerInv
<1> SUFFICES ASSUME StratumInit PROVE AnswerInv
  OBVIOUS
<1>1. toPool = <<>> /\ toClient = <<>> /\ events = <<>> /\ counted = {}
  BY DEF StratumInit
<1>2. Elems(toPool) = {} /\ Elems(toClient) = {} /\ Elems(events) = {}
  BY <1>1, ElemsEmpty
<1> QED BY <1>1, <1>2 DEF AnswerInv

LEMMA AnswerStep ==
    ASSUME StratumTypes, AnswerInv, [StratumNext]_stratumVars PROVE AnswerInv'
<1>1. /\ toPool \in Seq(PoolRequests) /\ toClient \in Seq(Lines) /\ events \in Seq(ClientEvents)
      /\ reqId \in Nat
      /\ \A r \in Elems(toPool) : r.id \in Nat
      /\ \A m \in Elems(toClient) : m.type = "response" => m.id \in Nat
  <2>1. /\ toPool \in Seq(PoolRequests) /\ toClient \in Seq(Lines) /\ events \in Seq(ClientEvents)
        /\ reqId \in Nat
    BY DEF StratumTypes, PoolTypes, ClientTypes
  <2>2. Elems(toPool) \subseteq PoolRequests /\ Elems(toClient) \subseteq Lines
    BY <2>1, ElemsType
  <2>3. \A r \in PoolRequests : r.id \in Nat
    BY DEF PoolRequests
  <2> QED BY <2>1, <2>2, <2>3, LineKinds
<1>2. ASSUME UNCHANGED <<toPool, toClient, events, reqId, pc, share, accepted, counted>> PROVE AnswerInv'
  BY <1>2 DEF AnswerInv, Elems
<1>3. CASE SchedulerSteps
  BY <1>2, <1>3, SchedFrame DEF linkVars, clientVars, poolVars
<1>4. CASE Connect
  <2>1. /\ toPool' = <<Request("configure", 1, None)>> /\ toClient' = <<>> /\ events' = <<>>
        /\ reqId' = 1 /\ pc' = "configure" /\ UNCHANGED <<accepted, counted>>
    BY <1>4 DEF Connect
  <2>2. Elems(toClient') = {} /\ Elems(events') = {}
    BY <2>1, ElemsEmpty
  <2>3. \A r \in Elems(toPool') : r.id <= reqId'
    BY <2>1 DEF Elems, Request
  <2> QED BY <2>1, <2>2, <2>3 DEF AnswerInv
<1>5. CASE SourceMoves
  <2>1. UNCHANGED <<toPool, toClient, reqId, pc, share, accepted>>
    BY <1>5, SourceFrame DEF linkVars, clientVars, poolVars
  <2>2. CASE HandleClientEvent
    <3>1. /\ Head(events) \in Elems(events) /\ Elems(events') \subseteq Elems(events)
          /\ counted' = counted \/ (counted' = counted \cup {Head(events).n} /\ Head(events).type = "accepted")
      BY <2>2, HandleCases
    <3> QED BY <2>1, <3>1 DEF AnswerInv
  <2>3. CASE ~HandleClientEvent
    <3>1. UNCHANGED <<events, counted>>
      BY <1>5, <2>3 DEF SourceMoves, WaitForRate, ConnectFails, ClientGone, BackoffDrains, BackoffEnds,
         SourceRate, CooldownPasses, CooldownFlush, SourceSubmit, quiet
    <3> QED BY <1>2, <2>1, <3>1
  <2> QED BY <2>2, <2>3
<1>6. CASE ClientSteps
  <2>1. UNCHANGED <<accepted, counted>>
    BY <1>6, ClientFrame DEF clientRest, poolVars
  <2>2. Elems(toClient') \subseteq Elems(toClient) \cup {Garbage} /\ Garbage.type = "garbage"
    BY <1>6, LinesShrink, LineTypes
  <2>3. \A e \in Elems(events') : e.type = "accepted" => e.n \in accepted
    <3>1. CASE events' = events
      BY <3>1 DEF AnswerInv
    <3>2. CASE events' # events
      <4>1. PICK e \in ClientEvents :
                   /\ Elems(events') = Elems(events) \cup {e}
                   /\ e.type = "accepted" =>
                        /\ pc = "submit" /\ toClient # <<>> /\ e.n = share.n
                        /\ Head(toClient).type = "response" /\ Head(toClient).id = reqId
                        /\ Head(toClient).val = "yes"
        BY <1>6, <3>2, EmitCases, Zenon
      <4>2. toClient # <<>> => Head(toClient) \in Elems(toClient)
        BY <1>1, ElemsTail
      <4> QED BY <4>1, <4>2 DEF AnswerInv
    <3> QED BY <3>1, <3>2
  <2>4. CASE Carries
    <3>1. UNCHANGED <<toPool, reqId, pc, share>>
      BY <2>4 DEF Carries
    <3> QED BY <2>1, <2>2, <2>3, <3>1 DEF AnswerInv
  <2>5. CASE pc' \in {"main", "ended"} /\ reqId' = reqId /\ toPool' = toPool
    BY <2>1, <2>2, <2>3, <2>5 DEF AnswerInv
  <2>6. CASE \E m \in Requests, s \in Shares \cup {None} :
                /\ pc' = m /\ share' = s /\ reqId' = reqId + 1
                /\ Elems(toPool') = Elems(toPool) \cup {Request(m, reqId + 1, s)}
    <3>1. PICK m \in Requests, s \in Shares \cup {None} :
                /\ pc' = m /\ share' = s /\ reqId' = reqId + 1
                /\ Elems(toPool') = Elems(toPool) \cup {Request(m, reqId + 1, s)}
      BY <2>6
    <3> DEFINE q == Request(m, reqId + 1, s)
    <3>2. q.method = m /\ q.id = reqId' /\ q.share = s /\ reqId + 1 \in Nat
      BY <1>1, <3>1, RequestType
    <3> HIDE DEF q
    <3>3. \A r \in Elems(toPool) : r.id \in Nat /\ r.id < reqId'
      BY <1>1, <3>1 DEF AnswerInv
    <3>4. \A x \in Elems(toClient) : x.type = "response" => x.id \in Nat /\ x.id < reqId'
      BY <1>1, <3>1 DEF AnswerInv
    <3>5. \A r \in Elems(toPool') :
            /\ r.id <= reqId'
            /\ r.id = reqId' /\ pc' = "submit" => r.method = "submit" /\ r.share = share'
      <4>1. Elems(toPool') = Elems(toPool) \cup {q}
        BY <3>1 DEF q
      <4>2. reqId' \in Nat
        BY <3>1, <3>2
      <4> QED BY <3>1, <3>2, <3>3, <4>1, <4>2
    <3>6. \A x \in Elems(toClient') : x.type = "response" => x.id <= reqId' /\ x.id # reqId'
      <4>1. reqId' \in Nat
        BY <3>1, <3>2
      <4>2. \A x \in Elems(toClient') : x.type = "response" => x \in Elems(toClient)
        BY <2>2
      <4> QED BY <3>4, <4>1, <4>2
    <3> QED BY <2>1, <2>3, <3>5, <3>6 DEF AnswerInv
  <2> QED BY <1>6, <2>4, <2>5, <2>6, RequestMoves, Zenon
<1>7. CASE PoolAnswers
  <2> DEFINE r == Head(toPool)
  <2>1. UNCHANGED <<events, reqId, pc, share, counted>>
    BY <1>7, PoolFrame DEF PoolSteps
  <2>2. /\ toPool # <<>> /\ toPool' = Tail(toPool) /\ r \in PoolRequests /\ r \in Elems(toPool)
        /\ \/ /\ \E m \in Masks : toClient' = Append(toClient, Response(r.id, "yes", m))
              /\ accepted' = IF r.method = "submit" THEN accepted \cup {r.share.n} ELSE accepted
           \/ /\ accepted' = accepted
              /\ \/ toClient' = toClient
                 \/ \E v \in {"no", "bad"} :
                       toClient' = Append(toClient, Response(r.id, v, None))
    BY <1>7, AnswerCases, Zenon
  <2> HIDE DEF r
  <2>3. Elems(toPool') \subseteq Elems(toPool)
    BY <1>1, <2>2, ElemsTail
  <2>4. accepted \subseteq accepted'
    BY <2>2
  <2>5. \A x \in Elems(toClient') : x.type = "response" =>
          /\ x.id <= reqId
          /\ x.id = reqId /\ x.val = "yes" /\ pc = "submit" => share.n \in accepted'
    <3>1. CASE \E m \in Masks : toClient' = Append(toClient, Response(r.id, "yes", m))
      <4>1. PICK m \in Masks : toClient' = Append(toClient, Response(r.id, "yes", m))
        BY <3>1
      <4>2. /\ Elems(toClient') = Elems(toClient) \cup {Response(r.id, "yes", m)}
            /\ Response(r.id, "yes", m).id = r.id
        BY <2>2, <4>1, AnsweredLine DEF OptMask
      <4>3. CASE accepted' = IF r.method = "submit" THEN accepted \cup {r.share.n} ELSE accepted
        <5>1. r.id <= reqId /\ (r.id = reqId /\ pc = "submit" => share.n \in accepted')
          BY <2>2, <4>3 DEF AnswerInv
        <5> QED BY <2>4, <4>2, <5>1 DEF AnswerInv
      <4>4. CASE \/ toClient' = toClient
                 \/ \E v \in {"no", "bad"} :
                       toClient' = Append(toClient, Response(r.id, v, None))
        <5>1. CASE toClient' = toClient
          BY <2>4, <5>1 DEF AnswerInv
        <5>2. CASE \E v \in {"no", "bad"} : toClient' = Append(toClient, Response(r.id, v, None))
          <6>1. PICK v \in {"no", "bad"} : toClient' = Append(toClient, Response(r.id, v, None))
            BY <5>2
          <6>2. v \in {"yes", "no", "bad"} /\ None \in OptMask
            BY DEF OptMask
          <6>3. /\ Elems(toClient') = Elems(toClient) \cup {Response(r.id, v, None)}
                /\ Response(r.id, v, None).id = r.id /\ Response(r.id, v, None).val = v
            BY <2>2, <6>1, <6>2, AnsweredLine
          <6> QED BY <2>2, <2>4, <6>3 DEF AnswerInv
        <5> QED BY <4>4, <5>1, <5>2
      <4> QED BY <2>2, <4>3, <4>4
    <3>2. CASE toClient' = toClient
      BY <2>4, <3>2 DEF AnswerInv
    <3>3. CASE \E v \in {"no", "bad"} : toClient' = Append(toClient, Response(r.id, v, None))
      <4>1. PICK v \in {"no", "bad"} : toClient' = Append(toClient, Response(r.id, v, None))
        BY <3>3
      <4>2. v \in {"yes", "no", "bad"} /\ None \in OptMask
        BY DEF OptMask
      <4>3. /\ Elems(toClient') = Elems(toClient) \cup {Response(r.id, v, None)}
            /\ Response(r.id, v, None).id = r.id /\ Response(r.id, v, None).val = v
        BY <2>2, <4>1, <4>2, AnsweredLine
      <4> QED BY <2>2, <2>4, <4>3 DEF AnswerInv
    <3> QED BY <2>2, <3>1, <3>2, <3>3
  <2> QED BY <2>1, <2>3, <2>4, <2>5 DEF AnswerInv
<1>8. CASE PoolNotifies \/ PoolSets \/ PoolDisturbs
  <2>1. UNCHANGED <<events, reqId, pc, share, counted>>
    BY <1>8, PoolFrame DEF PoolSteps
  <2>2. PICK x \in Lines : /\ toClient' = Append(toClient, x) /\ x.type # "response"
                           /\ UNCHANGED <<toPool, accepted>>
    BY <1>8, SaysCases, Zenon
  <2>3. Elems(toClient') = Elems(toClient) \cup {x}
    BY <1>1, <2>2, ElemsAppend
  <2> QED BY <2>1, <2>2, <2>3 DEF AnswerInv
<1>9. CASE PoolCloses
  <2>1. UNCHANGED <<toPool, events, reqId, pc, share, accepted, counted>>
    BY <1>9 DEF PoolCloses, poolVars
  <2>2. toClient' = toClient \/ toClient' = <<>>
    BY <1>9 DEF PoolCloses
  <2>3. Elems(toClient') \subseteq Elems(toClient)
    BY <2>2, ElemsEmpty
  <2> QED BY <2>1, <2>3 DEF AnswerInv
<1>10. CASE UNCHANGED stratumVars
  BY <1>2, <1>10 DEF stratumVars, clientVars, linkVars, poolVars
<1> QED
  BY <1>3, <1>4, <1>5, <1>6, <1>7, <1>8, <1>9, <1>10 DEF StratumNext, SourceSteps, SourceMoves, PoolSteps

\* A share is counted as accepted only if the pool accepted that very share
\* (client.rs:173), for every pool, late, repeated or missing answers included.
THEOREM CountedByOwnAnswer == StratumSpec => []CountedWereAccepted
<1>1. StratumInit => StratumTypes /\ AnswerInv
  BY TypesInit, AnswerInit
<1>2. ASSUME StratumTypes /\ AnswerInv, [StratumNext]_stratumVars PROVE (StratumTypes /\ AnswerInv)'
  BY <1>2, TypesStep, AnswerStep
<1>3. AnswerInv => CountedWereAccepted
  BY DEF AnswerInv, CountedWereAccepted
<1> QED BY <1>1, <1>2, <1>3, PTL DEF StratumSpec

\* If a backoff outlasts the scheduler's handling of ClearJobs, no share ever
\* goes to another session than its job's (stratum_v1.rs:625), and every share
\* counted as accepted was accepted (client.rs:173).
THEOREM SharesKeepTheirSession == Prompt /\ StratumSpec => []SharesStayWithSession
<1> DEFINE Inv == StratumTypes /\ SessionInv /\ ShareInv /\ AnswerInv
<1>1. StratumInit => Inv
  BY TypesInit, SessionInit, ShareInit, AnswerInit
<1>2. ASSUME Prompt, Inv, [StratumNext]_stratumVars PROVE Inv'
  BY <1>2, TypesStep, SessionStep, ShareStep, AnswerStep
<1>3. Inv => SharesStayWithSession
  BY DEF ShareInv, AnswerInv, SharesStayWithSession, SharesToOwnSession, CountedWereAccepted
<1>4. SUFFICES ASSUME Prompt PROVE StratumSpec => []SharesStayWithSession
  OBVIOUS
<1>5. Inv /\ [StratumNext]_stratumVars => Inv'
  BY <1>2, <1>4
<1> QED BY <1>1, <1>3, <1>5, PTL DEF StratumSpec

-----------------------------------------------------------------------------
(* Templates are of jobs the pool announced on their session.              *)

Announced(n, s) == \E a \in announced : a.n = n /\ a.ses = s

AnnouncedInv ==
    /\ \A a \in announced : a.n > left.jobs
    /\ \A m \in Elems(toClient) : m.type = "notify" => Announced(m.n, session)
    /\ \A e \in Elems(events) : e.type = "notify" => Announced(e.n, session)
    /\ \A e \in Elems(tx) : e.type # "clear" => Announced(e.job.n, e.job.ses)
    /\ \A j \in known : Announced(j.n, j.ses)

LEMMA AnnouncedInit == StratumInit => AnnouncedInv
<1> SUFFICES ASSUME StratumInit PROVE AnnouncedInv
  OBVIOUS
<1>1. announced = {} /\ toClient = <<>> /\ events = <<>> /\ tx = <<>> /\ known = {}
  BY DEF StratumInit
<1>2. Elems(toClient) = {} /\ Elems(events) = {} /\ Elems(tx) = {}
  BY <1>1, ElemsEmpty
<1> QED BY <1>1, <1>2 DEF AnnouncedInv

LEMMA AnnouncedStep ==
    ASSUME StratumTypes, SessionInv, AnnouncedInv, [StratumNext]_stratumVars
    PROVE  AnnouncedInv'
<1>1. /\ tx \in Seq(SourceEvents) /\ toClient \in Seq(Lines) /\ events \in Seq(ClientEvents)
      /\ left \in BudgetType /\ left.jobs \in Nat /\ announced \subseteq Announcements
      /\ None \notin ProtocolStates /\ None \notin Nat
  BY StratumConstants DEF StratumTypes, SchedTypes, ClientTypes, PoolTypes, BudgetType
<1>4. CASE SchedulerTakes
  <2>1. UNCHANGED <<announced, session, events, toClient, left>>
    BY <1>4 DEF SchedulerTakes, linkVars, poolVars, quiet
  <2>2. /\ Head(tx) \in Elems(tx) /\ Elems(tx') \subseteq Elems(tx)
        /\ Head(tx).type = "clear" => known' = {}
        /\ Head(tx).type # "clear" => known' \subseteq known \cup {Head(tx).job}
    BY <1>4, TakeCases
  <2> QED BY <2>1, <2>2 DEF AnnouncedInv, Announced
<1>5. CASE SchedulerSubmits \/ SchedulerAnnounces
  <2>1. UNCHANGED <<announced, session, events, toClient, tx, known>>
    BY <1>5 DEF SchedulerSubmits, SchedulerAnnounces, linkVars, poolVars
  <2>2. left'.jobs = left.jobs
    <3>1. CASE SchedulerSubmits
      BY <1>1, <3>1, SpendType DEF SchedulerSubmits
    <3>2. CASE SchedulerAnnounces
      BY <1>1, <3>2 DEF SchedulerAnnounces, BudgetType
    <3> QED BY <1>5, <3>1, <3>2
  <2> QED BY <2>1, <2>2 DEF AnnouncedInv, Announced
<1>6. CASE Connect
  <2>1. events' = <<>> /\ toClient' = <<>> /\ UNCHANGED <<announced, tx, known>>
    BY <1>6 DEF Connect, schedVars
  <2>2. Elems(toClient') = {} /\ Elems(events') = {}
    BY <2>1, ElemsEmpty
  <2>3. left'.jobs = left.jobs
    BY <1>1, <1>6, SpendType DEF Connect
  <2> QED BY <2>1, <2>2, <2>3 DEF AnnouncedInv, Announced
<1>7. CASE SourceMoves
  <2>1. UNCHANGED <<announced, session, toClient, known>>
    BY <1>7, SourceFrame DEF linkVars, poolVars
  <2>2. left'.jobs = left.jobs
    <3>1. left' = left \/ ConnectFails
      BY <1>7 DEF SourceMoves, WaitForRate, ClientGone, BackoffDrains, BackoffEnds, SourceRate,
         CooldownPasses, CooldownFlush, SourceSubmit, HandleClientEvent, quiet
    <3> QED BY <1>1, <3>1, SpendType DEF ConnectFails
  <2>3. CASE HandleClientEvent
    <3> DEFINE e == Head(events)
    <3>1. /\ e \in Elems(events) /\ Elems(events') \subseteq Elems(events)
          /\ \/ tx' = tx
             \/ \E x \in SourceEvents :
                  /\ Elems(tx') = Elems(tx) \cup {x} /\ e.type = "notify"
                  /\ state \in ProtocolStates /\ state.en1 \in Nat
                  /\ x.job.n = e.n /\ x.job.ses = state.en1
      BY <2>3, HandleCases, Zenon
    <3> HIDE DEF e
    <3>2. \A y \in Elems(tx') : y.type # "clear" => Announced(y.job.n, y.job.ses)
      <4>1. CASE tx' = tx
        BY <4>1 DEF AnnouncedInv
      <4>2. CASE tx' # tx
        <5>1. PICK x \in SourceEvents :
                  /\ Elems(tx') = Elems(tx) \cup {x} /\ e.type = "notify"
                  /\ state \in ProtocolStates /\ state.en1 \in Nat
                  /\ x.job.n = e.n /\ x.job.ses = state.en1
          BY <3>1, <4>2
        <5>2. x.job.ses = session
          <6>1. state # None
            BY <1>1, <5>1
          <6> QED BY <1>1, <5>1, <6>1 DEF SessionInv
        <5>3. Announced(x.job.n, x.job.ses)
          BY <3>1, <5>1, <5>2 DEF AnnouncedInv
        <5> QED BY <5>1, <5>3 DEF AnnouncedInv
      <4> QED BY <4>1, <4>2
    <3> QED BY <2>1, <2>2, <3>1, <3>2 DEF AnnouncedInv, Announced
  <2>4. CASE ~HandleClientEvent
    <3>1. events' = events /\ (tx' = tx \/ tx' = ClearJobs(tx))
      BY <1>7, <2>4 DEF SourceMoves, WaitForRate, ConnectFails, ClientGone, BackoffDrains, BackoffEnds,
         SourceRate, CooldownPasses, CooldownFlush, SourceSubmit, schedVars
    <3>2. Elems(tx') \subseteq Elems(tx) \cup {[type |-> "clear"]}
      BY <1>1, <3>1, WithdrawnClear
    <3> QED BY <2>1, <2>2, <3>1, <3>2 DEF AnnouncedInv, Announced
  <2> QED BY <2>3, <2>4
<1>8. CASE ClientSteps
  <2>1. UNCHANGED <<announced, session, tx, known>>
    BY <1>8, ClientFrame DEF clientRest, schedVars, poolVars
  <2>2. Elems(toClient') \subseteq Elems(toClient) \cup {Garbage} /\ Garbage.type = "garbage"
    BY <1>8, LinesShrink, LineTypes
  <2>3. \A e \in Elems(events') : e.type = "notify" => Announced(e.n, session)
    <3>1. CASE events' = events
      BY <3>1 DEF AnnouncedInv
    <3>2. CASE events' # events
      <4>1. PICK e \in ClientEvents :
                   /\ Elems(events') = Elems(events) \cup {e}
                   /\ e.type \in {"notify", "diff"} => toClient # <<>> /\ e = Head(toClient)
        BY <1>8, <3>2, EmitCases, Zenon
      <4>2. toClient # <<>> => Head(toClient) \in Elems(toClient)
        BY <1>1, ElemsTail
      <4> QED BY <4>1, <4>2 DEF AnnouncedInv
    <3> QED BY <3>1, <3>2
  <2>4. left'.jobs = left.jobs
    <3>1. left' = left \/ Spend("faults")
      BY <1>8 DEF ClientSteps, ReadPart, ReadResponse, ReadStray, ReadNotification, ReadReconnect,
         ReadGarbage, ReadEof, RequestTimesOut, TakeCommand, ReadLine
    <3> QED BY <1>1, <3>1, SpendType
  <2> QED BY <2>1, <2>2, <2>3, <2>4 DEF AnnouncedInv, Announced
<1>9. CASE PoolSteps
  <2>1. UNCHANGED <<session, events, tx, known>>
    BY <1>9, PoolFrame DEF schedVars
  <2>2. CASE PoolNotifies
    <3> DEFINE b == [n |-> left.jobs, ses |-> session, diff |-> poolDiff]
    <3>1. announced' = announced \cup {b} /\ Spend("jobs")
      BY <2>2 DEF PoolNotifies
    <3>2. b.n = left.jobs /\ b.ses = session
      OBVIOUS
    <3> HIDE DEF b
    <3>3. left.jobs > 0 /\ left'.jobs = left.jobs - 1
      BY <1>1, <3>1, SpendType
    <3>4. PICK x \in Lines : toClient' = Append(toClient, x) /\ x.n = left.jobs
      BY <2>2, SaysCases, Zenon
    <3>5. Elems(toClient') = Elems(toClient) \cup {x}
      BY <1>1, <3>4, ElemsAppend
    <3> DEFINE Now(n, s) == \E a \in announced' : a.n = n /\ a.ses = s
    <3>6. \A n, s : Announced(n, s) => Now(n, s)
      BY <3>1 DEF Announced
    <3>7. Now(x.n, session)
      BY <3>1, <3>2, <3>4
    <3> HIDE DEF Now
    <3>8. \A a \in announced' : a.n > left'.jobs
      <4>1. \A a \in announced : a.n \in Nat /\ a.n > left.jobs
        BY <1>1 DEF AnnouncedInv, Announcements
      <4> QED BY <1>1, <3>1, <3>2, <3>3, <4>1
    <3>9. \A m \in Elems(toClient') : m.type = "notify" => Now(m.n, session)
      BY <3>5, <3>6, <3>7 DEF AnnouncedInv
    <3>10. /\ \A e \in Elems(events) : e.type = "notify" => Now(e.n, session)
           /\ \A e \in Elems(tx) : e.type # "clear" => Now(e.job.n, e.job.ses)
           /\ \A j \in known : Now(j.n, j.ses)
      BY <3>6 DEF AnnouncedInv
    <3> QED BY <2>1, <3>8, <3>9, <3>10, Zenon DEF AnnouncedInv, Announced, Now
  <2>3. CASE PoolSets \/ PoolDisturbs
    <3>1. left'.jobs = left.jobs
      BY <1>1, <2>3, SpendType DEF PoolSets, PoolDisturbs
    <3>2. announced' = announced
      BY <2>3 DEF PoolSets, PoolDisturbs
    <3>3. ~PoolNotifies
      <4>1. PoolNotifies => left'.jobs # left.jobs
        <5> SUFFICES ASSUME PoolNotifies PROVE left'.jobs # left.jobs
          OBVIOUS
        <5>1. left'.jobs = left.jobs - 1
          BY <1>1, SpendType DEF PoolNotifies
        <5> QED BY <1>1, <5>1
      <4> QED BY <3>1, <4>1
    <3>4. PICK x \in Lines : toClient' = Append(toClient, x) /\ x.type # "notify"
      BY <2>3, <3>3, SaysCases, Zenon
    <3>5. Elems(toClient') = Elems(toClient) \cup {x}
      BY <1>1, <3>4, ElemsAppend
    <3> QED BY <2>1, <3>1, <3>2, <3>4, <3>5 DEF AnnouncedInv, Announced
  <2>4. CASE PoolAnswers
    <3>1. announced' = announced
      BY <2>4 DEF PoolAnswers
    <3>2. left'.jobs = left.jobs
      <4>1. left' = left \/ Spend("faults")
        BY <2>4 DEF PoolAnswers
      <4> QED BY <1>1, <4>1, SpendType
    <3>3. \A m \in Elems(toClient') : m \in Elems(toClient) \/ m.type = "response"
      <4> DEFINE r == Head(toPool)
      <4>1. /\ r \in PoolRequests
            /\ \/ \E m \in Masks : toClient' = Append(toClient, Response(r.id, "yes", m))
               \/ toClient' = toClient
               \/ \E v \in {"no", "bad"} : toClient' = Append(toClient, Response(r.id, v, None))
        BY <2>4, AnswerCases, Zenon
      <4> HIDE DEF r
      <4>2. \A v \in {"yes", "no", "bad"}, m \in OptMask :
              /\ Response(r.id, v, m).type = "response"
              /\ Elems(Append(toClient, Response(r.id, v, m))) = Elems(toClient) \cup {Response(r.id, v, m)}
        BY <4>1, AnsweredLine
      <4>3. None \in OptMask /\ Masks \subseteq OptMask
        BY DEF OptMask
      <4>4. CASE \E m \in Masks : toClient' = Append(toClient, Response(r.id, "yes", m))
        BY <4>2, <4>3, <4>4
      <4>5. CASE \E v \in {"no", "bad"} : toClient' = Append(toClient, Response(r.id, v, None))
        BY <4>2, <4>3, <4>5
      <4> QED BY <4>1, <4>4, <4>5
    <3> QED BY <2>1, <3>1, <3>2, <3>3 DEF AnnouncedInv, Announced
  <2>5. CASE PoolCloses
    <3>1. announced' = announced /\ (toClient' = toClient \/ toClient' = <<>>)
      BY <2>5 DEF PoolCloses, poolVars
    <3>2. Elems(toClient') \subseteq Elems(toClient)
      <4>1. toClient' = <<>> => Elems(toClient') = {}
        BY ElemsEmpty
      <4> QED BY <3>1, <4>1
    <3>3. left'.jobs = left.jobs
      BY <1>1, <2>5, SpendType DEF PoolCloses
    <3> QED BY <2>1, <3>1, <3>2, <3>3 DEF AnnouncedInv, Announced
  <2> QED BY <1>9, <2>2, <2>3, <2>4, <2>5 DEF PoolSteps
<1>10. CASE UNCHANGED stratumVars
  BY <1>10 DEF stratumVars, linkVars, poolVars, schedVars, AnnouncedInv, Announced
<1> QED
  BY <1>4, <1>5, <1>6, <1>7, <1>8, <1>9, <1>10
     DEF StratumNext, SchedulerSteps, SourceSteps, SourceMoves

-----------------------------------------------------------------------------
(* Templates are at the difficulty the pool has set.  A difficulty reaches *)
(* the source through two queues; the last set_difficulty before a place   *)
(* in them, or else the state, tells the difficulty that holds there.      *)

NoDiff(s, i) == \A k \in DOMAIN s : k < i => s[k].type # "diff"

DiffIs(s, i, k, d) ==
    /\ k \in DOMAIN s /\ k < i /\ s[k] = SetDifficulty(d)
    /\ \A m \in DOMAIN s : k < m /\ m < i => s[m].type # "diff"

\* The source has, or will have, a state to keep a difficulty in.
Prepared(ev, st)     == st # None \/ \E c \in DOMAIN ev : ev[c].type = "configured"
PreparedAt(ev, st, k) == st # None \/ \E c \in DOMAIN ev : c < k /\ ev[c].type = "configured"

EventTells(ev, st, i, d) ==
    \/ \E k \in DOMAIN ev : DiffIs(ev, i, k, d) /\ PreparedAt(ev, st, k)
    \/ NoDiff(ev, i) /\ st # None /\ st.diff = d

LineTells(ln, ev, st, i, d) ==
    \/ \E k \in DOMAIN ln : DiffIs(ln, i, k, d)
    \/ NoDiff(ln, i) /\ EventTells(ev, st, Len(ev) + 1, d)

LEMMA AppendFacts ==
    ASSUME NEW S, NEW s \in Seq(S), NEW x \in S
    PROVE  /\ Len(s) \in Nat /\ DOMAIN s = 1..Len(s)
           /\ DOMAIN Append(s, x) = 1..(Len(s) + 1) /\ Len(Append(s, x)) = Len(s) + 1
           /\ \A i \in 1..Len(s) : Append(s, x)[i] = s[i]
           /\ Append(s, x)[Len(s) + 1] = x
OBVIOUS

LEMMA TailFacts ==
    ASSUME NEW S, NEW s \in Seq(S), s # <<>>
    PROVE  /\ Len(s) \in Nat /\ Len(s) >= 1 /\ DOMAIN s = 1..Len(s)
           /\ DOMAIN Tail(s) = 1..(Len(s) - 1) /\ Len(Tail(s)) = Len(s) - 1
           /\ \A i \in 1..(Len(s) - 1) : Tail(s)[i] = s[i + 1]
           /\ Head(s) = s[1]
OBVIOUS

LEMMA DiffAppend ==
    ASSUME NEW S, NEW s \in Seq(S), NEW x \in S, NEW d
    PROVE  LET u == Append(s, x)
               n == Len(s)
           IN  /\ \A i \in 1..(n + 1) : /\ NoDiff(s, i) => NoDiff(u, i)
                                        /\ \A k \in DOMAIN s : DiffIs(s, i, k, d) => DiffIs(u, i, k, d)
               /\ x.type # "diff" =>
                    /\ NoDiff(s, n + 1) => NoDiff(u, n + 2)
                    /\ \A k \in DOMAIN s : DiffIs(s, n + 1, k, d) => DiffIs(u, n + 2, k, d)
               /\ x = SetDifficulty(d) => DiffIs(u, n + 2, n + 1, d)
<1> DEFINE u == Append(s, x)
           n == Len(s)
<1>1. /\ n \in Nat /\ DOMAIN s = 1..n /\ DOMAIN u = 1..(n + 1)
      /\ \A i \in 1..n : u[i] = s[i]
      /\ u[n + 1] = x
  BY AppendFacts
<1> HIDE DEF u, n
<1>2. ASSUME NEW i \in 1..(n + 1) PROVE NoDiff(s, i) => NoDiff(u, i)
  BY <1>1 DEF NoDiff
<1>3. ASSUME NEW i \in 1..(n + 1), NEW k \in DOMAIN s, DiffIs(s, i, k, d) PROVE DiffIs(u, i, k, d)
  BY <1>1, <1>3 DEF DiffIs
<1>4. ASSUME x.type # "diff", NoDiff(s, n + 1) PROVE NoDiff(u, n + 2)
  BY <1>1, <1>4 DEF NoDiff
<1>5. ASSUME x.type # "diff", NEW k \in DOMAIN s, DiffIs(s, n + 1, k, d) PROVE DiffIs(u, n + 2, k, d)
  BY <1>1, <1>5 DEF DiffIs
<1>6. ASSUME x = SetDifficulty(d) PROVE DiffIs(u, n + 2, n + 1, d)
  BY <1>1, <1>6 DEF DiffIs
<1>7. /\ \A i \in 1..(n + 1) : /\ NoDiff(s, i) => NoDiff(u, i)
                               /\ \A k \in DOMAIN s : DiffIs(s, i, k, d) => DiffIs(u, i, k, d)
      /\ x.type # "diff" =>
           /\ NoDiff(s, n + 1) => NoDiff(u, n + 2)
           /\ \A k \in DOMAIN s : DiffIs(s, n + 1, k, d) => DiffIs(u, n + 2, k, d)
      /\ x = SetDifficulty(d) => DiffIs(u, n + 2, n + 1, d)
  BY <1>2, <1>3, <1>4, <1>5, <1>6, Zenon
<1> QED BY <1>7, Zenon DEF u, n

LEMMA DiffTail ==
    ASSUME NEW S, NEW s \in Seq(S), s # <<>>, NEW i \in Nat, i > 1, NEW d
    PROVE  /\ NoDiff(s, i) => NoDiff(Tail(s), i - 1)
           /\ \A k \in DOMAIN s : DiffIs(s, i, k, d) =>
                IF k = 1 THEN Head(s) = SetDifficulty(d) /\ NoDiff(Tail(s), i - 1)
                ELSE k - 1 \in DOMAIN Tail(s) /\ DiffIs(Tail(s), i - 1, k - 1, d)
           /\ NoDiff(s, i) => Head(s).type # "diff"
<1> DEFINE u == Tail(s)
           n == Len(s)
           h == Head(s)
<1>1. /\ n \in Nat /\ n >= 1 /\ DOMAIN s = 1..n /\ DOMAIN u = 1..(n - 1)
      /\ \A j \in 1..(n - 1) : u[j] = s[j + 1]
      /\ h = s[1]
  BY TailFacts
<1> HIDE DEF u, n, h
<1>5. /\ 1 \in DOMAIN s
      /\ \A j \in DOMAIN u : /\ j + 1 \in DOMAIN s /\ u[j] = s[j + 1] /\ j + 1 > 1
                             /\ j < i - 1 => j + 1 < i
      /\ \A k \in DOMAIN s : k # 1 => k - 1 \in DOMAIN u /\ u[k - 1] = s[k] /\ (k < i => k - 1 < i - 1)
      /\ \A k \in DOMAIN s : \A j \in DOMAIN u : k - 1 < j => k < j + 1
  BY <1>1
<1>2. ASSUME NoDiff(s, i) PROVE NoDiff(u, i - 1) /\ h.type # "diff"
  <2>1. h.type # "diff"
    BY <1>1, <1>2, <1>5 DEF NoDiff
  <2>2. ASSUME NEW j \in DOMAIN u, j < i - 1 PROVE u[j].type # "diff"
    BY <1>2, <1>5, <2>2 DEF NoDiff
  <2> QED BY <2>1, <2>2 DEF NoDiff
<1>3. ASSUME NEW k \in DOMAIN s, DiffIs(s, i, k, d), k = 1
      PROVE  h = SetDifficulty(d) /\ NoDiff(u, i - 1)
  <2>1. ASSUME NEW j \in DOMAIN u, j < i - 1 PROVE u[j].type # "diff"
    <3>1. j + 1 \in DOMAIN s /\ u[j] = s[j + 1] /\ k < j + 1 /\ j + 1 < i
      BY <1>3, <1>5, <2>1
    <3> QED BY <1>3, <3>1 DEF DiffIs
  <2> QED BY <1>1, <1>3, <2>1 DEF NoDiff, DiffIs
<1>4. ASSUME NEW k \in DOMAIN s, DiffIs(s, i, k, d), k # 1
      PROVE  k - 1 \in DOMAIN u /\ DiffIs(u, i - 1, k - 1, d)
  <2>1. k - 1 \in DOMAIN u /\ k - 1 < i - 1 /\ u[k - 1] = SetDifficulty(d)
    BY <1>4, <1>5 DEF DiffIs
  <2>2. ASSUME NEW j \in DOMAIN u, k - 1 < j, j < i - 1 PROVE u[j].type # "diff"
    <3>1. j + 1 \in DOMAIN s /\ u[j] = s[j + 1] /\ k < j + 1 /\ j + 1 < i
      BY <1>4, <1>5, <2>2
    <3> QED BY <1>4, <3>1 DEF DiffIs
  <2> QED BY <2>1, <2>2 DEF DiffIs
<1> QED BY <1>2, <1>3, <1>4 DEF u, h

\* An event arrives.
LEMMA TellAppend ==
    ASSUME NEW ev \in Seq(ClientEvents), NEW e \in ClientEvents, NEW st, NEW d
    PROVE  LET u == Append(ev, e)
           IN  /\ \A i \in 1..(Len(ev) + 1) : EventTells(ev, st, i, d) => EventTells(u, st, i, d)
               /\ e.type # "diff" /\ EventTells(ev, st, Len(ev) + 1, d) => EventTells(u, st, Len(u) + 1, d)
               /\ e = SetDifficulty(d) /\ Prepared(ev, st) => EventTells(u, st, Len(u) + 1, d)
               /\ Prepared(ev, st) => Prepared(u, st)
<1> DEFINE u == Append(ev, e)
           n == Len(ev)
<1>1. /\ n \in Nat /\ DOMAIN ev = 1..n /\ DOMAIN u = 1..(n + 1) /\ Len(u) = n + 1
      /\ \A i \in 1..n : u[i] = ev[i]
      /\ u[n + 1] = e
  BY AppendFacts
<1>2. /\ \A i \in 1..(n + 1) : /\ NoDiff(ev, i) => NoDiff(u, i)
                               /\ \A k \in DOMAIN ev : DiffIs(ev, i, k, d) => DiffIs(u, i, k, d)
      /\ e.type # "diff" =>
           /\ NoDiff(ev, n + 1) => NoDiff(u, n + 2)
           /\ \A k \in DOMAIN ev : DiffIs(ev, n + 1, k, d) => DiffIs(u, n + 2, k, d)
      /\ e = SetDifficulty(d) => DiffIs(u, n + 2, n + 1, d)
  BY DiffAppend, Zenon
<1> HIDE DEF u, n
<1>3. \A k : PreparedAt(ev, st, k) => PreparedAt(u, st, k)
  BY <1>1 DEF PreparedAt
<1>4. DOMAIN ev \subseteq DOMAIN u /\ n + 1 \in DOMAIN u /\ Len(u) + 1 = n + 2
  BY <1>1
<1>5. ASSUME NEW i \in 1..(n + 1), EventTells(ev, st, i, d) PROVE EventTells(u, st, i, d)
  BY <1>2, <1>3, <1>4, <1>5, Zenon DEF EventTells
<1>6. ASSUME e.type # "diff", EventTells(ev, st, n + 1, d) PROVE EventTells(u, st, n + 2, d)
  BY <1>2, <1>3, <1>4, <1>6, Zenon DEF EventTells
<1>7. ASSUME e = SetDifficulty(d), Prepared(ev, st) PROVE EventTells(u, st, n + 2, d)
  <2>1. PreparedAt(u, st, n + 1)
    BY <1>1, <1>7 DEF Prepared, PreparedAt
  <2> QED BY <1>2, <1>4, <1>7, <2>1, Zenon DEF EventTells
<1>8. Prepared(ev, st) => Prepared(u, st)
  BY <1>1 DEF Prepared
<1> HIDE DEF EventTells
<1>9. /\ \A i \in 1..(n + 1) : EventTells(ev, st, i, d) => EventTells(u, st, i, d)
      /\ e.type # "diff" /\ EventTells(ev, st, n + 1, d) => EventTells(u, st, Len(u) + 1, d)
      /\ e = SetDifficulty(d) /\ Prepared(ev, st) => EventTells(u, st, Len(u) + 1, d)
      /\ Prepared(ev, st) => Prepared(u, st)
  BY <1>4, <1>5, <1>6, <1>7, <1>8, Zenon
<1> QED BY <1>9, Zenon DEF u, n

\* The first event is handled.
Follows(e, st, st2) ==
    /\ e.type = "configured" \/ st # None => st2 # None
    /\ e.type = "diff" /\ st # None => st2.diff = e.d
    /\ e.type # "diff" /\ st # None => st2.diff = st.diff

Handled(ev, st, st2, d) ==
    /\ \A i \in Nat : i > 1 /\ EventTells(ev, st, i, d) => EventTells(Tail(ev), st2, i - 1, d)
    /\ EventTells(ev, st, 1, d) => st # None /\ st.diff = d
    /\ EventTells(ev, st, Len(ev) + 1, d) => EventTells(Tail(ev), st2, Len(Tail(ev)) + 1, d)
    /\ Prepared(ev, st) => Prepared(Tail(ev), st2)

LEMMA TellTail ==
    ASSUME NEW ev \in Seq(ClientEvents), ev # <<>>, NEW st, NEW st2, Follows(Head(ev), st, st2), NEW d
    PROVE  Handled(ev, st, st2, d)
<1> DEFINE u == Tail(ev)
           n == Len(ev)
           h == Head(ev)
<1>1. /\ n \in Nat /\ n >= 1 /\ DOMAIN ev = 1..n /\ DOMAIN u = 1..(n - 1) /\ Len(u) = n - 1
      /\ \A i \in 1..(n - 1) : u[i] = ev[i + 1]
      /\ h = ev[1]
  BY TailFacts
<1>2. ASSUME NEW i \in Nat, i > 1
      PROVE  /\ NoDiff(ev, i) => NoDiff(u, i - 1) /\ h.type # "diff"
             /\ \A k \in DOMAIN ev : DiffIs(ev, i, k, d) =>
                  IF k = 1 THEN h = SetDifficulty(d) /\ NoDiff(u, i - 1)
                  ELSE k - 1 \in DOMAIN u /\ DiffIs(u, i - 1, k - 1, d)
  BY <1>2, DiffTail
<1>3. Follows(h, st, st2)
  OBVIOUS
<1> HIDE DEF u, n, h
<1>4. ASSUME NEW k \in DOMAIN ev, PreparedAt(ev, st, k)
      PROVE  (k = 1 => st # None) /\ (k # 1 => PreparedAt(u, st2, k - 1))
  <2>1. CASE st # None
    BY <1>3, <2>1 DEF PreparedAt, Follows
  <2>2. CASE st = None
    <3>1. PICK c \in DOMAIN ev : c < k /\ ev[c].type = "configured"
      BY <1>4, <2>2 DEF PreparedAt
    <3>2. CASE c = 1
      BY <1>1, <1>3, <3>1, <3>2 DEF PreparedAt, Follows
    <3>3. CASE c # 1
      <4>1. c - 1 \in DOMAIN u /\ u[c - 1] = ev[c] /\ c - 1 < k - 1 /\ k # 1
        BY <1>1, <3>1, <3>3
      <4> QED BY <3>1, <4>1 DEF PreparedAt
    <3> QED BY <3>2, <3>3
  <2> QED BY <2>1, <2>2
<1>5. ASSUME NEW i \in Nat, i > 1, EventTells(ev, st, i, d) PROVE EventTells(u, st2, i - 1, d)
  <2>1. CASE NoDiff(ev, i) /\ st # None /\ st.diff = d
    BY <1>2, <1>3, <1>5, <2>1 DEF EventTells, Follows
  <2>2. CASE \E k \in DOMAIN ev : DiffIs(ev, i, k, d) /\ PreparedAt(ev, st, k)
    <3>1. PICK k \in DOMAIN ev : DiffIs(ev, i, k, d) /\ PreparedAt(ev, st, k)
      BY <2>2
    <3>2. CASE k = 1
      <4>1. h = SetDifficulty(d) /\ NoDiff(u, i - 1) /\ st # None
        BY <1>2, <1>4, <1>5, <3>1, <3>2
      <4>2. st2 # None /\ st2.diff = d
        BY <1>3, <4>1, LineTypes DEF Follows
      <4> QED BY <4>1, <4>2 DEF EventTells
    <3>3. CASE k # 1
      <4>1. k - 1 \in DOMAIN u /\ DiffIs(u, i - 1, k - 1, d) /\ PreparedAt(u, st2, k - 1)
        BY <1>2, <1>4, <1>5, <3>1, <3>3
      <4> QED BY <4>1, Zenon DEF EventTells
    <3> QED BY <3>2, <3>3
  <2> QED BY <1>5, <2>1, <2>2 DEF EventTells
<1>6. ASSUME EventTells(ev, st, 1, d) PROVE st # None /\ st.diff = d
  <2>1. \A k \in DOMAIN ev : ~DiffIs(ev, 1, k, d)
    BY <1>1 DEF DiffIs
  <2> QED BY <1>6, <2>1 DEF EventTells
<1>7. ASSUME EventTells(ev, st, n + 1, d) PROVE EventTells(u, st2, Len(u) + 1, d)
  <2>1. n + 1 \in Nat /\ n + 1 > 1 /\ (n + 1) - 1 = Len(u) + 1
    BY <1>1
  <2> QED BY <1>5, <1>7, <2>1
<1>8. ASSUME Prepared(ev, st) PROVE Prepared(u, st2)
  <2>1. CASE st # None
    BY <1>3, <2>1 DEF Prepared, Follows
  <2>2. CASE st = None
    <3>1. PICK c \in DOMAIN ev : ev[c].type = "configured"
      BY <1>8, <2>2 DEF Prepared
    <3>2. CASE c = 1
      BY <1>1, <1>3, <3>1, <3>2 DEF Prepared, Follows
    <3>3. CASE c # 1
      <4>1. c - 1 \in DOMAIN u /\ u[c - 1] = ev[c]
        BY <1>1, <3>1, <3>3
      <4> QED BY <3>1, <4>1 DEF Prepared
    <3> QED BY <3>2, <3>3
  <2> QED BY <2>1, <2>2
<1> HIDE DEF EventTells
<1> QED BY <1>5, <1>6, <1>7, <1>8 DEF u, n, Handled

\* A line arrives.
LEMMA LineAppend ==
    ASSUME NEW ln \in Seq(Lines), NEW x \in Lines, NEW ev, NEW st, NEW d
    PROVE  LET u == Append(ln, x)
           IN  /\ \A i \in 1..(Len(ln) + 1) : LineTells(ln, ev, st, i, d) => LineTells(u, ev, st, i, d)
               /\ x.type # "diff" /\ LineTells(ln, ev, st, Len(ln) + 1, d)
                    => LineTells(u, ev, st, Len(u) + 1, d)
               /\ x = SetDifficulty(d) => LineTells(u, ev, st, Len(u) + 1, d)
<1> DEFINE u == Append(ln, x)
           n == Len(ln)
<1>1. n \in Nat /\ DOMAIN ln = 1..n /\ DOMAIN u = 1..(n + 1) /\ Len(u) = n + 1
  BY AppendFacts
<1>2. /\ \A i \in 1..(n + 1) : /\ NoDiff(ln, i) => NoDiff(u, i)
                               /\ \A k \in DOMAIN ln : DiffIs(ln, i, k, d) => DiffIs(u, i, k, d)
      /\ x.type # "diff" =>
           /\ NoDiff(ln, n + 1) => NoDiff(u, n + 2)
           /\ \A k \in DOMAIN ln : DiffIs(ln, n + 1, k, d) => DiffIs(u, n + 2, k, d)
      /\ x = SetDifficulty(d) => DiffIs(u, n + 2, n + 1, d)
  BY DiffAppend, Zenon
<1> HIDE DEF u, n
<1>3. DOMAIN ln \subseteq DOMAIN u /\ n + 1 \in DOMAIN u /\ Len(u) + 1 = n + 2
  BY <1>1
<1>4. ASSUME NEW i \in 1..(n + 1), LineTells(ln, ev, st, i, d) PROVE LineTells(u, ev, st, i, d)
  BY <1>2, <1>3, <1>4, Zenon DEF LineTells
<1>5. ASSUME x.type # "diff", LineTells(ln, ev, st, n + 1, d) PROVE LineTells(u, ev, st, Len(u) + 1, d)
  BY <1>2, <1>3, <1>5, Zenon DEF LineTells
<1>6. ASSUME x = SetDifficulty(d) PROVE LineTells(u, ev, st, Len(u) + 1, d)
  BY <1>2, <1>3, <1>6, Zenon DEF LineTells
<1>7. /\ \A i \in 1..(n + 1) : LineTells(ln, ev, st, i, d) => LineTells(u, ev, st, i, d)
      /\ x.type # "diff" /\ LineTells(ln, ev, st, n + 1, d) => LineTells(u, ev, st, Len(u) + 1, d)
      /\ x = SetDifficulty(d) => LineTells(u, ev, st, Len(u) + 1, d)
  BY <1>4, <1>5, <1>6, Zenon
<1> QED BY <1>7, Zenon DEF u, n

\* A line that sets no difficulty is read.
LEMMA LineTail ==
    ASSUME NEW ln \in Seq(Lines), ln # <<>>, Head(ln).type # "diff", NEW ev, NEW st, NEW d,
           NEW i \in Nat, i > 1, LineTells(ln, ev, st, i, d)
    PROVE  LineTells(Tail(ln), ev, st, i - 1, d)
<1> DEFINE u == Tail(ln)
<1>1. /\ NoDiff(ln, i) => NoDiff(u, i - 1)
      /\ \A k \in DOMAIN ln : DiffIs(ln, i, k, d) =>
           IF k = 1 THEN Head(ln) = SetDifficulty(d) /\ NoDiff(u, i - 1)
           ELSE k - 1 \in DOMAIN u /\ DiffIs(u, i - 1, k - 1, d)
  BY DiffTail
<1>2. Head(ln) # SetDifficulty(d)
  BY LineTypes
<1> HIDE DEF u
<1>3. ASSUME NEW k \in DOMAIN ln, DiffIs(ln, i, k, d)
      PROVE  k - 1 \in DOMAIN u /\ DiffIs(u, i - 1, k - 1, d)
  BY <1>1, <1>2, <1>3
<1>4. LineTells(u, ev, st, i - 1, d)
  BY <1>1, <1>3, Zenon DEF LineTells
<1> QED BY <1>4 DEF u

\* A line is read and becomes an event.
LEMMA LineMoved ==
    ASSUME NEW ln \in Seq(Lines), ln # <<>>, NEW ev \in Seq(ClientEvents), Head(ln) \in ClientEvents,
           NEW st, NEW d, Prepared(ev, st), NEW i \in Nat, i > 1, LineTells(ln, ev, st, i, d)
    PROVE  LineTells(Tail(ln), Append(ev, Head(ln)), st, i - 1, d)
<1> DEFINE u == Tail(ln)
           h == Head(ln)
           v == Append(ev, h)
<1>1. /\ NoDiff(ln, i) => NoDiff(u, i - 1) /\ h.type # "diff"
      /\ \A k \in DOMAIN ln : DiffIs(ln, i, k, d) =>
           IF k = 1 THEN h = SetDifficulty(d) /\ NoDiff(u, i - 1)
           ELSE k - 1 \in DOMAIN u /\ DiffIs(u, i - 1, k - 1, d)
  BY DiffTail
<1>2. /\ h.type # "diff" /\ EventTells(ev, st, Len(ev) + 1, d) => EventTells(v, st, Len(v) + 1, d)
      /\ h = SetDifficulty(d) => EventTells(v, st, Len(v) + 1, d)
  BY TellAppend, Zenon
<1> HIDE DEF u, v, h
<1>3. ASSUME NoDiff(ln, i), EventTells(ev, st, Len(ev) + 1, d)
      PROVE  LineTells(u, v, st, i - 1, d)
  BY <1>1, <1>2, <1>3, Zenon DEF LineTells
<1>4. ASSUME NEW k \in DOMAIN ln, DiffIs(ln, i, k, d)
      PROVE  LineTells(u, v, st, i - 1, d)
  <2>1. CASE k = 1
    BY <1>1, <1>2, <1>4, <2>1, Zenon DEF LineTells
  <2>2. CASE k # 1
    <3>1. k - 1 \in DOMAIN u /\ DiffIs(u, i - 1, k - 1, d)
      BY <1>1, <1>4, <2>2
    <3> QED BY <3>1, Zenon DEF LineTells
  <2> QED BY <2>1, <2>2
<1>6. \/ \E k \in DOMAIN ln : DiffIs(ln, i, k, d)
      \/ NoDiff(ln, i) /\ EventTells(ev, st, Len(ev) + 1, d)
  BY DEF LineTells
<1>5. LineTells(u, v, st, i - 1, d)
  BY <1>3, <1>4, <1>6, Zenon
<1> QED BY <1>5 DEF u, v, h

\* Every job of A is told the difficulty it was announced at.
Told(A, ln, ev, st) ==
    \A a \in A : a.diff # None =>
        /\ \A i \in DOMAIN ln : ln[i].type = "notify" /\ ln[i].n = a.n => LineTells(ln, ev, st, i, a.diff)
        /\ \A i \in DOMAIN ev : ev[i].type = "notify" /\ ev[i].n = a.n => EventTells(ev, st, i, a.diff)

LEMMA ToldEmit ==
    ASSUME NEW A, NEW ln \in Seq(Lines), NEW ev \in Seq(ClientEvents), NEW st, NEW e \in ClientEvents,
           e.type \notin {"notify", "diff"}
    PROVE  /\ Told(A, ln, ev, st) => Told(A, ln, Append(ev, e), st)
           /\ \A i, d : LineTells(ln, ev, st, i, d) => LineTells(ln, Append(ev, e), st, i, d)
<1> DEFINE u == Append(ev, e)
           n == Len(ev)
<1>1. /\ n \in Nat /\ DOMAIN ev = 1..n /\ DOMAIN u = 1..(n + 1)
      /\ \A i \in 1..n : u[i] = ev[i]
      /\ u[n + 1] = e
  BY AppendFacts
<1>2. ASSUME NEW d
      PROVE  /\ \A i \in 1..(n + 1) : EventTells(ev, st, i, d) => EventTells(u, st, i, d)
             /\ EventTells(ev, st, n + 1, d) => EventTells(u, st, Len(u) + 1, d)
  BY TellAppend, Zenon
<1> HIDE DEF u
<1>3. \A i, d : LineTells(ln, ev, st, i, d) => LineTells(ln, u, st, i, d)
  BY <1>2, Zenon DEF LineTells, n
<1> HIDE DEF n
<1>4. ASSUME Told(A, ln, ev, st) PROVE Told(A, ln, u, st)
  <2> SUFFICES ASSUME NEW a \in A, a.diff # None
               PROVE  /\ \A i \in DOMAIN ln : ln[i].type = "notify" /\ ln[i].n = a.n
                                                => LineTells(ln, u, st, i, a.diff)
                      /\ \A i \in DOMAIN u : u[i].type = "notify" /\ u[i].n = a.n
                                                => EventTells(u, st, i, a.diff)
    BY Zenon DEF Told
  <2>1. ASSUME NEW i \in DOMAIN ln, ln[i].type = "notify", ln[i].n = a.n
        PROVE  LineTells(ln, u, st, i, a.diff)
    BY <1>3, <1>4, <2>1, Zenon DEF Told
  <2>2. ASSUME NEW i \in DOMAIN u, u[i].type = "notify", u[i].n = a.n
        PROVE  EventTells(u, st, i, a.diff)
    <3>1. i \in DOMAIN ev /\ i \in 1..(n + 1) /\ u[i] = ev[i]
      BY <1>1, <2>2
    <3>2. EventTells(ev, st, i, a.diff)
      BY <1>4, <2>2, <3>1, Zenon DEF Told
    <3> QED BY <1>2, <3>1, <3>2, Zenon
  <2> QED BY <2>1, <2>2, Zenon
<1> QED BY <1>3, <1>4, Zenon DEF u

LEMMA ToldRead ==
    ASSUME NEW A, NEW ln \in Seq(Lines), ln # <<>>, Head(ln).type # "diff",
           NEW ev \in Seq(ClientEvents), NEW st
    PROVE  /\ Told(A, ln, ev, st) => Told(A, Tail(ln), ev, st)
           /\ \A d : LineTells(ln, ev, st, Len(ln) + 1, d) => LineTells(Tail(ln), ev, st, Len(Tail(ln)) + 1, d)
<1> DEFINE u == Tail(ln)
           n == Len(ln)
<1>1. /\ n \in Nat /\ n >= 1 /\ DOMAIN ln = 1..n /\ DOMAIN u = 1..(n - 1) /\ Len(u) = n - 1
      /\ \A i \in 1..(n - 1) : u[i] = ln[i + 1]
  BY TailFacts
<1>2. ASSUME NEW i \in Nat, i > 1, NEW d, LineTells(ln, ev, st, i, d) PROVE LineTells(u, ev, st, i - 1, d)
  BY <1>2, LineTail
<1> HIDE DEF u, n
<1>3. ASSUME NEW d, LineTells(ln, ev, st, n + 1, d) PROVE LineTells(u, ev, st, Len(u) + 1, d)
  <2>1. n + 1 \in Nat /\ n + 1 > 1 /\ (n + 1) - 1 = Len(u) + 1
    BY <1>1
  <2>2. LineTells(u, ev, st, (n + 1) - 1, d)
    BY <1>2, <1>3, <2>1
  <2> QED BY <2>1, <2>2
<1>4. ASSUME Told(A, ln, ev, st) PROVE Told(A, u, ev, st)
  <2> SUFFICES ASSUME NEW a \in A, a.diff # None, NEW i \in DOMAIN u, u[i].type = "notify", u[i].n = a.n
               PROVE  LineTells(u, ev, st, i, a.diff)
    BY <1>4, Zenon DEF Told
  <2>1. i + 1 \in DOMAIN ln /\ u[i] = ln[i + 1] /\ i + 1 \in Nat /\ i + 1 > 1 /\ (i + 1) - 1 = i
    <3>1. i \in 1..(n - 1) /\ n \in Nat
      BY <1>1
    <3>2. i + 1 \in 1..n /\ i + 1 \in Nat /\ i + 1 > 1 /\ (i + 1) - 1 = i
      BY <3>1
    <3>3. DOMAIN ln = 1..n /\ u[i] = ln[i + 1]
      BY <1>1, <3>1
    <3> QED BY <3>2, <3>3
  <2>2. LineTells(ln, ev, st, i + 1, a.diff)
    BY <1>4, <2>1, Zenon DEF Told
  <2>3. LineTells(u, ev, st, (i + 1) - 1, a.diff)
    BY <1>2, <2>1, <2>2
  <2> QED BY <2>1, <2>3
<1> QED BY <1>3, <1>4, Zenon DEF u, n

LEMMA ToldMoved ==
    ASSUME NEW A, NEW ln \in Seq(Lines), ln # <<>>, NEW ev \in Seq(ClientEvents), Head(ln) \in ClientEvents,
           NEW st
    PROVE  LET v == Append(ev, Head(ln))
           IN  /\ /\ Told(A, ln, ev, st)
                  /\ \A a \in A, m \in Elems(ln) :
                       a.diff # None /\ m.type = "notify" /\ m.n = a.n => Prepared(ev, st)
                  => Told(A, Tail(ln), v, st)
               /\ \A d : Prepared(ev, st) /\ LineTells(ln, ev, st, Len(ln) + 1, d)
                           => LineTells(Tail(ln), v, st, Len(Tail(ln)) + 1, d)
<1> DEFINE u == Tail(ln)
           n == Len(ln)
           h == Head(ln)
           v == Append(ev, h)
           q == Len(ev)
<1>1. /\ n \in Nat /\ n >= 1 /\ DOMAIN ln = 1..n /\ DOMAIN u = 1..(n - 1) /\ Len(u) = n - 1
      /\ \A i \in 1..(n - 1) : u[i] = ln[i + 1]
      /\ h = ln[1]
  BY TailFacts
<1>2. ASSUME NEW i \in Nat, i > 1, NEW d, Prepared(ev, st), LineTells(ln, ev, st, i, d)
      PROVE  LineTells(u, v, st, i - 1, d)
  BY <1>2, LineMoved
<1>3. /\ q \in Nat /\ DOMAIN ev = 1..q /\ DOMAIN v = 1..(q + 1)
      /\ \A i \in 1..q : v[i] = ev[i]
      /\ v[q + 1] = h
  BY AppendFacts
<1>4. ASSUME NEW d, NEW i \in 1..(q + 1), EventTells(ev, st, i, d) PROVE EventTells(v, st, i, d)
  BY <1>4, TellAppend, Zenon
<1>5. ASSUME NEW d, LineTells(ln, ev, st, 1, d) PROVE EventTells(ev, st, q + 1, d)
  <2>1. \A k \in DOMAIN ln : ~DiffIs(ln, 1, k, d)
    BY <1>1 DEF DiffIs
  <2> QED BY <1>5, <2>1, Zenon DEF LineTells
<1> HIDE DEF u, n, h, v, q
<1>6. ASSUME NEW d, Prepared(ev, st), LineTells(ln, ev, st, n + 1, d)
      PROVE  LineTells(u, v, st, Len(u) + 1, d)
  <2>1. n + 1 \in Nat /\ n + 1 > 1 /\ (n + 1) - 1 = Len(u) + 1
    BY <1>1
  <2>2. LineTells(u, v, st, (n + 1) - 1, d)
    BY <1>2, <1>6, <2>1
  <2> QED BY <2>1, <2>2
<1>7. ASSUME Told(A, ln, ev, st),
             \A a \in A, m \in Elems(ln) :
               a.diff # None /\ m.type = "notify" /\ m.n = a.n => Prepared(ev, st)
      PROVE  Told(A, u, v, st)
  <2> SUFFICES ASSUME NEW a \in A, a.diff # None
               PROVE  /\ \A i \in DOMAIN u : u[i].type = "notify" /\ u[i].n = a.n
                                                => LineTells(u, v, st, i, a.diff)
                      /\ \A i \in DOMAIN v : v[i].type = "notify" /\ v[i].n = a.n
                                                => EventTells(v, st, i, a.diff)
    BY Zenon DEF Told
  <2>1. ASSUME NEW i \in DOMAIN u, u[i].type = "notify", u[i].n = a.n
        PROVE  LineTells(u, v, st, i, a.diff)
    <3>1. i + 1 \in DOMAIN ln /\ u[i] = ln[i + 1] /\ i + 1 \in Nat /\ i + 1 > 1 /\ (i + 1) - 1 = i
      BY <1>1
    <3>2. LineTells(ln, ev, st, i + 1, a.diff)
      BY <1>7, <2>1, <3>1, Zenon DEF Told
    <3>3. ln[i + 1] \in Elems(ln)
      BY <3>1 DEF Elems
    <3>4. Prepared(ev, st)
      BY <1>7, <2>1, <3>1, <3>3, Zenon
    <3>5. LineTells(u, v, st, (i + 1) - 1, a.diff)
      BY <1>2, <3>1, <3>2, <3>4
    <3> QED BY <3>1, <3>5
  <2>2. ASSUME NEW i \in DOMAIN v, v[i].type = "notify", v[i].n = a.n
        PROVE  EventTells(v, st, i, a.diff)
    <3>1. CASE i = q + 1
      <4>1. h.type = "notify" /\ h.n = a.n /\ 1 \in DOMAIN ln /\ q + 1 \in 1..(q + 1)
        BY <1>1, <1>3, <2>2, <3>1
      <4>2. LineTells(ln, ev, st, 1, a.diff)
        BY <1>1, <1>7, <4>1, Zenon DEF Told
      <4>3. EventTells(ev, st, q + 1, a.diff)
        BY <1>5, <4>2
      <4> QED BY <1>4, <3>1, <4>1, <4>3
    <3>2. CASE i # q + 1
      <4>1. i \in DOMAIN ev /\ i \in 1..(q + 1) /\ v[i] = ev[i]
        BY <1>3, <2>2, <3>2
      <4>2. EventTells(ev, st, i, a.diff)
        BY <1>7, <2>2, <4>1, Zenon DEF Told
      <4> QED BY <1>4, <4>1, <4>2
    <3> QED BY <3>1, <3>2
  <2> QED BY <2>1, <2>2, Zenon
<1>8. /\ /\ Told(A, ln, ev, st)
         /\ \A a \in A, m \in Elems(ln) :
              a.diff # None /\ m.type = "notify" /\ m.n = a.n => Prepared(ev, st)
         => Told(A, u, v, st)
      /\ \A d : Prepared(ev, st) /\ LineTells(ln, ev, st, n + 1, d) => LineTells(u, v, st, Len(u) + 1, d)
  BY <1>6, <1>7, Zenon
<1> QED BY <1>8, Zenon DEF u, n, v, h

\* What the handling of the head of ev, which takes the state from st to st2, leaves told.
StillTold(A, ln, ev, st, st2) ==
    /\ Told(A, ln, ev, st) => Told(A, ln, Tail(ev), st2)
    /\ \A i, d : LineTells(ln, ev, st, i, d) => LineTells(ln, Tail(ev), st2, i, d)
    /\ \A a \in A : /\ Told(A, ln, ev, st) /\ a.diff # None
                    /\ Head(ev).type = "notify" /\ Head(ev).n = a.n
                    => st # None /\ st.diff = a.diff

LEMMA ToldHandled ==
    ASSUME NEW A, NEW ln \in Seq(Lines), NEW ev \in Seq(ClientEvents), ev # <<>>,
           NEW st, NEW st2, Follows(Head(ev), st, st2)
    PROVE  StillTold(A, ln, ev, st, st2)
<1> DEFINE u == Tail(ev)
           n == Len(ev)
           h == Head(ev)
<1>1. /\ n \in Nat /\ n >= 1 /\ DOMAIN ev = 1..n /\ DOMAIN u = 1..(n - 1)
      /\ \A i \in 1..(n - 1) : u[i] = ev[i + 1]
      /\ h = ev[1]
  BY TailFacts
<1>2. ASSUME NEW d
      PROVE  /\ \A i \in Nat : i > 1 /\ EventTells(ev, st, i, d) => EventTells(u, st2, i - 1, d)
             /\ EventTells(ev, st, 1, d) => st # None /\ st.diff = d
             /\ EventTells(ev, st, n + 1, d) => EventTells(u, st2, Len(u) + 1, d)
  <2>1. Handled(ev, st, st2, d)
    BY TellTail
  <2> QED BY <2>1, Zenon DEF Handled
<1> HIDE DEF u, h
<1>3. \A i, d : LineTells(ln, ev, st, i, d) => LineTells(ln, u, st2, i, d)
  BY <1>2, Zenon DEF LineTells, n
<1> HIDE DEF n
<1>4. ASSUME Told(A, ln, ev, st) PROVE Told(A, ln, u, st2)
  <2> SUFFICES ASSUME NEW a \in A, a.diff # None
               PROVE  /\ \A i \in DOMAIN ln : ln[i].type = "notify" /\ ln[i].n = a.n
                                                => LineTells(ln, u, st2, i, a.diff)
                      /\ \A i \in DOMAIN u : u[i].type = "notify" /\ u[i].n = a.n
                                                => EventTells(u, st2, i, a.diff)
    BY Zenon DEF Told
  <2>1. ASSUME NEW i \in DOMAIN ln, ln[i].type = "notify", ln[i].n = a.n
        PROVE  LineTells(ln, u, st2, i, a.diff)
    BY <1>3, <1>4, <2>1, Zenon DEF Told
  <2>2. ASSUME NEW i \in DOMAIN u, u[i].type = "notify", u[i].n = a.n
        PROVE  EventTells(u, st2, i, a.diff)
    <3>1. i + 1 \in DOMAIN ev /\ u[i] = ev[i + 1] /\ i + 1 \in Nat /\ i + 1 > 1 /\ (i + 1) - 1 = i
      BY <1>1
    <3>2. EventTells(ev, st, i + 1, a.diff)
      BY <1>4, <2>2, <3>1, Zenon DEF Told
    <3>3. EventTells(u, st2, (i + 1) - 1, a.diff)
      BY <1>2, <3>1, <3>2
    <3> QED BY <3>1, <3>3
  <2> QED BY <2>1, <2>2, Zenon
<1>5. ASSUME NEW a \in A, Told(A, ln, ev, st), a.diff # None, h.type = "notify", h.n = a.n
      PROVE  st # None /\ st.diff = a.diff
  <2>1. 1 \in DOMAIN ev /\ ev[1] = h
    BY <1>1
  <2>2. EventTells(ev, st, 1, a.diff)
    BY <1>5, <2>1, Zenon DEF Told
  <2> QED BY <1>2, <2>2, Zenon
<1> QED BY <1>3, <1>4, <1>5, Zenon DEF u, h, StillTold

LEMMA ToldSaid ==
    ASSUME NEW A, NEW ln \in Seq(Lines), NEW x \in Lines, NEW ev, NEW st, Told(A, ln, ev, st),
           x.type = "notify" => \A a \in A : a.diff # None /\ x.n = a.n
                                               => LineTells(ln, ev, st, Len(ln) + 1, a.diff)
    PROVE  Told(A, Append(ln, x), ev, st)
<1> DEFINE u == Append(ln, x)
           n == Len(ln)
<1>1. /\ n \in Nat /\ DOMAIN ln = 1..n /\ DOMAIN u = 1..(n + 1)
      /\ \A i \in 1..n : u[i] = ln[i]
      /\ u[n + 1] = x
  BY AppendFacts
<1>2. ASSUME NEW d, NEW i \in 1..(n + 1), LineTells(ln, ev, st, i, d) PROVE LineTells(u, ev, st, i, d)
  BY <1>2, LineAppend, Zenon
<1>3. x.type = "notify" => \A a \in A : a.diff # None /\ x.n = a.n => LineTells(ln, ev, st, n + 1, a.diff)
  BY Zenon
<1> HIDE DEF u, n
<1>4. Told(A, u, ev, st)
  <2> SUFFICES ASSUME NEW a \in A, a.diff # None, NEW i \in DOMAIN u, u[i].type = "notify", u[i].n = a.n
               PROVE  LineTells(u, ev, st, i, a.diff)
    BY Zenon DEF Told
  <2>1. CASE i = n + 1
    <3>1. x.type = "notify" /\ x.n = a.n /\ n + 1 \in 1..(n + 1)
      BY <1>1, <2>1
    <3>2. LineTells(ln, ev, st, n + 1, a.diff)
      BY <1>3, <3>1, Zenon
    <3> QED BY <1>2, <2>1, <3>1, <3>2
  <2>2. CASE i # n + 1
    <3>1. i \in DOMAIN ln /\ u[i] = ln[i] /\ i \in 1..(n + 1)
      BY <1>1, <2>2
    <3>2. LineTells(ln, ev, st, i, a.diff)
      BY <3>1, Zenon DEF Told
    <3> QED BY <1>2, <3>1, <3>2
  <2> QED BY <2>1, <2>2
<1> QED BY <1>4 DEF u

\* The handshake is past mining.configure and the source will have a state.
ReadyNow == pc # "configure" /\ Prepared(events, state)

ReadyInv ==
    /\ src = "run" =>
         /\ \A r \in Elems(toPool) : r.method = "subscribe" => ReadyNow
         /\ subscribed => ReadyNow
         /\ \A a \in announced, m \in Elems(toClient) :
              a.diff # None /\ m.type = "notify" /\ m.n = a.n => ReadyNow
    /\ poolDiff # None => subscribed

\* The difficulty of a job is told where the job is, and the present one at
\* the end of the queue.
TellInv ==
    /\ src = "run" /\ ~lost =>
         /\ Told(announced, toClient, events, state)
         /\ open /\ poolDiff # None
              => LineTells(toClient, events, state, Len(toClient) + 1, poolDiff)
    /\ ~lost => \A a \in announced : a.diff # None =>
         /\ \A j \in known : j.n = a.n => j.diff = a.diff
         /\ \A e \in Elems(tx) : e.type # "clear" /\ e.job.n = a.n => e.job.diff = a.diff

LEMMA StateFollows ==
    ASSUME NEW e \in ClientEvents, state \in ProtocolStates \cup {None}, None \notin ProtocolStates
    PROVE  Follows(e, state, StateAfter(e))
<1>1. CASE e.type = "configured"
  <2>1. e.mask \in OptMask
    BY <1>1 DEF ClientEvents, Notifications
  <2>2. StateAfter(e) \in ProtocolStates
    BY <1>1, <2>1 DEF StateAfter, ProtocolStates, OptDiff
  <2>3. state # None => StateAfter(e).diff = state.diff
    BY <1>1 DEF StateAfter, ProtocolStates
  <2> QED BY <1>1, <2>2, <2>3 DEF Follows
<1>2. CASE e.type = "subscribed"
  <2>1. e.session \in Nat
    BY <1>2 DEF ClientEvents, Notifications
  <2>2. state # None => StateAfter(e) \in ProtocolStates
    BY <1>2, <2>1 DEF StateAfter, ProtocolStates, OptDiff
  <2>3. state # None => StateAfter(e).diff = state.diff
    BY <1>2 DEF StateAfter, ProtocolStates
  <2> QED BY <1>2, <2>2, <2>3 DEF Follows
<1>3. CASE e.type = "diff"
  <2>1. e.d \in Diffs
    BY <1>3 DEF ClientEvents, Notifications
  <2>2. state # None => StateAfter(e) \in ProtocolStates
    BY <1>3, <2>1 DEF StateAfter, ProtocolStates, OptDiff
  <2>3. state # None => StateAfter(e).diff = e.d
    BY <1>3 DEF StateAfter, ProtocolStates
  <2> QED BY <1>3, <2>2, <2>3 DEF Follows
<1>4. CASE e.type = "mask"
  <2>1. e.m \in Masks
    BY <1>4 DEF ClientEvents, Notifications
  <2>2. state # None => StateAfter(e) \in ProtocolStates
    BY <1>4, <2>1 DEF StateAfter, ProtocolStates, OptMask
  <2>3. state # None => StateAfter(e).diff = state.diff
    BY <1>4 DEF StateAfter, ProtocolStates
  <2> QED BY <1>4, <2>2, <2>3 DEF Follows
<1>5. CASE e.type \notin {"configured", "subscribed", "diff", "mask"}
  BY <1>5 DEF StateAfter, Follows
<1> QED BY <1>1, <1>2, <1>3, <1>4, <1>5

LEMMA PreparedIn ==
    ASSUME NEW ev, NEW st PROVE Prepared(ev, st) <=> (st # None \/ \E e \in Elems(ev) : e.type = "configured")
BY DEF Prepared, Elems

\* Once ready, the connection stays so.
LEMMA ReadyKept ==
    ASSUME StratumTypes, SessionInv, StratumNext, src = "run", src' = "run", ReadyNow
    PROVE  ReadyNow'
<1>1. /\ events \in Seq(ClientEvents) /\ state \in ProtocolStates \cup {None}
      /\ None \notin ProtocolStates
  BY StratumConstants DEF StratumTypes, ClientTypes, SourceTypes
<1>2. ASSUME UNCHANGED <<pc, events, state>> PROVE ReadyNow'
  BY <1>2 DEF ReadyNow, Prepared
<1>3. CASE SchedulerSteps \/ PoolSteps
  BY <1>2, <1>3, SchedFrame, PoolFrame DEF sourceVars, clientVars
<1>4. CASE Connect
  BY <1>4 DEF Connect
<1>5. CASE HandleClientEvent
  <2>1. pc' = pc
    BY <1>5, SourceFrame DEF SourceMoves, clientVars
  <2>2. /\ events # <<>> /\ events' = Tail(events) /\ state' = StateAfter(Head(events))
        /\ Head(events) \in ClientEvents
    BY <1>5, HandleCases
  <2>3. Follows(Head(events), state, state')
    BY <1>1, <2>2, StateFollows
  <2>4. PICK d : d = None
    OBVIOUS
  <2>5. PICK st2 : st2 = state'
    OBVIOUS
  <2>6. Handled(events, state, st2, d)
    BY <1>1, <2>2, <2>3, <2>5, TellTail
  <2>7. Prepared(Tail(events), st2)
    BY <2>6 DEF Handled, ReadyNow
  <2> QED BY <2>1, <2>2, <2>5, <2>7 DEF ReadyNow, Prepared
<1>6. CASE SourceMoves /\ ~HandleClientEvent
  <2>1. pc' = pc
    BY <1>6, SourceFrame DEF clientVars
  <2>2. UNCHANGED <<events, state>>
    BY <1>6 DEF SourceMoves, WaitForRate, ConnectFails, ClientGone, BackoffDrains, BackoffEnds,
       SourceRate, CooldownPasses, CooldownFlush, SourceSubmit, sourceVars
  <2> QED BY <1>2, <2>1, <2>2
<1>7. CASE ClientSteps
  <2>1. state' = state
    BY <1>7, ClientFrame DEF clientRest, sourceVars
  <2>2. pc' # "configure"
    <3>1. pc' = pc \/ pc' \in {"main", "ended"} \/ \E m \in Requests \ {"configure"} : pc' = m
      BY <1>7, RequestMoves, Zenon DEF Carries
    <3> QED BY <3>1 DEF ReadyNow
  <2>3. Elems(events) \subseteq Elems(events')
    BY <1>7, EmitCases
  <2>4. (state # None \/ \E e \in Elems(events) : e.type = "configured")
    BY PreparedIn DEF ReadyNow
  <2>5. PICK ev2, st2 : ev2 = events' /\ st2 = state'
    OBVIOUS
  <2>6. Prepared(ev2, st2)
    <3>1. st2 # None \/ \E e \in Elems(ev2) : e.type = "configured"
      BY <2>1, <2>3, <2>4, <2>5 DEF Elems
    <3> QED BY <3>1, PreparedIn
  <2> QED BY <2>2, <2>5, <2>6 DEF ReadyNow, Prepared
<1> QED BY <1>3, <1>4, <1>5, <1>6, <1>7 DEF StratumNext, SourceSteps, SourceMoves

LEMMA ReadyInit == StratumInit => ReadyInv
BY DEF StratumInit, ReadyInv

LEMMA ReadyStep ==
    ASSUME StratumTypes, SessionInv, AnnouncedInv, ReadyInv, [StratumNext]_stratumVars
    PROVE  ReadyInv'
<1>1. /\ toPool \in Seq(PoolRequests) /\ toClient \in Seq(Lines) /\ events \in Seq(ClientEvents)
      /\ left.jobs \in Nat /\ subscribed \in BOOLEAN /\ announced \subseteq Announcements
  BY DEF StratumTypes, ClientTypes, PoolTypes, BudgetType
<1>2. ASSUME UNCHANGED <<toPool, toClient, subscribed, announced, poolDiff>>,
             src' = "run" => src = "run", StratumNext
      PROVE  ReadyInv'
  <2>1. poolDiff' # None => subscribed'
    BY <1>2 DEF ReadyInv
  <2>2. src' = "run" /\ ReadyNow => ReadyNow'
    BY <1>2, ReadyKept
  <2>3. Elems(toPool') = Elems(toPool) /\ Elems(toClient') = Elems(toClient)
    BY <1>2 DEF Elems
  <2> HIDE DEF ReadyNow
  <2> QED BY <1>2, <2>1, <2>2, <2>3 DEF ReadyInv
<1>3. CASE SchedulerSteps
  <2>1. StratumNext /\ UNCHANGED <<toPool, toClient, subscribed, announced, poolDiff, src>>
    BY <1>3, SchedFrame DEF StratumNext, sourceVars, linkVars, poolVars
  <2> QED BY <1>2, <2>1
<1>4. CASE Connect
  <2>1. /\ toPool' = <<Request("configure", 1, None)>> /\ toClient' = <<>>
        /\ poolDiff' = None /\ subscribed' = FALSE
    BY <1>4 DEF Connect
  <2>2. Elems(toClient') = {}
    BY <2>1, ElemsEmpty
  <2>3. \A r \in Elems(toPool') : r.method # "subscribe"
    BY <2>1 DEF Elems, Request
  <2> QED BY <2>1, <2>2, <2>3 DEF ReadyInv
<1>5. CASE SourceMoves
  <2>1. UNCHANGED <<toPool, toClient, subscribed, announced, poolDiff>>
    BY <1>5, SourceFrame DEF linkVars, poolVars
  <2>2. src' = "run" => src = "run"
    BY <1>5 DEF SourceMoves, WaitForRate, ConnectFails, ClientGone, BackoffDrains, BackoffEnds,
       SourceRate, CooldownPasses, CooldownFlush, SourceSubmit, HandleClientEvent, sourceVars
  <2>3. StratumNext
    BY <1>5 DEF SourceMoves, StratumNext, SourceSteps
  <2> QED BY <1>2, <2>1, <2>2, <2>3
<1>6. CASE ClientSteps
  <2>1. UNCHANGED <<subscribed, announced, poolDiff, src>> /\ StratumNext
    BY <1>6, ClientFrame DEF clientRest, poolVars, sourceVars, StratumNext
  <2>2. src = "run"
    BY <1>6, EmitCases DEF SessionInv
  <2>3. ReadyNow => ReadyNow'
    BY <2>1, <2>2, ReadyKept
  <2>4. Elems(toClient') \subseteq Elems(toClient) \cup {Garbage} /\ Garbage.type = "garbage"
    BY <1>6, LinesShrink, LineTypes
  <2>5. \A r \in Elems(toPool') : r.method = "subscribe" => ReadyNow'
    <3>1. CASE toPool' = toPool
      BY <2>2, <2>3, <3>1 DEF ReadyInv
    <3>2. CASE toPool' # toPool
      <4>1. PICK m \in Requests \ {"configure"}, s \in Shares \cup {None} :
                /\ pc' = m
                /\ Elems(toPool') = Elems(toPool) \cup {Request(m, reqId + 1, s)}
                /\ m = "subscribe" => \E e \in Elems(events') : e.type = "configured"
        BY <1>6, <3>2, RequestMoves, Zenon DEF Carries
      <4>2. Request(m, reqId + 1, s).method = m
        BY DEF Request
      <4>3. m = "subscribe" => ReadyNow'
        <5> SUFFICES ASSUME m = "subscribe" PROVE ReadyNow'
          OBVIOUS
        <5>1. \E c \in DOMAIN events' : events'[c].type = "configured"
          BY <4>1 DEF Elems
        <5> QED BY <4>1, <5>1 DEF ReadyNow, Prepared
      <4> QED BY <2>2, <2>3, <4>1, <4>2, <4>3 DEF ReadyInv
    <3> QED BY <3>1, <3>2
  <2> HIDE DEF ReadyNow
  <2> QED BY <2>1, <2>2, <2>3, <2>4, <2>5 DEF ReadyInv
<1>7. CASE PoolSteps
  <2>1. UNCHANGED <<src, pc, events, state, session>>
    BY <1>7, PoolFrame DEF sourceVars
  <2>2. ReadyNow' = ReadyNow
    BY <2>1 DEF ReadyNow, Prepared
  <2> HIDE DEF ReadyNow
  <2>3. CASE PoolNotifies
    <3> DEFINE b == [n |-> left.jobs, ses |-> session, diff |-> poolDiff]
    <3>1. announced' = announced \cup {b} /\ poolDiff' = poolDiff
      BY <2>3 DEF PoolNotifies
    <3>2. b.n = left.jobs /\ b.diff = poolDiff
      OBVIOUS
    <3> HIDE DEF b
    <3>3. PICK x \in Lines : /\ toClient' = Append(toClient, x) /\ x.n = left.jobs
                             /\ UNCHANGED <<toPool, subscribed>>
      BY <2>3, SaysCases, Zenon
    <3>4. Elems(toClient') = Elems(toClient) \cup {x}
      BY <1>1, <3>3, ElemsAppend
    <3>5. \A a \in announced : a.n # left.jobs
      <4>1. \A a \in announced : a.n \in Nat /\ a.n > left.jobs
        BY <1>1 DEF AnnouncedInv, Announcements
      <4> QED BY <1>1, <4>1
    <3>6. ASSUME src = "run", NEW a \in announced', NEW m \in Elems(toClient'),
                 a.diff # None, m.type = "notify", m.n = a.n
          PROVE  ReadyNow
      <4>1. CASE a = b
        BY <3>2, <3>6, <4>1 DEF ReadyInv
      <4>2. CASE a \in announced
        <5>1. m \in Elems(toClient)
          BY <3>3, <3>4, <3>5, <3>6, <4>2
        <5> QED BY <3>6, <4>2, <5>1 DEF ReadyInv
      <4> QED BY <3>1, <4>1, <4>2
    <3>7. Elems(toPool') = Elems(toPool)
      BY <3>3 DEF Elems
    <3> QED BY <2>1, <2>2, <3>1, <3>3, <3>6, <3>7 DEF ReadyInv
  <2>4. CASE PoolSets \/ PoolDisturbs
    <3>1. announced' = announced
      BY <2>4 DEF PoolSets, PoolDisturbs
    <3>2. PICK x \in Lines : /\ toClient' = Append(toClient, x) /\ (x.type # "notify" \/ PoolNotifies)
                             /\ UNCHANGED <<toPool, subscribed>>
                             /\ x.type # "diff" => poolDiff' = poolDiff
                             /\ x.type = "diff" => poolDiff' = IF subscribed THEN x.d ELSE None
      BY <2>4, SaysCases, Zenon
    <3>3. CASE PoolNotifies
      BY <2>3, <3>3
    <3>4. CASE ~PoolNotifies
      <4>1. Elems(toClient') = Elems(toClient) \cup {x}
        BY <1>1, <3>2, ElemsAppend
      <4>3. Elems(toPool') = Elems(toPool)
        BY <3>2 DEF Elems
      <4>2. poolDiff' # None => subscribed'
        <5>1. poolDiff # None => subscribed
          BY DEF ReadyInv
        <5>2. CASE x.type = "diff"
          BY <3>2, <5>2, Zenon
        <5>3. CASE x.type # "diff"
          BY <3>2, <5>1, <5>3, Zenon
        <5> QED BY <5>2, <5>3
      <4> QED BY <2>1, <2>2, <3>1, <3>2, <3>4, <4>1, <4>2, <4>3 DEF ReadyInv
    <3> QED BY <3>3, <3>4
  <2>5. CASE PoolAnswers
    <3>1. announced' = announced /\ poolDiff' = poolDiff
      BY <2>5 DEF PoolAnswers
    <3> DEFINE r == Head(toPool)
    <3>2. /\ r \in PoolRequests /\ r \in Elems(toPool) /\ toPool # <<>> /\ toPool' = Tail(toPool)
          /\ \/ \E m \in Masks : toClient' = Append(toClient, Response(r.id, "yes", m))
             \/ toClient' = toClient
             \/ \E v \in {"no", "bad"} : toClient' = Append(toClient, Response(r.id, v, None))
          /\ subscribed' = (subscribed \/ r.method = "subscribe") \/ subscribed' = subscribed
      BY <2>5, AnswerCases, Zenon
    <3> HIDE DEF r
    <3>3. \A m \in Elems(toClient') : m \in Elems(toClient) \/ m.type = "response"
      <4>1. \A v \in {"yes", "no", "bad"}, m \in OptMask :
              /\ Response(r.id, v, m).type = "response"
              /\ Elems(Append(toClient, Response(r.id, v, m))) = Elems(toClient) \cup {Response(r.id, v, m)}
        BY <3>2, AnsweredLine
      <4>2. None \in OptMask /\ Masks \subseteq OptMask
        BY DEF OptMask
      <4>3. CASE \E m \in Masks : toClient' = Append(toClient, Response(r.id, "yes", m))
        BY <4>1, <4>2, <4>3
      <4>4. CASE \E v \in {"no", "bad"} : toClient' = Append(toClient, Response(r.id, v, None))
        BY <4>1, <4>2, <4>4
      <4> QED BY <3>2, <4>3, <4>4
    <3>4. Elems(toPool') \subseteq Elems(toPool)
      BY <1>1, <3>2, ElemsTail
    <3>5. src = "run" /\ subscribed' => ReadyNow
      BY <3>2 DEF ReadyInv
    <3>6. poolDiff' # None => subscribed'
      <4>1. poolDiff # None => subscribed
        BY DEF ReadyInv
      <4>2. subscribed' = (subscribed \/ r.method = "subscribe") \/ subscribed' = subscribed
        BY <3>2
      <4>3. subscribed = TRUE => subscribed' = TRUE
        BY <4>2
      <4> QED BY <1>1, <3>1, <4>1, <4>3
    <3> QED BY <2>1, <2>2, <3>1, <3>3, <3>4, <3>5, <3>6 DEF ReadyInv
  <2>6. CASE PoolCloses
    <3>1. UNCHANGED <<announced, poolDiff, subscribed, toPool>> /\ (toClient' = toClient \/ toClient' = <<>>)
      BY <2>6 DEF PoolCloses, poolVars
    <3>2. Elems(toClient') \subseteq Elems(toClient) /\ Elems(toPool') = Elems(toPool)
      <4>1. toClient' = <<>> => Elems(toClient') = {}
        BY ElemsEmpty
      <4> QED BY <3>1, <4>1 DEF Elems
    <3> QED BY <2>1, <2>2, <3>1, <3>2 DEF ReadyInv
  <2> QED BY <1>7, <2>3, <2>4, <2>5, <2>6 DEF PoolSteps
<1>8. CASE UNCHANGED stratumVars
  BY <1>8 DEF stratumVars, linkVars, poolVars, clientVars, sourceVars, ReadyInv, ReadyNow, Prepared, Elems
<1> QED BY <1>3, <1>4, <1>5, <1>6, <1>7, <1>8 DEF StratumNext, SourceSteps, SourceMoves

\* How lines flow through the client as long as none is cut.
LEMMA ClientFlow ==
    ASSUME StratumTypes, ClientSteps, ~lost'
    PROVE  /\ ~lost
           /\ \/ /\ \/ toClient' = toClient
                    \/ toClient # <<>> /\ Head(toClient).type # "diff" /\ toClient' = Tail(toClient)
                 /\ \/ events' = events
                    \/ \E e \in ClientEvents : e.type \notin {"notify", "diff"} /\ events' = Append(events, e)
              \/ /\ toClient # <<>> /\ Head(toClient) \in ClientEvents
                 /\ toClient' = Tail(toClient) /\ events' = Append(events, Head(toClient))
<1>1. toClient \in Seq(Lines) /\ (partial => toClient # <<>>) /\ lost \in BOOLEAN
  BY DEF StratumTypes, PoolTypes, ClientTypes
<1>2. CASE RequestTimesOut
  <2>1. toClient' = toClient /\ ~lost
    BY <1>1, <1>2, DropCases DEF RequestTimesOut
  <2> DEFINE e == [type |-> "configured", mask |-> None]
  <2>2. events' = events \/ events' = Append(events, e)
    BY <1>2, TimeoutCases, Zenon
  <2>3. e \in ClientEvents /\ e.type \notin {"notify", "diff"}
    BY MadeTypes DEF OptMask
  <2> HIDE DEF e
  <2> QED BY <2>1, <2>2, <2>3
<1>3. CASE TakeCommand
  <2>1. toClient' = toClient /\ ~lost
    BY <1>1, <1>3, DropCases DEF TakeCommand
  <2> QED BY <1>3, <2>1, CommandCases
<1>4. CASE ReadStray \/ ReadReconnect \/ ReadGarbage \/ ReadEof \/ ReadPart
  <2>1. /\ events' = events /\ lost' = lost
        /\ \/ toClient' = toClient
           \/ toClient # <<>> /\ toClient' = Tail(toClient) /\ Head(toClient).type \notin {"notify", "diff"}
    BY <1>4, OtherCases
  <2> QED BY <2>1
<1>5. CASE ReadNotification
  <2>1. /\ Head(toClient).type \in {"notify", "diff", "mask"}
        /\ events' = Append(events, Head(toClient)) /\ lost' = lost
        /\ toClient # <<>> /\ toClient' = Tail(toClient)
    BY <1>5, NotificationCases
  <2>2. Head(toClient) \in Lines
    BY <1>1, <2>1, ElemsTail
  <2>3. Head(toClient) \in ClientEvents
    BY <2>1, <2>2, LineKinds
  <2> QED BY <2>1, <2>3
<1>6. CASE ReadResponse
  <2>1. toClient # <<>> /\ toClient' = Tail(toClient) /\ lost' = lost
    BY <1>6 DEF ReadResponse, ReadLine
  <2>2. Head(toClient).type = "response"
    BY <1>6, ResponseCases, Zenon
  <2>3. CASE events' = events
    BY <2>1, <2>2, <2>3
  <2>4. CASE events' # events
    <3>1. PICK e \in ClientEvents : /\ events' = Append(events, e)
                                    /\ e.type \in {"notify", "diff"} => e = Head(toClient)
      BY <1>6, <2>4, EmitCases, Zenon
    <3>2. e.type \notin {"notify", "diff"}
      BY <2>2, <3>1
    <3> QED BY <2>1, <2>2, <3>1, <3>2
  <2> QED BY <2>3, <2>4
<1> QED BY <1>2, <1>3, <1>4, <1>5, <1>6 DEF ClientSteps

LEMMA TellInit == StratumInit => TellInv
<1> SUFFICES ASSUME StratumInit PROVE TellInv
  OBVIOUS
<1>1. announced = {} /\ src = "wait"
  BY DEF StratumInit
<1> QED BY <1>1 DEF TellInv

\* What the steps of the client do to what the queues tell.
LEMMA TellClient ==
    ASSUME StratumTypes, SessionInv, ReadyInv, TellInv, ClientSteps, ~lost'
    PROVE  /\ Told(announced, toClient', events', state)
           /\ open /\ poolDiff # None
                => LineTells(toClient', events', state, Len(toClient') + 1, poolDiff)
<1>1. toClient \in Seq(Lines) /\ events \in Seq(ClientEvents)
  BY DEF StratumTypes, PoolTypes, ClientTypes
<1>2. src = "run" /\ ~lost
  BY EmitCases, ClientFlow DEF SessionInv
<1>3. /\ Told(announced, toClient, events, state)
      /\ open /\ poolDiff # None
           => LineTells(toClient, events, state, Len(toClient) + 1, poolDiff)
  BY <1>2 DEF TellInv
<1>4. PICK ln2, ev2 : ln2 = toClient' /\ ev2 = events'
  OBVIOUS
<1>5. SUFFICES /\ Told(announced, ln2, ev2, state)
               /\ open /\ poolDiff # None => LineTells(ln2, ev2, state, Len(ln2) + 1, poolDiff)
  BY <1>4
<1>6. CASE /\ \/ ln2 = toClient
              \/ toClient # <<>> /\ Head(toClient).type # "diff" /\ ln2 = Tail(toClient)
           /\ \/ ev2 = events
              \/ \E e \in ClientEvents : e.type \notin {"notify", "diff"} /\ ev2 = Append(events, e)
  <2>1. ln2 \in Seq(Lines)
    BY <1>1, <1>6, ElemsTail
  <2>2. /\ Told(announced, ln2, events, state)
        /\ open /\ poolDiff # None => LineTells(ln2, events, state, Len(ln2) + 1, poolDiff)
    <3>1. CASE ln2 = toClient
      BY <1>3, <3>1
    <3>2. CASE toClient # <<>> /\ Head(toClient).type # "diff" /\ ln2 = Tail(toClient)
      <4>1. /\ Told(announced, toClient, events, state) => Told(announced, Tail(toClient), events, state)
            /\ \A d : LineTells(toClient, events, state, Len(toClient) + 1, d)
                        => LineTells(Tail(toClient), events, state, Len(Tail(toClient)) + 1, d)
        BY <1>1, <3>2, ToldRead
      <4> QED BY <1>3, <3>2, <4>1, Zenon
    <3> QED BY <1>6, <3>1, <3>2
  <2>3. CASE ev2 = events
    BY <2>2, <2>3
  <2>4. CASE \E e \in ClientEvents : e.type \notin {"notify", "diff"} /\ ev2 = Append(events, e)
    <3>1. PICK e \in ClientEvents : e.type \notin {"notify", "diff"} /\ ev2 = Append(events, e)
      BY <2>4
    <3>2. /\ Told(announced, ln2, events, state) => Told(announced, ln2, Append(events, e), state)
          /\ \A i, d : LineTells(ln2, events, state, i, d) => LineTells(ln2, Append(events, e), state, i, d)
      BY <1>1, <2>1, <3>1, ToldEmit
    <3> QED BY <2>2, <3>1, <3>2, Zenon
  <2> QED BY <1>6, <2>3, <2>4
<1>7. CASE /\ toClient # <<>> /\ Head(toClient) \in ClientEvents
           /\ ln2 = Tail(toClient) /\ ev2 = Append(events, Head(toClient))
  <2>1. \A a \in announced, m \in Elems(toClient) :
          a.diff # None /\ m.type = "notify" /\ m.n = a.n => Prepared(events, state)
    BY <1>2, Zenon DEF ReadyInv, ReadyNow
  <2>2. poolDiff # None => Prepared(events, state)
    BY <1>2, Zenon DEF ReadyInv, ReadyNow
  <2>3. /\ /\ Told(announced, toClient, events, state)
           /\ \A a \in announced, m \in Elems(toClient) :
                a.diff # None /\ m.type = "notify" /\ m.n = a.n => Prepared(events, state)
           => Told(announced, Tail(toClient), Append(events, Head(toClient)), state)
        /\ \A d : Prepared(events, state) /\ LineTells(toClient, events, state, Len(toClient) + 1, d)
                    => LineTells(Tail(toClient), Append(events, Head(toClient)), state,
                                 Len(Tail(toClient)) + 1, d)
    BY <1>1, <1>7, ToldMoved, Zenon
  <2> QED BY <1>3, <1>7, <2>1, <2>2, <2>3, Zenon
<1> QED BY <1>4, <1>6, <1>7, ClientFlow, Zenon

LEMMA TellStep ==
    ASSUME StratumTypes, SessionInv, AnnouncedInv, ReadyInv, TellInv, [StratumNext]_stratumVars
    PROVE  TellInv'
<1>1. /\ tx \in Seq(SourceEvents) /\ toClient \in Seq(Lines) /\ events \in Seq(ClientEvents)
      /\ left.jobs \in Nat /\ lost \in BOOLEAN /\ announced \subseteq Announcements
      /\ state \in ProtocolStates \cup {None} /\ None \notin ProtocolStates /\ None \notin Nat
  BY StratumConstants DEF StratumTypes, SchedTypes, ClientTypes, PoolTypes, SourceTypes, BudgetType
<1> DEFINE Offers(A, K, E) ==
             \A a \in A : a.diff # None =>
                 /\ \A j \in K : j.n = a.n => j.diff = a.diff
                 /\ \A e \in E : e.type # "clear" /\ e.job.n = a.n => e.job.diff = a.diff
           EndTold == open /\ poolDiff # None
                        => LineTells(toClient, events, state, Len(toClient) + 1, poolDiff)
<1>2. /\ ~lost => Offers(announced, known, Elems(tx))
      /\ src = "run" /\ ~lost => Told(announced, toClient, events, state) /\ EndTold
  BY Zenon DEF TellInv
<1>3. SUFFICES /\ ~lost' => Offers(announced', known', Elems(tx'))
               /\ src' = "run" /\ ~lost' =>
                    /\ Told(announced', toClient', events', state')
                    /\ open' /\ poolDiff' # None
                         => LineTells(toClient', events', state', Len(toClient') + 1, poolDiff')
  BY Zenon DEF TellInv, Told, LineTells, EventTells, NoDiff, DiffIs, PreparedAt, Elems, SetDifficulty
<1> HIDE DEF Offers
<1>4. ASSUME UNCHANGED <<toClient, events, state, announced, poolDiff, open, lost>>,
             src' = "run" => src = "run"
      PROVE  src' = "run" /\ ~lost' =>
                    /\ Told(announced', toClient', events', state')
                    /\ open' /\ poolDiff' # None
                         => LineTells(toClient', events', state', Len(toClient') + 1, poolDiff')
  BY <1>2, <1>4
<1>5. CASE SchedulerSteps
  <2>1. UNCHANGED <<toClient, events, state, announced, poolDiff, open, lost, src>>
    BY <1>5, SchedFrame DEF linkVars, sourceVars, poolVars
  <2>2. ~lost' => Offers(announced', known', Elems(tx'))
    <3>1. CASE SchedulerTakes
      <4>1. /\ Head(tx) \in Elems(tx) /\ Elems(tx') \subseteq Elems(tx)
            /\ Head(tx).type = "clear" => known' = {}
            /\ Head(tx).type # "clear" => known' \subseteq known \cup {Head(tx).job}
        BY <3>1, TakeCases
      <4> QED BY <1>2, <2>1, <4>1 DEF Offers
    <3>2. CASE SchedulerSubmits \/ SchedulerAnnounces
      <4>1. known' = known /\ tx' = tx
        BY <3>2 DEF SchedulerSubmits, SchedulerAnnounces
      <4> QED BY <1>2, <2>1, <4>1
    <3> QED BY <1>5, <3>1, <3>2 DEF SchedulerSteps
  <2> QED BY <1>4, <2>1, <2>2
<1>6. CASE Connect
  <2>1. /\ toClient' = <<>> /\ events' = <<>> /\ poolDiff' = None
        /\ UNCHANGED <<announced, lost, known, tx>>
    BY <1>6 DEF Connect, schedVars
  <2>2. Told(announced', toClient', events', state')
    BY <2>1 DEF Told
  <2> QED BY <1>2, <2>1, <2>2
<1>7. CASE SourceMoves
  <2>1. UNCHANGED <<toClient, announced, poolDiff, open, lost, known>>
    BY <1>7, SourceFrame DEF linkVars, poolVars
  <2>2. CASE HandleClientEvent
    <3> DEFINE h == Head(events)
    <3>1. /\ src = "run" /\ events # <<>> /\ events' = Tail(events) /\ h \in ClientEvents
          /\ state' = StateAfter(h)
          /\ \/ tx' = tx
             \/ \E x \in SourceEvents :
                  /\ Elems(tx') = Elems(tx) \cup {x} /\ h.type = "notify"
                  /\ x.job.n = h.n /\ x.job.diff = state.diff
      BY <2>2, HandleCases, Zenon
    <3>2. Follows(h, state, state')
      BY <1>1, <3>1, StateFollows
    <3>3. PICK st2 : st2 = state'
      OBVIOUS
    <3>4. /\ Told(announced, toClient, events, state) => Told(announced, toClient, Tail(events), st2)
          /\ \A i, d : LineTells(toClient, events, state, i, d) => LineTells(toClient, Tail(events), st2, i, d)
          /\ \A a \in announced : /\ Told(announced, toClient, events, state) /\ a.diff # None
                                  /\ h.type = "notify" /\ h.n = a.n
                                  => state # None /\ state.diff = a.diff
      <4>1. Follows(Head(events), state, st2)
        BY <3>2, <3>3
      <4>2. toClient \in Seq(Lines) /\ events \in Seq(ClientEvents) /\ events # <<>>
        BY <1>1, <3>1
      <4>3. StillTold(announced, toClient, events, state, st2)
        BY <4>1, <4>2, ToldHandled, Zenon
      <4> QED BY <4>3, Zenon DEF h, StillTold
    <3> HIDE DEF h
    <3>5. src' = "run" /\ ~lost' =>
                    /\ Told(announced', toClient', events', state')
                    /\ open' /\ poolDiff' # None
                         => LineTells(toClient', events', state', Len(toClient') + 1, poolDiff')
      <4> SUFFICES ASSUME ~lost
                   PROVE  /\ Told(announced, toClient, Tail(events), st2)
                          /\ open /\ poolDiff # None
                               => LineTells(toClient, Tail(events), st2, Len(toClient) + 1, poolDiff)
        BY <2>1, <3>1, <3>3
      <4> QED BY <1>2, <3>1, <3>4, Zenon
    <3>6. ~lost' => Offers(announced', known', Elems(tx'))
      <4> SUFFICES ASSUME ~lost PROVE Offers(announced, known, Elems(tx'))
        BY <2>1
      <4>1. CASE tx' = tx
        BY <1>2, <4>1
      <4>2. CASE tx' # tx
        <5>1. PICK x \in SourceEvents :
                  /\ Elems(tx') = Elems(tx) \cup {x} /\ h.type = "notify"
                  /\ x.job.n = h.n /\ x.job.diff = state.diff
          BY <3>1, <4>2
        <5>2. \A a \in announced : a.diff # None /\ x.job.n = a.n => x.job.diff = a.diff
          BY <1>2, <3>1, <3>4, <5>1, Zenon
        <5> QED BY <1>2, <5>1, <5>2 DEF Offers
      <4> QED BY <4>1, <4>2
    <3> QED BY <3>5, <3>6
  <2>3. CASE ~HandleClientEvent
    <3>1. /\ events' = events /\ (src' = "run" => src = "run" /\ state' = state)
          /\ tx' = tx \/ tx' = ClearJobs(tx)
      BY <1>7, <2>3 DEF SourceMoves, WaitForRate, ConnectFails, ClientGone, BackoffDrains, BackoffEnds,
         SourceRate, CooldownPasses, CooldownFlush, SourceSubmit, sourceVars, schedVars
    <3>2. Elems(tx') \subseteq Elems(tx) \cup {[type |-> "clear"]}
      BY <1>1, <3>1, WithdrawnClear
    <3>3. ~lost' => Offers(announced', known', Elems(tx'))
      BY <1>2, <2>1, <3>2 DEF Offers
    <3>4. CASE src' = "run"
      BY <1>4, <2>1, <3>1, <3>3, <3>4
    <3> QED BY <3>3, <3>4
  <2> QED BY <2>2, <2>3
<1>8. CASE ClientSteps
  <2>1. UNCHANGED <<state, announced, poolDiff, open, known, tx>>
    BY <1>8, ClientFrame DEF clientRest, sourceVars, poolVars, schedVars
  <2>2. CASE lost'
    BY <2>2
  <2>3. CASE ~lost'
    <3>1. ~lost
      BY <1>8, <2>3, ClientFlow
    <3>2. /\ Told(announced, toClient', events', state)
          /\ open /\ poolDiff # None
               => LineTells(toClient', events', state, Len(toClient') + 1, poolDiff)
      BY <1>8, <2>3, TellClient
    <3> QED BY <1>2, <2>1, <3>1, <3>2
  <2> QED BY <2>2, <2>3
<1>9. CASE PoolNotifies \/ PoolSets \/ PoolDisturbs
  <2>1. UNCHANGED <<src, events, state, session, tx, known, lost>>
    BY <1>9, PoolFrame DEF PoolSteps, schedVars, sourceVars
  <2>2. PICK x \in Lines : /\ toClient' = Append(toClient, x) /\ open' = open /\ open
                           /\ PoolNotifies => x.type = "notify" /\ x.n = left.jobs
                           /\ ~PoolNotifies => x.type # "notify" /\ announced' = announced
                           /\ x.type # "diff" => poolDiff' = poolDiff
                           /\ x.type = "diff" => /\ x = SetDifficulty(x.d)
                                                 /\ poolDiff' = IF subscribed THEN x.d ELSE None
    <3>1. open
      BY <1>9 DEF PoolNotifies, PoolSets, PoolDisturbs, PoolSays
    <3> QED BY <1>9, <3>1, SaysCases, Zenon
  <2> DEFINE u == Append(toClient, x)
  <2>3. \A d : /\ x.type # "diff" /\ LineTells(toClient, events, state, Len(toClient) + 1, d)
                    => LineTells(u, events, state, Len(u) + 1, d)
               /\ x = SetDifficulty(d) => LineTells(u, events, state, Len(u) + 1, d)
    BY <1>1, LineAppend, Zenon
  <2>4. ASSUME src = "run", ~lost, poolDiff' # None
        PROVE  LineTells(u, events, state, Len(u) + 1, poolDiff')
    <3> HIDE DEF u
    <3>1. CASE x.type = "diff"
      <4>1. poolDiff' = x.d
        BY <2>2, <2>4, <3>1
      <4> QED BY <2>2, <2>3, <3>1, <4>1, Zenon
    <3>2. CASE x.type # "diff"
      BY <1>2, <2>2, <2>3, <2>4, <3>2, Zenon
    <3> QED BY <3>1, <3>2
  <2>5. CASE PoolNotifies
    <3> DEFINE b == [n |-> left.jobs, ses |-> session, diff |-> poolDiff]
    <3>1. announced' = announced \cup {b}
      BY <2>5 DEF PoolNotifies
    <3>2. b.n = left.jobs /\ b.diff = poolDiff
      OBVIOUS
    <3> HIDE DEF b, u
    <3>3. \A a \in announced : a.n # left.jobs
      <4>1. \A a \in announced : a.n \in Nat /\ a.n > left.jobs
        BY <1>1 DEF AnnouncedInv, Announcements
      <4> QED BY <1>1, <4>1
    <3>4. /\ \A m \in Elems(toClient) : m.type = "notify" => m.n # left.jobs
          /\ \A m \in Elems(events) : m.type = "notify" => m.n # left.jobs
          /\ \A e \in Elems(tx) : e.type # "clear" => e.job.n # left.jobs
          /\ \A j \in known : j.n # left.jobs
      BY <3>3 DEF AnnouncedInv, Announced
    <3>5. ~lost' => Offers(announced', known', Elems(tx'))
      BY <1>2, <2>1, <3>1, <3>2, <3>4 DEF Offers
    <3>6. ASSUME src = "run", ~lost PROVE Told(announced \cup {b}, toClient, events, state)
      <4>1. ASSUME NEW i \in DOMAIN toClient, toClient[i].type = "notify" PROVE toClient[i].n # b.n
        BY <3>2, <3>4, <4>1 DEF Elems
      <4>2. ASSUME NEW i \in DOMAIN events, events[i].type = "notify" PROVE events[i].n # b.n
        BY <3>2, <3>4, <4>2 DEF Elems
      <4>3. Told(announced, toClient, events, state)
        BY <1>2, <3>6
      <4> QED BY <4>1, <4>2, <4>3, Zenon DEF Told
    <3>7. ASSUME src = "run", ~lost PROVE Told(announced \cup {b}, u, events, state)
      <4>1. \A a \in announced \cup {b} : a.diff # None /\ x.n = a.n
                                             => LineTells(toClient, events, state, Len(toClient) + 1, a.diff)
        BY <1>2, <2>2, <2>5, <3>2, <3>3, <3>7, Zenon
      <4> QED BY <1>1, <3>6, <3>7, <4>1, ToldSaid DEF u
    <3>8. ASSUME src' = "run", ~lost'
          PROVE  /\ Told(announced', toClient', events', state')
                 /\ open' /\ poolDiff' # None
                      => LineTells(toClient', events', state', Len(toClient') + 1, poolDiff')
      BY <2>1, <2>2, <2>4, <3>1, <3>7, <3>8 DEF u
    <3> QED BY <3>5, <3>8
  <2>6. CASE ~PoolNotifies
    <3>1. ~lost' => Offers(announced', known', Elems(tx'))
      BY <1>2, <2>1, <2>2, <2>6
    <3>2. ASSUME src = "run", ~lost PROVE Told(announced, u, events, state)
      BY <1>1, <1>2, <2>2, <2>6, <3>2, ToldSaid
    <3>3. ASSUME src' = "run", ~lost'
          PROVE  /\ Told(announced', toClient', events', state')
                 /\ open' /\ poolDiff' # None
                      => LineTells(toClient', events', state', Len(toClient') + 1, poolDiff')
      BY <2>1, <2>2, <2>4, <2>6, <3>2, <3>3
    <3> QED BY <3>1, <3>3
  <2> QED BY <2>5, <2>6
<1>10. CASE PoolAnswers
  <2>1. UNCHANGED <<src, events, state, session, tx, known, lost, announced, poolDiff, open>>
    BY <1>10, PoolFrame DEF PoolAnswers, PoolSteps, schedVars, sourceVars
  <2>2. toClient' = toClient \/ \E x \in Lines : x.type = "response" /\ toClient' = Append(toClient, x)
    <3> DEFINE r == Head(toPool)
    <3>1. /\ r \in PoolRequests
          /\ \/ \E m \in Masks : toClient' = Append(toClient, Response(r.id, "yes", m))
             \/ toClient' = toClient
             \/ \E v \in {"no", "bad"} : toClient' = Append(toClient, Response(r.id, v, None))
      BY <1>10, AnswerCases, Zenon
    <3> HIDE DEF r
    <3>2. \A v \in {"yes", "no", "bad"}, m \in OptMask :
            Response(r.id, v, m) \in Lines /\ Response(r.id, v, m).type = "response"
      BY <3>1, AnsweredLine
    <3>3. None \in OptMask /\ Masks \subseteq OptMask
      BY DEF OptMask
    <3>4. CASE \E m \in Masks : toClient' = Append(toClient, Response(r.id, "yes", m))
      BY <3>2, <3>3, <3>4
    <3>5. CASE \E v \in {"no", "bad"} : toClient' = Append(toClient, Response(r.id, v, None))
      BY <3>2, <3>3, <3>5
    <3> QED BY <3>1, <3>4, <3>5
  <2>3. CASE toClient' = toClient
    BY <1>2, <1>4, <2>1, <2>3
  <2>4. CASE toClient' # toClient
    <3>1. PICK x \in Lines : x.type = "response" /\ toClient' = Append(toClient, x)
      BY <2>2, <2>4
    <3> DEFINE u == Append(toClient, x)
    <3>2. \A d : LineTells(toClient, events, state, Len(toClient) + 1, d)
                   => LineTells(u, events, state, Len(u) + 1, d)
      <4>1. x.type # "diff"
        BY <3>1
      <4> QED BY <1>1, <4>1, LineAppend, Zenon
    <3>3. ASSUME src = "run", ~lost PROVE Told(announced, u, events, state)
      <4>1. x.type # "notify" /\ Told(announced, toClient, events, state)
        BY <1>2, <3>1, <3>3
      <4> QED BY <1>1, <4>1, ToldSaid
    <3> HIDE DEF u
    <3>4. ASSUME src = "run", ~lost, open, poolDiff # None
          PROVE  LineTells(u, events, state, Len(u) + 1, poolDiff)
      BY <1>2, <3>2, <3>4, Zenon
    <3> QED BY <1>2, <2>1, <3>1, <3>3, <3>4 DEF u
  <2> QED BY <2>3, <2>4
<1>11. CASE PoolCloses
  <2>1. /\ UNCHANGED <<src, events, state, session, tx, known, lost, announced, poolDiff>>
        /\ open' = FALSE /\ (toClient' = toClient \/ toClient' = <<>>)
    BY <1>11 DEF PoolCloses, poolVars, schedVars, sourceVars
  <2>2. src' = "run" /\ ~lost' => Told(announced', toClient', events', state')
    <3>1. CASE toClient' = toClient
      BY <1>2, <2>1, <3>1
    <3>2. CASE toClient' = <<>>
      <4>1. Told(announced, toClient, events, state) => Told(announced, <<>>, events, state)
        BY DEF Told
      <4> QED BY <1>2, <2>1, <3>2, <4>1
    <3> QED BY <2>1, <3>1, <3>2
  <2> QED BY <1>2, <2>1, <2>2
<1>12. CASE UNCHANGED stratumVars
  <2>1. UNCHANGED <<toClient, events, state, announced, poolDiff, open, lost, src, known, tx>>
    BY <1>12 DEF stratumVars, linkVars, sourceVars, poolVars, schedVars
  <2> QED BY <1>2, <1>4, <2>1
<1> QED
  BY <1>5, <1>6, <1>7, <1>8, <1>9, <1>10, <1>11, <1>12
     DEF StratumNext, SourceSteps, SourceMoves, PoolSteps

LEMMA TemplatesFollow ==
    ASSUME StratumTypes, SessionInv, AnnouncedInv, TellInv PROVE TemplatesMatchPool
<1>1. /\ tx \in Seq(SourceEvents) /\ session \in Nat
      /\ state \in ProtocolStates \cup {None} /\ known \subseteq Jobs /\ None \notin ProtocolStates
  BY StratumConstants DEF StratumTypes, SchedTypes, SourceTypes, PoolTypes
<1>2. SourceTypeOK
  <2>1. state = None \/ state \in [en1 : 1..session \cup {None}, diff : OptDiff, mask : OptMask]
    <3>1. CASE state # None
      <4>1. state \in ProtocolStates /\ state.en1 \in {None, session}
        BY <1>1, <3>1 DEF SessionInv
      <4>2. state.en1 \in 1..session \cup {None}
        <5>1. session # 0
          BY <3>1 DEF SessionInv
        <5> QED BY <1>1, <4>1, <5>1
      <4> QED BY <4>1, <4>2 DEF ProtocolStates
    <3> QED BY <3>1
  <2>2. \A j \in known : j \in [n : Nat, ses : 1..session, diff : OptDiff, mask : OptMask]
    BY <1>1 DEF SessionInv, Jobs
  <2>3. (share # None) = (pc = "submit")
    BY DEF StratumTypes, ClientTypes
  <2>4. partial => toClient # <<>> /\ pc # "ended"
    BY DEF StratumTypes, ClientTypes
  <2>5. /\ src \in {"wait", "connect", "run", "backoff", "exited"} /\ rate \in Rates \cup {0}
        /\ suggested \in Nat \cup {None} /\ initial \in Nat \cup {None}
        /\ cooldown \in {"off", "on", "due"} /\ delay \in {1, 2, 4, 8, 16, 32, 60}
        /\ pc \in Requests \cup {"main", "ended"} /\ result \in {None, "disconnected", "fatal"}
        /\ poolDiff \in OptDiff /\ left \in BudgetType
    BY DEF StratumTypes, SourceTypes, ClientTypes, PoolTypes
  <2> QED BY <2>1, <2>2, <2>3, <2>4, <2>5 DEF SourceTypeOK
<1>3. ASSUME NEW j \in Offered PROVE j \in known \/ \E e \in Elems(tx) : e.type # "clear" /\ e.job = j
  BY <1>3 DEF Offered, Elems
<1>4. TemplatesOfTheirSession
  BY <1>3 DEF TemplatesOfTheirSession, AnnouncedInv, Announced
<1>5. TemplatesAtPoolDifficulty
  BY <1>3 DEF TemplatesAtPoolDifficulty, TellInv
<1> QED BY <1>2, <1>4, <1>5 DEF TemplatesMatchPool

\* Every template the scheduler has or will take carries the extranonce1 of the
\* connection its job came on and, unless a line was cut, the difficulty the
\* pool had set when it announced the job (stratum_v1.rs:212, client.rs:172).
THEOREM TemplatesAreThePools == StratumSpec => []TemplatesMatchPool
<1> DEFINE Inv == StratumTypes /\ SessionInv /\ AnnouncedInv /\ ReadyInv /\ TellInv
<1>1. StratumInit => Inv
  BY TypesInit, SessionInit, AnnouncedInit, ReadyInit, TellInit
<1>2. ASSUME Inv, [StratumNext]_stratumVars PROVE Inv'
  BY <1>2, TypesStep, SessionStep, AnnouncedStep, ReadyStep, TellStep
<1>3. Inv => TemplatesMatchPool
  BY TemplatesFollow
<1> QED BY <1>1, <1>2, <1>3, PTL DEF StratumSpec
=============================================================================
