---------------------------- MODULE BM13xxProofs ----------------------------
(***************************************************************************)
(* Proofs about BM13xxThread: its types, the match of nonces with the work *)
(* they were found for, and that no share of a replaced task is sent.      *)
(*                                                                         *)
(* The argument.  Ids are the number of the insert modulo Slots, so within *)
(* Slots inserts no id is given out twice: the entry of a job stays until  *)
(* a clear() removes it, and then stays empty until the id comes round     *)
(* again (JobsPlaced).  The scheduler awaits every reply, so at most one   *)
(* task waits in the command channel, behind the configuration             *)
(* (OneCallQueued); with clear() this keeps every task the actor can still *)
(* reach, in the tracker, as current_task or queued, at least as new as    *)
(* the last one that replaced the others (ReachableValid).                 *)
(***************************************************************************)
EXTENDS BM13xxThread, SequenceTheorems, TLAPS

JobPlaced(j) ==
    /\ j.id = j.at % Slots /\ j.at < inserts
    /\ inserts - j.at <= Slots => tracker[j.id] = IF j.at >= cleared THEN j.work ELSE None

JobsPlaced ==
    /\ nextId = inserts % Slots /\ cleared <= inserts
    /\ \A i \in 1..Len(link) : JobPlaced(link[i])
    /\ chipJob # None => JobPlaced(chipJob)

OneCallQueued ==
    /\ \A i, j \in 1..Len(cmdQ) : i < j => cmdQ[i].kind = "configure"
    /\ call = None => \A i \in 1..Len(cmdQ) : cmdQ[i].kind = "configure"
    /\ pc = "exited" => cmdQ = <<>>

ReachableValid ==
    /\ oldest <= given + 1
    /\ \A i \in Ids : tracker[i] # None => tracker[i].task >= oldest
    /\ current # None => current.task >= oldest
    /\ \A i \in 1..Len(cmdQ) : cmdQ[i].kind \in {"update", "replace"} =>
          cmdQ[i].task >= oldest /\ cmdQ[i].task <= given
    /\ pc = "send" => outgoing \in Works /\ outgoing.task >= oldest

ThreadInv == TypeOK /\ JobsPlaced /\ OneCallQueued /\ ReachableValid

-----------------------------------------------------------------------------
(* Lemmas about sequences, ids and the tracker.                            *)

\* Two inserts less than Slots apart have different ids.
LEMMA IdsDiffer ==
    ASSUME NEW N \in Nat \ {0}, NEW a \in Nat, NEW b \in Nat, b < a, a - b < N
    PROVE  a % N # b % N
  <1>1. a = N * (a \div N) + (a % N) /\ b = N * (b \div N) + (b % N)
    OBVIOUS
  <1>2. a % N \in 0..(N-1) /\ b % N \in 0..(N-1) /\ a \div N \in Int /\ b \div N \in Int
    OBVIOUS
  <1> DEFINE p == a \div N
             q == b \div N
  <1>3. SUFFICES ASSUME a % N = b % N PROVE FALSE
    OBVIOUS
  <1>4. a - b = N * p - N * q
    BY <1>1, <1>2, <1>3
  <1>5. p \in Int /\ q \in Int
    BY <1>2
  <1> HIDE DEF p, q
  <1>6. N * p - N * q = N * (p - q)
    BY <1>5
  <1>7. CASE p - q <= 0
    <2>1. N * (p - q) <= 0
      BY <1>5, <1>7
    <2> QED BY <2>1, <1>4, <1>6
  <1>8. CASE p - q >= 1
    <2>1. N * (p - q) >= N
      BY <1>5, <1>8
    <2> QED BY <2>1, <1>4, <1>6
  <1> QED BY <1>5, <1>7, <1>8

\* next_id stays the number of inserts modulo Slots.
LEMMA IdFollows ==
    ASSUME NEW N \in Nat \ {0}, NEW a \in Nat
    PROVE  ((a % N) + 1) % N = (a + 1) % N
  <1> DEFINE p == a \div N
             q == (a + 1) \div N
             r == a % N
             s == (a + 1) % N
  <1>1. a = N * p + r /\ a + 1 = N * q + s
    OBVIOUS
  <1>2. r \in 0..(N-1) /\ s \in 0..(N-1) /\ p \in Int /\ q \in Int
    OBVIOUS
  <1> SUFFICES (r + 1) % N = s
    OBVIOUS
  <1> HIDE DEF p, q, r, s
  <1>3. s - r - 1 = N * (p - q)
    BY <1>1, <1>2
  <1>4. p - q \in {0, -1}
    <2>1. CASE p - q >= 1
      <3>1. N * (p - q) >= N BY <1>2, <2>1
      <3> QED BY <3>1, <1>2, <1>3
    <2>2. CASE p - q <= -2
      <3>1. N * (p - q) <= - 2 * N BY <1>2, <2>2
      <3> QED BY <3>1, <1>2, <1>3
    <2> QED BY <1>2, <2>1, <2>2
  <1>5. CASE p - q = 0
    <2>1. s = r + 1 BY <1>2, <1>3, <1>5
    <2> QED BY <2>1, <1>2
  <1>6. CASE p - q = -1
    <2>1. s = r + 1 - N BY <1>2, <1>3, <1>6
    <2>2. r + 1 = N /\ s = 0 BY <2>1, <1>2
    <2> QED BY <2>2, <1>2
  <1> QED BY <1>4, <1>5, <1>6

\* The elements of a queue after it is added to, and after its head is taken.
LEMMA AppendElements ==
    ASSUME NEW S, NEW s \in Seq(S), NEW x \in S
    PROVE  /\ Append(s, x) \in Seq(S) /\ Len(Append(s, x)) = Len(s) + 1
           /\ \A i \in 1..Len(Append(s, x)) :
                 (i \in 1..Len(s) /\ Append(s, x)[i] = s[i]) \/ (i = Len(s) + 1 /\ Append(s, x)[i] = x)
  OBVIOUS

LEMMA TailElements ==
    ASSUME NEW S, NEW s \in Seq(S), s # <<>>
    PROVE  /\ Tail(s) \in Seq(S) /\ Len(Tail(s)) = Len(s) - 1 /\ Len(s) \in Nat \ {0}
           /\ Head(s) = s[1] /\ s[1] \in S /\ 1 \in 1..Len(s)
           /\ \A i \in 1..Len(Tail(s)) : i + 1 \in 1..Len(s) /\ Tail(s)[i] = s[i + 1]
  OBVIOUS

LEMMA ZeroLength ==
    ASSUME NEW S, NEW s \in Seq(S), Len(s) = 0
    PROVE  s = <<>>
  BY EmptySeq

\* A task at the head of the command channel is a task.
LEMMA TaskAtHead ==
    ASSUME TypeOK, NEW k \in {"update", "replace"}, Command(k)
    PROVE  Head(cmdQ).task \in Tasks /\ [task |-> Head(cmdQ).task, ntime |-> 0] \in Works
  <1>1. Head(cmdQ) \in Commands
    BY TailElements DEF TypeOK, Command
  <1>2. Head(cmdQ) \in [kind : {"update", "replace"}, task : Tasks]
    BY <1>1 DEF Commands, Calls, Command
  <1> QED BY <1>2, ThreadConstants DEF Works

\* insert() keeps the types.
LEMMA InsertTypes ==
    ASSUME TypeOK, NEW w \in Works, NEW c \in BOOLEAN, NEW sent \in BOOLEAN,
           sent \/ faults < MaxFaults, Insert(w, c, sent)
    PROVE  /\ tracker' \in [Ids -> Works \cup {None}] /\ nextId' \in Ids
           /\ inserts' \in Nat /\ cleared' \in Nat
           /\ chipJob' \in ChipJobs \cup {None} /\ faults' \in 0..MaxFaults
  <1> USE ThreadConstants
  <1>1. nextId' = (nextId + 1) % Slots /\ nextId \in 0..(Slots - 1) /\ Slots \in Nat \ {0}
    BY DEF TypeOK, Insert, IdAfter, NextIdAfterClear, Ids
  <1>2. nextId' \in Ids
    BY <1>1 DEF Ids
  <1>3. EntriesAfterClear(c) \in [Ids -> Works \cup {None}]
    BY DEF TypeOK, EntriesAfterClear
  <1>4. tracker' \in [Ids -> Works \cup {None}]
    BY <1>3 DEF Insert
  <1>5. chipJob' \in ChipJobs \cup {None}
    BY DEF TypeOK, Insert, NextIdAfterClear, ChipJobs
  <1>6. inserts' \in Nat /\ cleared' \in Nat /\ faults' \in 0..MaxFaults
    BY DEF TypeOK, Insert
  <1> QED BY <1>2, <1>4, <1>5, <1>6

\* insert() leaves every job placed that was placed before: its id is another
\* one as long as the job is less than Slots inserts old.
LEMMA InsertKeepsJobs ==
    ASSUME TypeOK, JobsPlaced, NEW w \in Works, NEW c \in BOOLEAN, NEW sent \in BOOLEAN,
           Insert(w, c, sent), NEW j \in ChipJobs, JobPlaced(j)
    PROVE  JobPlaced(j)'
  <1> USE ThreadConstants
  <1>1. /\ inserts' = inserts + 1 /\ inserts \in Nat /\ cleared \in Nat
        /\ cleared' = IF c THEN inserts ELSE cleared
        /\ j.id = j.at % Slots /\ j.at < inserts /\ j.at \in Nat /\ j.id \in Ids /\ Slots \in Nat \ {0}
    BY DEF TypeOK, Insert, JobPlaced, ChipJobs
  <1>2. SUFFICES ASSUME inserts' - j.at <= Slots
                 PROVE  tracker'[j.id] = IF j.at >= cleared' THEN j.work ELSE None
    BY <1>1 DEF JobPlaced
  <1>3. j.id # nextId
    <2>1. j.at < inserts /\ inserts - j.at < Slots
      BY <1>1, <1>2
    <2>2. (inserts % Slots) # (j.at % Slots)
      BY <1>1, <2>1, IdsDiffer
    <2> QED BY <1>1, <2>2 DEF JobsPlaced
  <1>4. tracker'[j.id] = EntriesAfterClear(c)[j.id]
    BY <1>1, <1>3 DEF Insert, NextIdAfterClear, TypeOK, EntriesAfterClear
  <1>5. CASE c
    BY <1>1, <1>4, <1>5 DEF EntriesAfterClear
  <1>6. CASE ~c
    BY <1>1, <1>2, <1>4, <1>6 DEF EntriesAfterClear, JobPlaced
  <1> QED BY <1>5, <1>6

\* A job that is written to the chip is placed.
LEMMA InsertPlacesJob ==
    ASSUME TypeOK, JobsPlaced, NEW w \in Works, NEW c \in BOOLEAN, NEW sent \in BOOLEAN,
           Insert(w, c, sent), UNCHANGED link, TypeOK'
    PROVE  JobsPlaced'
  <1> USE ThreadConstants
  <1>1. nextId' = inserts' % Slots
    BY IdFollows DEF TypeOK, Insert, IdAfter, NextIdAfterClear, JobsPlaced
  <1>2. cleared' <= inserts'
    BY DEF TypeOK, Insert, JobsPlaced
  <1>3. ASSUME NEW i \in 1..Len(link') PROVE JobPlaced(link[i])'
    <2>0. link' = link /\ link \in Seq(ChipJobs) /\ i \in 1..Len(link)
      BY <1>3 DEF TypeOK
    <2>1. link' = link /\ link[i] \in ChipJobs /\ JobPlaced(link[i])
      <3>1. link[i] \in ChipJobs
        BY <2>0
      <3> QED BY <2>0, <3>1 DEF JobsPlaced
    <2>2. PICK j \in ChipJobs : j = link[i]
      BY <2>1
    <2>3. JobPlaced(j)'
      BY <2>1, <2>2, InsertKeepsJobs
    <2> QED BY <2>1, <2>2, <2>3 DEF JobPlaced
  <1>4. ASSUME chipJob' # None PROVE JobPlaced(chipJob)'
    <2>1. CASE sent
      <3>1. chipJob' = [id |-> nextId, work |-> w, at |-> inserts] /\ tracker'[nextId] = w
        BY <2>1 DEF Insert, NextIdAfterClear, TypeOK, EntriesAfterClear
      <3>2. inserts' = inserts + 1 /\ inserts \in Nat /\ cleared' <= inserts
        BY DEF Insert, TypeOK, JobsPlaced
      <3> QED BY <3>1, <3>2 DEF JobPlaced, JobsPlaced
    <2>2. CASE ~sent
      <3>1. chipJob' = chipJob /\ chipJob \in ChipJobs /\ JobPlaced(chipJob)
        BY <1>4, <2>2 DEF Insert, TypeOK, JobsPlaced
      <3>2. PICK j \in ChipJobs : j = chipJob
        BY <3>1
      <3>3. JobPlaced(j)'
        BY <3>1, <3>2, InsertKeepsJobs
      <3> QED BY <3>1, <3>2, <3>3 DEF JobPlaced
    <2> QED BY <2>1, <2>2
  <1> QED BY <1>1, <1>2, <1>3, <1>4 DEF JobsPlaced

-----------------------------------------------------------------------------
(* The steps.                                                              *)

LEMMA StepTypes == TypeOK /\ ReachableValid /\ [Next]_vars => TypeOK'
  <1> SUFFICES ASSUME TypeOK, ReachableValid, [Next]_vars PROVE TypeOK'
    OBVIOUS
  <1> USE ThreadConstants
  <1>1. ASSUME NEW k \in {"update", "replace"}, AssignTask(k) PROVE TypeOK'
    <2>1. given' \in Tasks /\ given' \in 0..MaxTasks
      BY <1>1 DEF AssignTask, TypeOK, Tasks
    <2>2. call' \in Calls /\ receivers' \subseteq Tasks
      BY <1>1, <2>1 DEF AssignTask, TypeOK, Calls, Surviving
    <2>3. shares' \in [Tasks -> Seq(Works)]
      BY <1>1 DEF AssignTask, TypeOK
    <2>4. cmdQ' \in Seq(Commands)
      BY <1>1, <2>2, AppendElements DEF AssignTask, TypeOK, Commands
    <2> QED BY <1>1, <2>1, <2>2, <2>3, <2>4 DEF AssignTask, TypeOK, chipVars, histVars
  <1>2. CASE GoIdle
    <2>1. call' \in Calls
      BY <1>2 DEF GoIdle, Calls
    <2>2. cmdQ' \in Seq(Commands)
      BY <1>2, <2>1, AppendElements DEF GoIdle, TypeOK, Commands
    <2> QED BY <1>2, <2>1, <2>2 DEF GoIdle, TypeOK, chipVars, histVars
  <1>3. ASSUME NEW t \in Tasks, ReadShare(t) PROVE TypeOK'
    <2>1. shares' \in [Tasks -> Seq(Works)]
      BY <1>3, TailElements DEF ReadShare, TypeOK
    <2> QED BY <1>3, <2>1 DEF ReadShare, TypeOK, actorVars, chipVars, histVars
  <1>4. CASE ClearJobs
    BY <1>4 DEF ClearJobs, TypeOK, actorVars, chipVars, histVars
  <1>5. CASE CallFails
    BY <1>5 DEF CallFails, TypeOK, actorVars, chipVars, histVars
  <1>6. CASE Configure
    <2>1. cmdQ' \in Seq(Commands)
      BY <1>6, TailElements DEF Configure, Command, TypeOK
    <2> QED BY <1>6, <2>1 DEF Configure, TypeOK, schedVars, chipVars, histVars
  <1>7. CASE InitializeFails
    <2>1. cmdQ' \in Seq(Commands)
      BY <1>7, TailElements DEF InitializeFails, Command, TypeOK
    <2> QED BY <1>7, <2>1 DEF InitializeFails, Reply, TypeOK, histVars
  <1>8. ASSUME NEW k \in {"update", "replace"}, TakeTask(k) PROVE TypeOK'
    <2> DEFINE w == [task |-> Head(cmdQ).task, ntime |-> 0]
    <2>1. w \in Works /\ Head(cmdQ).task \in Tasks
      BY <1>8, TaskAtHead DEF TakeTask
    <2>2. PICK sent \in BOOLEAN :
             /\ sent \/ faults < MaxFaults
             /\ Insert(w, k = "replace", sent)
             /\ current' = w
             /\ active' = (active \/ sent)
             /\ Reply(sent)
      BY <1>8 DEF TakeTask
    <2>3. cmdQ' \in Seq(Commands)
      BY <1>8, TailElements DEF TakeTask, Command, TypeOK
    <2>4. oldest' \in Nat /\ initialized' \in BOOLEAN
      BY <1>8, <2>1 DEF TakeTask, TypeOK, Tasks
    <2> HIDE DEF w
    <2>5. /\ tracker' \in [Ids -> Works \cup {None}] /\ nextId' \in Ids
          /\ inserts' \in Nat /\ cleared' \in Nat
          /\ chipJob' \in ChipJobs \cup {None} /\ faults' \in 0..MaxFaults
      BY <2>1, <2>2, InsertTypes
    <2>6. current' \in Works \cup {None} /\ active' \in BOOLEAN
      BY <2>1, <2>2 DEF TypeOK
    <2>7. call' = None /\ receivers' \subseteq Tasks /\ shares' = shares /\ given' = given
      BY <2>2 DEF Reply, TypeOK
    <2>8. UNCHANGED <<pc, reported, outgoing, removal, link>>
      BY <1>8 DEF TakeTask
    <2> QED BY <2>3, <2>4, <2>5, <2>6, <2>7, <2>8 DEF TypeOK
  <1>9. CASE BecomeIdle
    <2>1. cmdQ' \in Seq(Commands)
      BY <1>9, TailElements DEF BecomeIdle, Command, TypeOK
    <2> QED BY <1>9, <2>1 DEF BecomeIdle, Reply, TypeOK, chipVars, histVars
  <1>10. CASE HandleNonce
    <2>1. link' \in Seq(ChipJobs) /\ Head(link) \in ChipJobs
      BY <1>10, TailElements DEF HandleNonce, TypeOK
    <2>2. tracker[Head(link).id] \in Works \cup {None}
      BY <2>1 DEF TypeOK, ChipJobs
    <2>3. pc' \in {"select", "send", "exited"} /\ outgoing' \in Works \cup {None}
      BY <1>10, <2>2 DEF HandleNonce, TypeOK
    <2> QED BY <1>10, <2>1, <2>3 DEF HandleNonce, TypeOK, schedVars, histVars
  <1>11. CASE SendShare
    <2>1. shares' \in [Tasks -> Seq(Works)]
      <3>1. CASE outgoing.task \in receivers
        <4>1. outgoing \in Works
          BY <1>11 DEF SendShare, ReachableValid
        <4>2. shares' = [shares EXCEPT ![outgoing.task] = Append(@, outgoing)] /\ outgoing.task \in Tasks
          BY <1>11, <3>1 DEF SendShare, TypeOK
        <4>3. shares[outgoing.task] \in Seq(Works) /\ shares \in [Tasks -> Seq(Works)]
          BY <4>2 DEF TypeOK
        <4>4. Append(shares[outgoing.task], outgoing) \in Seq(Works)
          BY <4>1, <4>3, AppendElements
        <4> QED BY <4>2, <4>3, <4>4
      <3>2. CASE outgoing.task \notin receivers
        BY <1>11, <3>2 DEF SendShare, TypeOK
      <3> QED BY <3>1, <3>2
    <2> QED BY <1>11, <2>1 DEF SendShare, TypeOK, chipVars, histVars
  <1>12. CASE RollNtime
    <2>1. current' \in Works
      <3>1. current \in Works /\ current.ntime < MaxRoll /\ current' = [current EXCEPT !.ntime = @ + 1]
        BY <1>12 DEF RollNtime, TypeOK
      <3>2. current.ntime + 1 \in 0..MaxRoll
        BY <3>1 DEF Works
      <3> QED BY <3>1, <3>2 DEF Works
    <2>2. PICK sent \in BOOLEAN : (sent \/ faults < MaxFaults) /\ Insert(current', FALSE, sent)
      BY <1>12 DEF RollNtime
    <2>3. PICK w \in Works : w = current'
      BY <2>1
    <2>4. /\ tracker' \in [Ids -> Works \cup {None}] /\ nextId' \in Ids
          /\ inserts' \in Nat /\ cleared' \in Nat
          /\ chipJob' \in ChipJobs \cup {None} /\ faults' \in 0..MaxFaults
      BY <2>2, <2>3, InsertTypes
    <2>5. UNCHANGED <<schedVars, pc, cmdQ, reported, initialized, active, outgoing,
                      removal, link, oldest>>
      BY <1>12 DEF RollNtime
    <2> QED BY <2>1, <2>4, <2>5 DEF TypeOK, schedVars
  <1>13. CASE Exit
    <2>1. cmdQ' \in Seq(Commands) /\ pc' = "exited" /\ active' = FALSE
      BY <1>13 DEF Exit
    <2> QED BY <1>13, <2>1 DEF Exit, TypeOK, schedVars, chipVars, histVars
  <1>14. CASE SignalRemoval
    BY <1>14 DEF SignalRemoval, TypeOK, schedVars, actorVars, chipVars, histVars
  <1>15. CASE FindNonce
    <2>1. link' \in Seq(ChipJobs)
      BY <1>15, AppendElements DEF FindNonce, TypeOK
    <2> QED BY <1>15, <2>1 DEF FindNonce, TypeOK, schedVars, actorVars, histVars
  <1>16. CASE UNCHANGED vars
    BY <1>16 DEF vars, TypeOK, schedVars, actorVars, chipVars, histVars
  <1> QED BY <1>1, <1>2, <1>3, <1>4, <1>5, <1>6, <1>7, <1>8, <1>9, <1>10, <1>11, <1>12,
             <1>13, <1>14, <1>15, <1>16 DEF Next, Actor

LEMMA StepPlaced == ThreadInv /\ [Next]_vars => JobsPlaced'
  <1> SUFFICES ASSUME ThreadInv, [Next]_vars PROVE JobsPlaced'
    OBVIOUS
  <1> USE ThreadConstants
  <1>t. TypeOK' /\ TypeOK /\ JobsPlaced
    BY StepTypes DEF ThreadInv
  <1>1. ASSUME UNCHANGED <<tracker, nextId, chipJob, link, inserts, cleared>> PROVE JobsPlaced'
    BY <1>1, <1>t DEF JobsPlaced, JobPlaced
  <1>2. ASSUME NEW k \in {"update", "replace"}, TakeTask(k) PROVE JobsPlaced'
    <2> DEFINE w == [task |-> Head(cmdQ).task, ntime |-> 0]
    <2>1. w \in Works
      BY <1>2, <1>t, TaskAtHead DEF TakeTask
    <2>2. PICK sent \in BOOLEAN : Insert(w, k = "replace", sent)
      BY <1>2 DEF TakeTask
    <2>3. PICK v \in Works : v = w
      BY <2>1
    <2>4. UNCHANGED link
      BY <1>2 DEF TakeTask
    <2> HIDE DEF w
    <2> QED BY <1>t, <2>2, <2>3, <2>4, InsertPlacesJob
  <1>3. CASE RollNtime
    <2>1. current' \in Works \cup {None} /\ current' # None
      <3>1. current \in Works /\ current' = [current EXCEPT !.ntime = @ + 1]
        BY <1>3, <1>t DEF RollNtime, TypeOK
      <3>2. current' \in Works \cup {None}
        BY <1>t DEF TypeOK
      <3>3. current.ntime + 1 \in 0..MaxRoll
        BY <1>3, <3>1 DEF RollNtime, Works
      <3>4. current' \in Works
        BY <3>1, <3>3 DEF Works
      <3> QED BY <3>4 DEF Works, Tasks
    <2>2. PICK sent \in BOOLEAN : Insert(current', FALSE, sent)
      BY <1>3 DEF RollNtime
    <2>3. PICK v \in Works : v = current'
      BY <2>1
    <2>4. UNCHANGED link
      BY <1>3 DEF RollNtime
    <2> QED BY <1>t, <2>2, <2>3, <2>4, InsertPlacesJob
  <1>4. CASE HandleNonce
    <2>1. link \in Seq(ChipJobs) /\ link # <<>> /\ link' = Tail(link)
      BY <1>4, <1>t DEF HandleNonce, TypeOK
    <2>2. UNCHANGED <<tracker, nextId, chipJob, inserts, cleared>>
      BY <1>4 DEF HandleNonce, histVars
    <2>3. ASSUME NEW i \in 1..Len(link') PROVE JobPlaced(link[i])'
      <3>1. i + 1 \in 1..Len(link) /\ link'[i] = link[i + 1]
        BY <2>1, <2>3, TailElements
      <3>2. JobPlaced(link[i + 1])
        BY <3>1, <1>t DEF JobsPlaced
      <3> QED BY <3>1, <3>2, <2>2 DEF JobPlaced
    <2> QED BY <1>t, <2>2, <2>3 DEF JobsPlaced, JobPlaced
  <1>5. CASE FindNonce
    <2>1. link \in Seq(ChipJobs) /\ chipJob \in ChipJobs /\ link' = Append(link, chipJob)
      BY <1>5, <1>t DEF FindNonce, TypeOK
    <2>2. UNCHANGED <<tracker, nextId, chipJob, inserts, cleared>> /\ chipJob # None
      BY <1>5 DEF FindNonce, histVars, actorVars
    <2>3. ASSUME NEW i \in 1..Len(link') PROVE JobPlaced(link[i])'
      <3>1. (i \in 1..Len(link) /\ link'[i] = link[i]) \/ link'[i] = chipJob
        BY <2>1, <2>3, AppendElements
      <3>2. JobPlaced(chipJob) /\ (i \in 1..Len(link) => JobPlaced(link[i]))
        BY <2>2, <1>t DEF JobsPlaced
      <3> QED BY <3>1, <3>2, <2>2 DEF JobPlaced
    <2> QED BY <1>t, <2>2, <2>3 DEF JobsPlaced, JobPlaced
  <1>6. CASE Configure \/ InitializeFails \/ BecomeIdle \/ SendShare \/ Exit
    BY <1>1, <1>6 DEF Configure, InitializeFails, BecomeIdle, SendShare, Exit, chipVars, histVars
  <1>7. CASE GoIdle \/ ClearJobs \/ CallFails \/ SignalRemoval
    BY <1>1, <1>7 DEF GoIdle, ClearJobs, CallFails, SignalRemoval, actorVars, chipVars, histVars
  <1>8. ASSUME NEW k \in {"update", "replace"}, AssignTask(k) PROVE JobsPlaced'
    BY <1>1, <1>8 DEF AssignTask, chipVars, histVars
  <1>9. ASSUME NEW t \in Tasks, ReadShare(t) PROVE JobsPlaced'
    BY <1>1, <1>9 DEF ReadShare, actorVars, chipVars, histVars
  <1>10. CASE UNCHANGED vars
    BY <1>1, <1>10 DEF vars, actorVars, chipVars, histVars
  <1> QED BY <1>2, <1>3, <1>4, <1>5, <1>6, <1>7, <1>8, <1>9, <1>10 DEF Next, Actor

\* The head of the command channel is the last command, unless it is the
\* configuration; once it is taken nothing is left to take.
LEMMA CallIsLast ==
    ASSUME TypeOK, OneCallQueued, cmdQ # <<>>, Head(cmdQ).kind # "configure"
    PROVE  Len(cmdQ) = 1 /\ Tail(cmdQ) = <<>> /\ cmdQ[1] = Head(cmdQ)
  <1>1. Len(cmdQ) \in Nat \ {0} /\ Head(cmdQ) = cmdQ[1] /\ Tail(cmdQ) \in Seq(Commands)
        /\ Len(Tail(cmdQ)) = Len(cmdQ) - 1
    BY TailElements DEF TypeOK
  <1>2. Len(cmdQ) = 1
    BY <1>1 DEF OneCallQueued
  <1>3. Tail(cmdQ) = <<>>
    <2>1. Len(Tail(cmdQ)) = 0
      BY <1>1, <1>2
    <2> QED BY <1>1, <2>1, ZeroLength, Zenon
  <1> QED BY <1>1, <1>2, <1>3

LEMMA StepQueued == ThreadInv /\ [Next]_vars => OneCallQueued'
  <1> SUFFICES ASSUME ThreadInv, [Next]_vars PROVE OneCallQueued'
    OBVIOUS
  <1>t. TypeOK /\ OneCallQueued
    BY DEF ThreadInv
  <1>e. ASSUME cmdQ' = <<>> PROVE OneCallQueued'
    BY <1>e DEF OneCallQueued
  <1>1. ASSUME UNCHANGED <<cmdQ, call>>, pc' # "exited" \/ pc' = pc PROVE OneCallQueued'
    BY <1>1, <1>t DEF OneCallQueued
  <1>2. ASSUME NEW c \in Commands, call = None, call' # None, cmdQ' = Append(cmdQ, c),
               pc' = pc, pc # "exited"
        PROVE  OneCallQueued'
    <2>1. Len(cmdQ') = Len(cmdQ) + 1 /\ Len(cmdQ) \in Nat
      BY <1>2, <1>t, AppendElements DEF TypeOK
    <2>2. ASSUME NEW i \in 1..Len(cmdQ'), NEW j \in 1..Len(cmdQ'), i < j
          PROVE  cmdQ'[i].kind = "configure"
      <3>1. i \in 1..Len(cmdQ) /\ cmdQ'[i] = cmdQ[i]
        BY <2>1, <2>2, <1>2, <1>t, AppendElements DEF TypeOK
      <3> QED BY <3>1, <1>2, <1>t DEF OneCallQueued
    <2> QED BY <1>2, <2>2 DEF OneCallQueued
  <1>3. ASSUME NEW k \in {"update", "replace"}, AssignTask(k) PROVE OneCallQueued'
    <2>1. given + 1 \in Tasks /\ given' = given + 1
      BY <1>3, <1>t, ThreadConstants DEF AssignTask, TypeOK, Tasks
    <2>2. [kind |-> k, task |-> given + 1] \in Commands
      BY <2>1 DEF Commands, Calls
    <2>3. call' = [kind |-> k, task |-> given + 1] /\ call = None /\ pc' = pc
      BY <1>3, <2>1 DEF AssignTask
    <2>4. CASE pc = "exited"
      BY <1>3, <1>e, <1>t, <2>4 DEF AssignTask, OneCallQueued
    <2>5. CASE pc # "exited"
      <3>1. cmdQ' = Append(cmdQ, [kind |-> k, task |-> given + 1])
        BY <1>3, <2>3, <2>5 DEF AssignTask
      <3>2. PICK c \in Commands : c = [kind |-> k, task |-> given + 1]
        BY <2>2
      <3>3. call' # None
        BY <2>1, <2>3, ThreadConstants DEF Tasks
      <3> QED BY <2>3, <2>5, <3>1, <3>2, <3>3, <1>2
    <2> QED BY <2>4, <2>5
  <1>4. CASE GoIdle
    <2>1. [kind |-> "idle"] \in Commands
      BY DEF Commands, Calls
    <2>2. PICK c \in Commands : c = [kind |-> "idle"]
      BY <2>1
    <2>3. call' = c /\ call = None /\ pc' = pc /\ pc # "exited" /\ cmdQ' = Append(cmdQ, c)
      BY <1>4, <2>2 DEF GoIdle
    <2>4. call' # None
      BY <2>2, <2>3, ThreadConstants
    <2> QED BY <2>3, <2>4, <1>2
  <1>5. CASE CallFails
    <2>1. cmdQ' = <<>>
      BY <1>5, <1>t DEF CallFails, OneCallQueued, actorVars
    <2> QED BY <2>1, <1>e
  <1>6. CASE Configure
    <2>1. cmdQ \in Seq(Commands) /\ cmdQ # <<>> /\ cmdQ' = Tail(cmdQ)
      BY <1>6, <1>t DEF Configure, Command, TypeOK
    <2>2. call' = call /\ pc' = pc /\ pc = "select"
      BY <1>6 DEF Configure, Command, schedVars
    <2>3. Len(cmdQ) \in Nat /\ Len(cmdQ') = Len(cmdQ) - 1
      BY <2>1, TailElements
    <2>4. \A i \in 1..Len(cmdQ') : i + 1 \in 1..Len(cmdQ) /\ cmdQ'[i] = cmdQ[i + 1]
      BY <2>1, TailElements
    <2>5. ASSUME NEW i \in 1..Len(cmdQ'), NEW j \in 1..Len(cmdQ'), i < j
          PROVE  cmdQ'[i].kind = "configure"
      <3>1. i + 1 \in 1..Len(cmdQ) /\ cmdQ'[i] = cmdQ[i + 1]
        BY <2>4
      <3>2. j + 1 \in 1..Len(cmdQ) /\ i + 1 < j + 1
        BY <2>3, <2>4, <2>5
      <3> QED BY <3>1, <3>2, <1>t DEF OneCallQueued
    <2>6. ASSUME call' = None PROVE \A i \in 1..Len(cmdQ') : cmdQ'[i].kind = "configure"
      BY <2>2, <2>4, <2>6, <1>t DEF OneCallQueued
    <2> QED BY <2>2, <2>5, <2>6 DEF OneCallQueued
  <1>7. CASE InitializeFails \/ BecomeIdle
    <2>1. cmdQ # <<>> /\ Head(cmdQ).kind # "configure" /\ cmdQ' = Tail(cmdQ)
      BY <1>7 DEF InitializeFails, BecomeIdle, Command
    <2> QED BY <2>1, <1>t, <1>e, CallIsLast
  <1>8. ASSUME NEW k \in {"update", "replace"}, TakeTask(k) PROVE OneCallQueued'
    <2>1. cmdQ # <<>> /\ Head(cmdQ).kind # "configure" /\ cmdQ' = Tail(cmdQ)
      BY <1>8 DEF TakeTask, Command
    <2> QED BY <2>1, <1>t, <1>e, CallIsLast
  <1>9. CASE Exit
    BY <1>9, <1>e DEF Exit
  <1>10. CASE HandleNonce \/ SendShare
    <2>1. UNCHANGED <<cmdQ, call>>
      BY <1>10 DEF HandleNonce, SendShare, schedVars
    <2>2. pc' # "exited" \/ pc' = pc
      BY <1>10 DEF HandleNonce, SendShare
    <2> QED BY <2>1, <2>2, <1>1
  <1>11. CASE RollNtime \/ ClearJobs \/ SignalRemoval \/ FindNonce
    BY <1>11, <1>1 DEF RollNtime, ClearJobs, SignalRemoval, FindNonce, actorVars, schedVars
  <1>12. ASSUME NEW t \in Tasks, ReadShare(t) PROVE OneCallQueued'
    BY <1>12, <1>1 DEF ReadShare, actorVars
  <1>13. CASE UNCHANGED vars
    BY <1>13, <1>1 DEF vars, actorVars, schedVars
  <1> QED BY <1>3, <1>4, <1>5, <1>6, <1>7, <1>8, <1>9, <1>10, <1>11, <1>12, <1>13 DEF Next, Actor

\* After an insert of a task that is valid, with a clear() when it becomes the
\* oldest, every entry is of a valid task.
LEMMA InsertValid ==
    ASSUME TypeOK, ReachableValid, NEW w \in Works, NEW c \in BOOLEAN, NEW sent \in BOOLEAN,
           Insert(w, c, sent), w.task >= oldest', oldest' = oldest \/ c
    PROVE  \A i \in Ids : tracker'[i] # None => tracker'[i].task >= oldest'
  <1> SUFFICES ASSUME NEW i \in Ids, tracker'[i] # None
               PROVE  tracker'[i].task >= oldest'
    OBVIOUS
  <1>1. EntriesAfterClear(c) \in [Ids -> Works \cup {None}]
    BY DEF TypeOK, EntriesAfterClear
  <1>2. tracker' = [EntriesAfterClear(c) EXCEPT ![nextId] = w]
    BY DEF Insert, NextIdAfterClear
  <1>3. CASE i = nextId
    BY <1>1, <1>2, <1>3
  <1>4. CASE i # nextId /\ ~c
    <2>1. tracker'[i] = tracker[i]
      BY <1>1, <1>2, <1>4 DEF EntriesAfterClear
    <2> QED BY <2>1, <1>4 DEF ReachableValid
  <1>5. CASE i # nextId /\ c
    BY <1>1, <1>2, <1>5 DEF EntriesAfterClear
  <1> QED BY <1>3, <1>4, <1>5

LEMMA StepValid == ThreadInv /\ [Next]_vars => ReachableValid'
  <1> SUFFICES ASSUME ThreadInv, [Next]_vars PROVE ReachableValid'
    OBVIOUS
  <1> USE ThreadConstants
  <1>t. TypeOK /\ OneCallQueued /\ ReachableValid /\ JobsPlaced /\ TypeOK'
    BY StepTypes DEF ThreadInv
  <1>n. oldest \in Nat /\ given \in Nat /\ Tasks \subseteq Nat
    BY <1>t DEF TypeOK, Tasks
  <1>1. ASSUME UNCHANGED <<oldest, given, tracker, current, cmdQ>>,
               pc' = "send" => outgoing' \in Works /\ outgoing'.task >= oldest
        PROVE  ReachableValid'
    BY <1>1, <1>t DEF ReachableValid
  <1>2. ASSUME cmdQ' = <<>>, pc' # "send", UNCHANGED <<oldest, given, tracker>>,
               current' = current \/ current' = None
        PROVE  ReachableValid'
    <2>1. current' # None => current'.task >= oldest
      BY <1>2, <1>t DEF ReachableValid
    <2> QED BY <1>2, <1>t, <2>1 DEF ReachableValid
  <1>3. ASSUME NEW k \in {"update", "replace"}, AssignTask(k) PROVE ReachableValid'
    <2>1. given' = given + 1 /\ UNCHANGED <<oldest, tracker, current, pc, outgoing>>
      BY <1>3 DEF AssignTask, histVars
    <2>2. ASSUME NEW i \in 1..Len(cmdQ'), cmdQ'[i].kind \in {"update", "replace"}
          PROVE  cmdQ'[i].task >= oldest /\ cmdQ'[i].task <= given'
      <3>1. call' = [kind |-> k, task |-> given + 1] /\ call' \in Commands /\ cmdQ \in Seq(Commands)
        <4>1. call' = [kind |-> k, task |-> given + 1]
          BY <1>3, <2>1 DEF AssignTask
        <4>2. given + 1 \in Tasks
          BY <1>3, <1>t DEF AssignTask, TypeOK, Tasks
        <4> QED BY <4>1, <4>2, <1>t DEF TypeOK, Commands, Calls
      <3>2. CASE pc = "exited"
        BY <1>3, <1>t, <2>2, <3>2 DEF AssignTask, OneCallQueued
      <3>3. CASE pc # "exited"
        <4>1. (i \in 1..Len(cmdQ) /\ cmdQ'[i] = cmdQ[i]) \/ cmdQ'[i] = call'
          <5>1. cmdQ' = Append(cmdQ, call')
            BY <1>3, <3>3 DEF AssignTask
          <5>2. PICK c \in Commands : c = call'
            BY <3>1
          <5> QED BY <5>1, <5>2, <3>1, <2>2, AppendElements
        <4>2. CASE i \in 1..Len(cmdQ) /\ cmdQ'[i] = cmdQ[i]
          <5>1. cmdQ[i].task >= oldest /\ cmdQ[i].task <= given
            BY <4>2, <2>2, <1>t DEF ReachableValid
          <5>2. cmdQ[i] \in Commands
            BY <4>2, <3>1
          <5>3. cmdQ[i].task \in Nat
            BY <4>2, <5>2, <2>2, <1>n DEF Commands, Calls
          <5> QED BY <4>2, <5>1, <5>3, <2>1, <1>n
        <4>3. CASE cmdQ'[i] = call'
          BY <4>3, <3>1, <2>1, <1>n, <1>t DEF ReachableValid
        <4> QED BY <4>1, <4>2, <4>3
      <3> QED BY <3>2, <3>3
    <2>3. oldest' <= given' + 1
      BY <2>1, <1>n, <1>t DEF ReachableValid
    <2> QED BY <1>t, <2>1, <2>2, <2>3 DEF ReachableValid
  <1>4. CASE GoIdle
    <2>1. UNCHANGED <<given, oldest, tracker, current, pc, outgoing>>
      BY <1>4 DEF GoIdle, histVars
    <2>2. ASSUME NEW i \in 1..Len(cmdQ'), cmdQ'[i].kind \in {"update", "replace"}
          PROVE  cmdQ'[i].task >= oldest /\ cmdQ'[i].task <= given
      <3>1. PICK c \in Commands : c = [kind |-> "idle"]
        BY DEF Commands, Calls
      <3>2. cmdQ' = Append(cmdQ, c) /\ cmdQ \in Seq(Commands)
        BY <1>4, <1>t, <3>1 DEF GoIdle, TypeOK
      <3>3. (i \in 1..Len(cmdQ) /\ cmdQ'[i] = cmdQ[i]) \/ cmdQ'[i] = c
        BY <2>2, <3>2, AppendElements
      <3> QED BY <2>2, <3>1, <3>3, <1>t DEF ReachableValid
    <2> QED BY <1>t, <2>1, <2>2 DEF ReachableValid
  <1>5. CASE Configure
    <2>1. cmdQ \in Seq(Commands) /\ cmdQ # <<>> /\ cmdQ' = Tail(cmdQ)
      BY <1>5, <1>t DEF Configure, Command, TypeOK
    <2>2. UNCHANGED <<given, oldest, tracker, current, pc, outgoing>>
      BY <1>5 DEF Configure, schedVars, histVars
    <2>3. \A i \in 1..Len(cmdQ') : i + 1 \in 1..Len(cmdQ) /\ cmdQ'[i] = cmdQ[i + 1]
      BY <2>1, TailElements
    <2>4. \A i \in 1..Len(cmdQ') : cmdQ'[i].kind \in {"update", "replace"} =>
             cmdQ'[i].task >= oldest /\ cmdQ'[i].task <= given
      BY <2>3, <1>t DEF ReachableValid
    <2> QED BY <1>t, <2>2, <2>4 DEF ReachableValid
  <1>6. CASE InitializeFails \/ BecomeIdle
    <2>1. cmdQ # <<>> /\ Head(cmdQ).kind # "configure" /\ cmdQ' = Tail(cmdQ)
      BY <1>6 DEF InitializeFails, BecomeIdle, Command
    <2>2. cmdQ' = <<>>
      BY <2>1, <1>t, CallIsLast
    <2>3. pc' # "send" /\ UNCHANGED <<oldest, given, tracker>>
      BY <1>6 DEF InitializeFails, BecomeIdle, Command, Reply, histVars
    <2>4. current' = current \/ current' = None
      BY <1>6 DEF InitializeFails, BecomeIdle
    <2> QED BY <2>2, <2>3, <2>4, <1>2
  <1>7. ASSUME NEW k \in {"update", "replace"}, TakeTask(k) PROVE ReachableValid'
    <2> DEFINE w == [task |-> Head(cmdQ).task, ntime |-> 0]
    <2>1. w \in Works /\ Head(cmdQ).task \in Tasks
      BY <1>7, <1>t, TaskAtHead DEF TakeTask
    <2>2. PICK sent \in BOOLEAN : Insert(w, k = "replace", sent) /\ current' = w /\ Reply(sent)
      BY <1>7 DEF TakeTask
    <2>3. pc = "select" /\ cmdQ # <<>> /\ Head(cmdQ).kind = k /\ cmdQ' = Tail(cmdQ)
      BY <1>7 DEF TakeTask, Command
    <2>4. cmdQ' = <<>> /\ cmdQ[1] = Head(cmdQ) /\ 1 \in 1..Len(cmdQ)
      BY <2>3, <1>t, CallIsLast
    <2>5. Head(cmdQ).task >= oldest /\ Head(cmdQ).task <= given
      BY <2>3, <2>4, <1>t DEF ReachableValid
    <2>6. oldest' = (IF k = "replace" THEN Head(cmdQ).task ELSE oldest) /\ pc' = pc
      BY <1>7 DEF TakeTask
    <2>7. w.task >= oldest' /\ oldest' <= given + 1 /\ (oldest' = oldest \/ k = "replace")
      <3>1. w.task = Head(cmdQ).task /\ Head(cmdQ).task \in Nat /\ oldest <= given + 1
        BY <2>1, <1>n, <1>t DEF ReachableValid
      <3> QED BY <2>5, <2>6, <3>1, <1>n
    <2>8. PICK v \in Works : v = w
      BY <2>1
    <2> HIDE DEF w
    <2>9. \A i \in Ids : tracker'[i] # None => tracker'[i].task >= oldest'
      BY <1>t, <2>2, <2>7, <2>8, InsertValid
    <2>10. given' = given
      BY <2>2 DEF Reply
    <2>11. current'.task >= oldest' /\ pc' # "send" /\ oldest' <= given' + 1
      BY <2>2, <2>3, <2>6, <2>7, <2>10
    <2>12. \A i \in 1..Len(cmdQ') : FALSE
      BY <2>4
    <2> QED BY <2>9, <2>11, <2>12 DEF ReachableValid
  <1>8. CASE HandleNonce
    <2>1. UNCHANGED <<oldest, given, tracker, current, cmdQ>> /\ pc = "select"
      BY <1>8 DEF HandleNonce, schedVars, histVars
    <2>2. Head(link) \in ChipJobs
      BY <1>8, <1>t, TailElements DEF HandleNonce, TypeOK
    <2>3. ASSUME pc' = "send" PROVE outgoing' \in Works /\ outgoing'.task >= oldest
      <3>1. outgoing' = tracker[Head(link).id] /\ outgoing' = Head(link).work
        BY <1>8, <2>1, <2>3 DEF HandleNonce, MeetsTarget
      <3>2. outgoing' \in Works /\ Head(link).id \in Ids
        BY <2>2, <3>1 DEF ChipJobs
      <3>3. outgoing' # None
        BY <3>2 DEF Works, Tasks
      <3> QED BY <3>1, <3>2, <3>3, <1>t DEF ReachableValid
    <2> QED BY <2>1, <2>3, <1>1
  <1>9. CASE RollNtime
    <2>1. current \in Works /\ current' = [current EXCEPT !.ntime = @ + 1] /\ current.ntime < MaxRoll
          /\ current # None
      BY <1>9, <1>t DEF RollNtime, TypeOK
    <2>2. current.ntime + 1 \in 0..MaxRoll
      BY <2>1 DEF Works
    <2>3. current' \in Works /\ current'.task = current.task
      BY <2>1, <2>2 DEF Works
    <2>4. current'.task >= oldest
      BY <2>1, <2>3, <1>t DEF ReachableValid
    <2>5. UNCHANGED <<oldest, given, cmdQ, pc, outgoing>>
      BY <1>9 DEF RollNtime, schedVars
    <2>6. PICK sent \in BOOLEAN : Insert(current', FALSE, sent)
      BY <1>9 DEF RollNtime
    <2>7. PICK v \in Works : v = current'
      BY <2>3
    <2>8. \A i \in Ids : tracker'[i] # None => tracker'[i].task >= oldest'
      BY <1>t, <2>4, <2>5, <2>6, <2>7, InsertValid
    <2> QED BY <1>t, <2>4, <2>5, <2>8 DEF ReachableValid
  <1>10. CASE Exit
    <2>1. cmdQ' = <<>> /\ pc' = "exited" /\ UNCHANGED <<oldest, given, tracker, current>>
      BY <1>10 DEF Exit, schedVars, histVars
    <2> QED BY <2>1, <1>2
  <1>11. CASE SendShare
    BY <1>11, <1>1 DEF SendShare, histVars
  <1>12. ASSUME UNCHANGED <<oldest, given, tracker, current, cmdQ, pc, outgoing>> PROVE ReachableValid'
    BY <1>12, <1>t DEF ReachableValid
  <1>13. CASE ClearJobs \/ CallFails \/ SignalRemoval \/ FindNonce
    BY <1>13, <1>12 DEF ClearJobs, CallFails, SignalRemoval, FindNonce, schedVars, actorVars, histVars
  <1>14. ASSUME NEW t \in Tasks, ReadShare(t) PROVE ReachableValid'
    BY <1>14, <1>12 DEF ReadShare, actorVars, histVars
  <1>15. CASE UNCHANGED vars
    BY <1>15, <1>12 DEF vars, schedVars, actorVars, histVars
  <1> QED BY <1>3, <1>4, <1>5, <1>6, <1>7, <1>8, <1>9, <1>10, <1>11, <1>13, <1>14, <1>15
          DEF Next, Actor

LEMMA InitThread == Init => ThreadInv
  <1> SUFFICES ASSUME Init PROVE ThreadInv
    OBVIOUS
  <1> USE ThreadConstants
  <1>1. cmdQ \in Seq(Commands) /\ Len(cmdQ) = 1 /\ cmdQ[1].kind = "configure"
    <2>1. [kind |-> "configure"] \in Commands
      BY DEF Commands
    <2> QED BY <2>1 DEF Init
  <1>2. TypeOK
    <2>1. shares \in [Tasks -> Seq(Works)]
      BY DEF Init
    <2>2. tracker \in [Ids -> Works \cup {None}] /\ nextId \in Ids
      BY DEF Init, Ids
    <2>3. link \in Seq(ChipJobs)
      BY DEF Init
    <2> QED BY <1>1, <2>1, <2>2, <2>3 DEF Init, TypeOK
  <1>3. JobsPlaced
    <2>1. 0 % Slots = 0
      OBVIOUS
    <2> QED BY <2>1 DEF Init, JobsPlaced
  <1>4. OneCallQueued
    BY <1>1 DEF Init, OneCallQueued
  <1>5. ReachableValid
    BY <1>1 DEF Init, ReachableValid
  <1> QED BY <1>2, <1>3, <1>4, <1>5 DEF ThreadInv

LEMMA ThreadInvariant == Spec => []ThreadInv
  <1>1. ThreadInv /\ [Next]_vars => ThreadInv'
    BY StepTypes, StepPlaced, StepQueued, StepValid DEF ThreadInv
  <1> QED BY InitThread, <1>1, PTL DEF Spec

-----------------------------------------------------------------------------
(* The theorems.                                                           *)

\* Whatever the number of slots, tasks and rolls: a nonce found for one of the
\* last Slots jobs is matched with the work it was found for, or with nothing
\* when that work was replaced (ChipJobTracker, thread.rs:35).
THEOREM NoncesAreMatched == Spec => []NoncesMatched
  <1>1. ThreadInv => NoncesMatched
    <2> SUFFICES ASSUME ThreadInv PROVE NoncesMatched
      OBVIOUS
    <2>1. RecentNoncesAttributed
      BY DEF ThreadInv, JobsPlaced, JobPlaced, RecentNoncesAttributed
    <2>2. StaleNoncesUnknown
      <3> SUFFICES ASSUME NEW i \in 1..Len(link), link[i].at < cleared, inserts - link[i].at <= Slots
                   PROVE  tracker[link[i].id] = None
        BY DEF StaleNoncesUnknown
      <3>1. link[i] \in ChipJobs
        BY DEF ThreadInv, TypeOK
      <3>2. link[i].at \in Nat /\ cleared \in Nat
        BY <3>1 DEF ThreadInv, TypeOK, ChipJobs
      <3>3. ~(link[i].at >= cleared)
        BY <3>2
      <3>4. JobPlaced(link[i])
        BY DEF ThreadInv, JobsPlaced
      <3> QED BY <3>3, <3>4 DEF JobPlaced
    <2> QED BY <2>1, <2>2 DEF ThreadInv, NoncesMatched
  <1> QED BY ThreadInvariant, <1>1, PTL

\* A share the actor sends is of a task no ReplaceTask it has handled made
\* void, however late its nonce came in (thread.rs:741).
THEOREM NoStaleShareIsSent == Spec => []SharesAreOfValidTasks
  <1>1. ThreadInv => SharesAreOfValidTasks
    BY DEF ThreadInv, ReachableValid, SharesAreOfValidTasks
  <1> QED BY ThreadInvariant, <1>1, PTL

=============================================================================
