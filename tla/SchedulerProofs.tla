-------------------------- MODULE SchedulerProofs --------------------------
(***************************************************************************)
(* Proofs about the scheduler, for any number of sources, threads, rates   *)
(* and jobs and for channels of any length.                                *)
(***************************************************************************)
EXTENDS Scheduler, FiniteSetTheorems, TLAPS

\* The tables a hand-over touches keep their types.
LEMMA HandOverType ==
    ASSUME TypeOK, NEW want \in SUBSET TaskIds, NEW ok, HandOver(want, ok)
    PROVE  /\ ok \subseteq want
           /\ held' \subseteq TaskIds
           /\ refused' \subseteq TaskIds
BY DEF HandOver, TypeOK

LEMMA GateType ==
    ASSUME NEW g \in Gates
    PROVE  /\ RecordRegistered(g) \in Gates
           /\ RecordReported(g) \in Gates
           /\ RecordComplete(g) \in Gates
           /\ RecordTimeout(g) \in Gates
<1>1. ASSUME NEW h \in Gates PROVE TryOpen(h) \in Gates
  <2>1. (h.open \/ (h.complete /\ h.reported >= h.registered)) \in BOOLEAN
    OBVIOUS
  <2> QED BY <2>1 DEF Gates, TryOpen
<1>2. RecordRegistered(g) \in Gates
  BY DEF Gates, RecordRegistered
<1>3. RecordReported(g) \in Gates
  <2>1. [g EXCEPT !.reported = @ + 1] \in Gates
    BY DEF Gates
  <2> QED BY <1>1, <2>1 DEF RecordReported
<1>4. RecordComplete(g) \in Gates
  <2>1. [g EXCEPT !.complete = TRUE] \in Gates
    BY DEF Gates
  <2> QED BY <1>1, <2>1 DEF RecordComplete
<1>5. RecordTimeout(g) \in Gates
  BY DEF Gates, RecordTimeout
<1> QED BY <1>2, <1>3, <1>4, <1>5

LEMMA BroadcastType ==
    ASSUME TypeOK, NEW srcs, NEW total \in Totals
    PROVE  Broadcast(srcs, total) \in [Sources -> Totals \cup {None}]
BY DEF Broadcast, TypeOK

LEMMA StreamCount ==
    ASSUME NEW S \in SUBSET Threads
    PROVE  IsFiniteSet(S) /\ Cardinality(S) \in Nat
BY ConstantsAssumption, FS_Subset, FS_CardinalityType

\* Every step keeps the types of the scheduler's tables and channels.
LEMMA TypeStep == TypeOK /\ [Next]_vars => TypeOK'
<1> SUFFICES ASSUME TypeOK, [Next]_vars PROVE TypeOK'
  OBVIOUS
<1>1. ASSUME NEW s \in Sources, HandleSourceRegistration(s) PROVE TypeOK'
  <2>1. told' \in [Sources -> Totals \cup {None}]
    BY <1>1, BroadcastType DEF HandleSourceRegistration, TypeOK
  <2> QED BY <1>1, <2>1 DEF HandleSourceRegistration, TypeOK, envVars, histVars
<1>2. ASSUME NEW s \in Sources, AssignJobToThreads(s) PROVE TypeOK'
  <2> DEFINE e    == Head(sourceQ[s])
             gone == Superseded(s, e.type)
             want == {[src |-> s, job |-> e.job, thr |-> t] : t \in Eligible(threads, expected)}
  <2>1. sourceQ[s] \in Seq(Events) /\ sourceQ[s] # <<>>
    BY <1>2 DEF AssignJobToThreads, TypeOK
  <2>2. e \in Events /\ Tail(sourceQ[s]) \in Seq(Events)
    BY <2>1
  <2>3. e.job \in Jobs
    BY <1>2, <2>2 DEF AssignJobToThreads, Events
  <2>4. want \subseteq TaskIds
    BY <2>3 DEF TaskIds, Eligible, TypeOK
  <2>5. PICK ok \in SUBSET want :
          /\ HandOver(want, ok)
          /\ tasks' = (tasks \ gone) \cup ok
          /\ channels' = (channels \ gone) \cup ok
          /\ shareQ' = [k \in TaskIds |-> IF k \in gone THEN <<>> ELSE shareQ[k]]
    BY <1>2 DEF AssignJobToThreads
  <2>6. held' \subseteq TaskIds /\ refused' \subseteq TaskIds
    BY <2>4, <2>5, HandOverType
  <2>7. tasks' \subseteq TaskIds /\ channels' \subseteq TaskIds
    BY <2>4, <2>5 DEF TypeOK
  <2>8. shareQ' \in [TaskIds -> Seq(Shares)]
    BY <2>5 DEF TypeOK
  <2>9. /\ lastJob' \in [Sources -> Jobs \cup {None}]
        /\ validFrom' \in [Sources -> Nat]
    BY <1>2, <2>3 DEF AssignJobToThreads, TypeOK, Jobs
  <2>10. sourceQ' \in [Sources -> Seq(Events)]
    BY <1>2, <2>2 DEF AssignJobToThreads, TypeOK
  <2> HIDE DEF e, gone, want
  <2> QED BY <1>2, <2>6, <2>7, <2>8, <2>9, <2>10 DEF AssignJobToThreads, TypeOK
<1>3. ASSUME NEW s \in Sources, HandleClearJobs(s) PROVE TypeOK'
  <2>1. sourceQ[s] \in Seq(Events) /\ sourceQ[s] # <<>>
    BY <1>3 DEF HandleClearJobs, TypeOK
  <2>2. Head(sourceQ[s]) \in Events /\ Tail(sourceQ[s]) \in Seq(Events)
    BY <2>1
  <2>3. Head(sourceQ[s]).next \in Nat
    BY <1>3, <2>2, ConstantsAssumption DEF HandleClearJobs, Events
  <2>4. /\ tasks' \subseteq TaskIds /\ channels' \subseteq TaskIds
        /\ shareQ' \in [TaskIds -> Seq(Shares)]
    BY <1>3 DEF HandleClearJobs, RemoveTasks, TypeOK
  <2> QED BY <1>3, <2>2, <2>3, <2>4 DEF HandleClearJobs, TypeOK
<1>4. ASSUME NEW k \in TaskIds, HandleShare(k) PROVE TypeOK'
  <2>1. Tail(shareQ[k]) \in Seq(Shares)
    BY <1>4 DEF HandleShare, TypeOK
  <2> QED BY <1>4, <2>1 DEF HandleShare, TypeOK
<1>5. ASSUME NEW t \in Threads, HandleExpectedHashRate(t) PROVE TypeOK'
  <2>1. Head(threadQ[t]) \in Rates /\ Tail(threadQ[t]) \in Seq(Rates)
    BY <1>5 DEF HandleExpectedHashRate, TypeOK
  <2>2. threadQ' \in [Threads -> Seq(Rates)] /\ phase' \in {"select", "detect"}
    BY <1>5, <2>1 DEF HandleExpectedHashRate, TypeOK
  <2>3. CASE t \notin threads
    BY <1>5, <2>2, <2>3 DEF HandleExpectedHashRate, TypeOK
  <2>4. CASE t \in threads
    <3> DEFINE want == IF expected[t] = None THEN CachedTasks(t) ELSE {}
    <3>1. want \subseteq TaskIds
      BY DEF CachedTasks, TaskIds, TypeOK
    <3>2. PICK ok \in SUBSET want : /\ HandOver(want, ok)
                                    /\ tasks' = tasks \cup ok
                                    /\ channels' = channels \cup ok
      BY <1>5, <2>4 DEF HandleExpectedHashRate
    <3>3. /\ held' \subseteq TaskIds /\ refused' \subseteq TaskIds
          /\ tasks' \subseteq TaskIds /\ channels' \subseteq TaskIds
      BY <3>1, <3>2, HandOverType DEF TypeOK
    <3>4. expected' \in Totals
      BY <1>5, <2>1, <2>4 DEF HandleExpectedHashRate, TypeOK, Totals, OptRate
    <3>5. gate' \in Gates
      BY <1>5, <2>4, GateType DEF HandleExpectedHashRate, TypeOK
    <3>6. told' \in [Sources -> Totals \cup {None}]
      BY <1>5, <2>4, <3>4, BroadcastType DEF HandleExpectedHashRate, TypeOK
    <3> QED BY <1>5, <2>2, <3>3, <3>4, <3>5, <3>6 DEF HandleExpectedHashRate, TypeOK
  <2> QED BY <2>3, <2>4
<1>6. CASE HandleNewThread
  <2>1. Head(regQ) \in Threads /\ Tail(regQ) \in Seq(Threads \cup {Complete})
    BY <1>6 DEF HandleNewThread, TypeOK
  <2>2. streams' \subseteq Threads /\ lastCount' \in Nat
    BY <1>6, <2>1, StreamCount DEF HandleNewThread, TypeOK
  <2>3. gate' \in Gates
    BY <1>6, GateType DEF HandleNewThread, TypeOK
  <2> QED BY <1>6, <2>1, <2>2, <2>3 DEF HandleNewThread, TypeOK
<1>7. CASE HandleEnumerationComplete
  <2>1. Tail(regQ) \in Seq(Threads \cup {Complete})
    BY <1>7 DEF HandleEnumerationComplete, TypeOK
  <2>2. gate' \in Gates
    BY <1>7, GateType DEF HandleEnumerationComplete, TypeOK
  <2>3. told' \in [Sources -> Totals \cup {None}]
    BY <1>7, BroadcastType DEF HandleEnumerationComplete, TypeOK
  <2>4. armed' \in BOOLEAN
    BY <1>7 DEF HandleEnumerationComplete
  <2> QED BY <1>7, <2>1, <2>2, <2>3, <2>4 DEF HandleEnumerationComplete, TypeOK, histVars
<1>8. CASE GateTimeout
  <2>1. gate' \in Gates
    BY <1>8, GateType DEF GateTimeout, TypeOK
  <2>2. told' \in [Sources -> Totals \cup {None}]
    BY <1>8, BroadcastType DEF GateTimeout, TypeOK
  <2> QED BY <1>8, <2>1, <2>2 DEF GateTimeout, TypeOK, envVars
<1>9. CASE Tick
  BY <1>9 DEF Tick, TypeOK, envVars, histVars
<1>10. CASE HandleThreadDisconnections
  <2>1. CASE Cardinality(streams) = lastCount
    BY <1>10, <2>1 DEF HandleThreadDisconnections, TypeOK
  <2>2. CASE Cardinality(streams) # lastCount
    <3>1. expected' \in Totals
      BY <1>10, <2>2 DEF HandleThreadDisconnections, TypeOK, Totals, OptRate
    <3>2. told' \in [Sources -> Totals \cup {None}]
      BY <1>10, <2>2, <3>1, BroadcastType DEF HandleThreadDisconnections
    <3>3. /\ tasks' \subseteq TaskIds /\ channels' \subseteq TaskIds
          /\ shareQ' \in [TaskIds -> Seq(Shares)]
      <4>1. RemoveTasks(Orphaned(streams))
        BY <1>10, <2>2 DEF HandleThreadDisconnections
      <4> QED BY <4>1 DEF RemoveTasks, TypeOK
    <3>4. lastCount' \in Nat
      BY <1>10, <2>2, StreamCount DEF HandleThreadDisconnections, TypeOK
    <3> QED BY <1>10, <2>2, <3>1, <3>2, <3>3, <3>4 DEF HandleThreadDisconnections, TypeOK
  <2> QED BY <2>1, <2>2
<1>11. ASSUME NEW t \in Threads, PollReap(t) PROVE TypeOK'
  BY <1>11 DEF PollReap, TypeOK, envVars, histVars
<1>12. ASSUME NEW k \in TaskIds, PollShareEnd(k) PROVE TypeOK'
  BY <1>12 DEF PollShareEnd, TypeOK, envVars, histVars
<1>13. CASE Environment
  <2>1. ASSUME NEW t \in Threads, Spawn(t) PROVE TypeOK'
    BY <2>1 DEF Spawn, TypeOK, schedVars, histVars
  <2>2. CASE EnumerationDone
    BY <2>2 DEF EnumerationDone, TypeOK, schedVars, histVars
  <2>3. ASSUME NEW t \in Threads, NEW r \in Rates, ThreadReports(t, r) PROVE TypeOK'
    BY <2>3 DEF ThreadReports, TypeOK, schedVars, histVars
  <2>4. ASSUME NEW k \in TaskIds, NEW share \in Shares, ThreadFindsShare(k, share) PROVE TypeOK'
    BY <2>4 DEF ThreadFindsShare, TypeOK, schedVars, histVars
  <2>5. ASSUME NEW k \in TaskIds, ThreadReleases(k) PROVE TypeOK'
    BY <2>5 DEF ThreadReleases, TypeOK, schedVars, histVars
  <2>6. ASSUME NEW t \in Threads, ThreadEnds(t) PROVE TypeOK'
    BY <2>6 DEF ThreadEnds, TypeOK, schedVars, histVars
  <2>7. ASSUME NEW s \in Sources, NEW type \in {"update", "replace", "clear"},
               SourceEmits(s, type)
        PROVE  TypeOK'
    <3>1. CASE type = "clear"
      <4>1. [type |-> "clear", next |-> issued[s] + 1] \in Events
        BY ConstantsAssumption DEF Events, TypeOK
      <4>2. Append(sourceQ[s], [type |-> "clear", next |-> issued[s] + 1]) \in Seq(Events)
        BY <4>1 DEF TypeOK
      <4>3. sourceQ' \in [Sources -> Seq(Events)] /\ issued' = issued
        BY <2>7, <3>1, <4>2 DEF SourceEmits, TypeOK
      <4> QED BY <2>7, <4>3 DEF SourceEmits, TypeOK, schedVars, histVars
    <3>2. CASE type # "clear"
      <4>1. issued[s] + 1 \in Jobs /\ issued[s] + 1 \in 0..MaxJobs
        BY <2>7, <3>2, ConstantsAssumption DEF SourceEmits, TypeOK, Jobs
      <4>2. [type |-> type, job |-> issued[s] + 1] \in Events
        BY <3>2, <4>1 DEF Events
      <4>3. Append(sourceQ[s], [type |-> type, job |-> issued[s] + 1]) \in Seq(Events)
        BY <4>2 DEF TypeOK
      <4>4. sourceQ' \in [Sources -> Seq(Events)] /\ issued' \in [Sources -> 0..MaxJobs]
        BY <2>7, <3>2, <4>1, <4>3 DEF SourceEmits, TypeOK
      <4> QED BY <2>7, <4>4 DEF SourceEmits, TypeOK, schedVars, histVars
    <3> QED BY <3>1, <3>2
  <2>8. ASSUME NEW s \in Sources, SourceExits(s) PROVE TypeOK'
    BY <2>8 DEF SourceExits, TypeOK, schedVars, histVars
  <2> QED BY <1>13, <2>1, <2>2, <2>3, <2>4, <2>5, <2>6, <2>7, <2>8 DEF Environment
<1>14. CASE UNCHANGED vars
  BY <1>14 DEF vars, schedVars, envVars, histVars, TypeOK
<1> QED BY <1>1, <1>2, <1>3, <1>4, <1>5, <1>6, <1>7, <1>8, <1>9, <1>10, <1>11, <1>12,
           <1>13, <1>14 DEF Next, Branch

LEMMA TypeInit == Init => TypeOK
<1> SUFFICES ASSUME Init PROVE TypeOK
  OBVIOUS
<1>1. gate \in Gates
  BY DEF Init, Gates
<1>2. /\ expected \in Totals
      /\ told \in [Sources -> Totals \cup {None}]
      /\ lastJob \in [Sources -> Jobs \cup {None}]
      /\ issued \in [Sources -> 0..MaxJobs]
      /\ validFrom \in [Sources -> Nat]
  BY ConstantsAssumption DEF Init, Totals, OptRate
<1>3. /\ regQ \in Seq(Threads \cup {Complete})
      /\ sourceQ \in [Sources -> Seq(Events)]
      /\ threadQ \in [Threads -> Seq(Rates)]
      /\ shareQ \in [TaskIds -> Seq(Shares)]
  BY DEF Init
<1> QED BY <1>1, <1>2, <1>3 DEF Init, TypeOK

\* The scheduler's tables, channels and gate keep their types in every
\* behaviour of Scheduler::run and its environment.
THEOREM TypeCorrect == Spec => []TypeOK
BY TypeInit, TypeStep, PTL DEF Spec

-----------------------------------------------------------------------------
(* The tables: a stream's thread is in the table, a thread that is not in  *)
(* it declares no rate, tasks belong to threads and channels to tasks.     *)

TableInv ==
    /\ streams \subseteq threads
    /\ \A t \in Threads \ threads : expected[t] = None
    /\ TasksHaveThreads
    /\ ChannelsHaveTasks

\* TableInv is inductive: only the disconnect check removes a thread, and it
\* removes the thread's tasks, channels and rate in the same step.
LEMMA TableStep == TypeOK /\ TableInv /\ [Next]_vars => TableInv'
<1> SUFFICES ASSUME TypeOK, TableInv, [Next]_vars PROVE TableInv'
  OBVIOUS
<1> USE DEF TableInv, TasksHaveThreads, ChannelsHaveTasks
<1>1. ASSUME NEW s \in Sources, AssignJobToThreads(s) PROVE TableInv'
  <2> DEFINE e    == Head(sourceQ[s])
             gone == Superseded(s, e.type)
             want == {[src |-> s, job |-> e.job, thr |-> t] : t \in Eligible(threads, expected)}
  <2>1. PICK ok \in SUBSET want : /\ tasks' = (tasks \ gone) \cup ok
                                  /\ channels' = (channels \ gone) \cup ok
    BY <1>1 DEF AssignJobToThreads
  <2>2. \A k \in ok : k.thr \in threads
    BY <2>1 DEF Eligible
  <2>3. /\ \A k \in tasks' : k.thr \in threads
        /\ channels' \subseteq tasks'
    BY <2>1, <2>2
  <2> HIDE DEF e, gone, want
  <2> QED BY <1>1, <2>3 DEF AssignJobToThreads
<1>2. ASSUME NEW s \in Sources, HandleClearJobs(s) PROVE TableInv'
  BY <1>2 DEF HandleClearJobs, RemoveTasks
<1>3. ASSUME NEW t \in Threads, HandleExpectedHashRate(t) PROVE TableInv'
  <2>1. CASE t \notin threads
    BY <1>3, <2>1 DEF HandleExpectedHashRate
  <2>2. CASE t \in threads
    <3> DEFINE want == IF expected[t] = None THEN CachedTasks(t) ELSE {}
    <3>1. PICK ok \in SUBSET want : /\ tasks' = tasks \cup ok
                                    /\ channels' = channels \cup ok
      BY <1>3, <2>2 DEF HandleExpectedHashRate
    <3>2. \A k \in ok : k.thr = t
      BY <3>1 DEF CachedTasks
    <3>3. /\ expected' = [expected EXCEPT ![t] = Head(threadQ[t])]
          /\ threads' = threads /\ streams' = streams
      BY <1>3, <2>2 DEF HandleExpectedHashRate
    <3>4. \A x \in Threads \ threads : expected'[x] = None
      BY <2>2, <3>3 DEF TypeOK, Totals
    <3> HIDE DEF want
    <3> QED BY <2>2, <3>1, <3>2, <3>3, <3>4
  <2> QED BY <2>1, <2>2
<1>4. CASE HandleNewThread
  BY <1>4 DEF HandleNewThread
<1>5. CASE HandleThreadDisconnections
  <2>1. CASE Cardinality(streams) = lastCount
    BY <1>5, <2>1 DEF HandleThreadDisconnections
  <2>2. CASE Cardinality(streams) # lastCount
    <3>1. /\ threads' = threads \cap streams /\ streams' = streams
          /\ expected' = [t \in Threads |-> IF t \in streams THEN expected[t] ELSE None]
          /\ tasks' = tasks \ Orphaned(streams) /\ channels' = channels \ Orphaned(streams)
      BY <1>5, <2>2 DEF HandleThreadDisconnections, RemoveTasks
    <3> QED BY <3>1 DEF Orphaned
  <2> QED BY <2>1, <2>2
<1>6. ASSUME NEW t \in Threads, PollReap(t) PROVE TableInv'
  BY <1>6 DEF PollReap
<1>7. ASSUME NEW k \in TaskIds, PollShareEnd(k) PROVE TableInv'
  BY <1>7 DEF PollShareEnd
<1>8. ASSUME UNCHANGED <<streams, threads, expected, tasks, channels>> PROVE TableInv'
  BY <1>8
<1>9. ASSUME NEW s \in Sources, HandleSourceRegistration(s) PROVE TableInv'
  BY <1>8, <1>9 DEF HandleSourceRegistration
<1>10. ASSUME NEW k \in TaskIds, HandleShare(k) PROVE TableInv'
  BY <1>8, <1>10 DEF HandleShare
<1>11. CASE HandleEnumerationComplete \/ GateTimeout \/ Tick
  BY <1>8, <1>11 DEF HandleEnumerationComplete, GateTimeout, Tick
<1>12. CASE Environment
  BY <1>8, <1>12 DEF Environment, Spawn, EnumerationDone, ThreadReports, ThreadFindsShare,
       ThreadReleases, ThreadEnds, SourceEmits, SourceExits, schedVars
<1>13. CASE UNCHANGED vars
  BY <1>8, <1>13 DEF vars, schedVars
<1> QED BY <1>1, <1>2, <1>3, <1>4, <1>5, <1>6, <1>7, <1>9, <1>10, <1>11, <1>12, <1>13
        DEF Next, Branch

\* A TaskEntry always has its thread in the table and a share channel always
\* has its TaskEntry, so the early return of assign_job_to_threads on an empty
\* table skips no task and handle_share never meets a removed one.
THEOREM TablesConsistent == Spec => []TablesAgree
<1>1. Init => TableInv
  BY DEF Init, TableInv, TasksHaveThreads, ChannelsHaveTasks
<1>2. TableInv => TablesAgree
  BY DEF TableInv, TablesAgree
<1> QED BY <1>1, <1>2, TableStep, TypeCorrect, PTL DEF Spec

-----------------------------------------------------------------------------
(* Validity: the events a source has queued are in the order of its jobs,  *)
(* none is older than the last invalidation the scheduler has handled, and *)
(* neither is the cached job nor any task.                                 *)

\* The first job an event does not make void.
Key(e) == IF e.type = "clear" THEN e.next ELSE e.job

QueueInOrder(s) ==
    /\ \A i \in 1..Len(sourceQ[s]) : /\ validFrom[s] <= Key(sourceQ[s][i])
                                    /\ Key(sourceQ[s][i]) <= issued[s] + 1
    /\ \A i, j \in 1..Len(sourceQ[s]) : i < j => Key(sourceQ[s][i]) <= Key(sourceQ[s][j])

ValidInv ==
    /\ \A s \in Sources : /\ validFrom[s] <= issued[s] + 1
                          /\ lastJob[s] # None => validFrom[s] <= lastJob[s]
                          /\ QueueInOrder(s)
    /\ TasksAreValid
    /\ SubmitsOnlyValid
    /\ phase = "select" => sent = None

LEMMA KeyType == ASSUME NEW e \in Events PROVE Key(e) \in Nat
BY ConstantsAssumption DEF Key, Events, Jobs

\* What is left of a queue after its head is in order past the head.
LEMMA QueueTail ==
    ASSUME TypeOK, NEW s \in Sources, QueueInOrder(s), sourceQ[s] # <<>>
    PROVE  LET q == sourceQ[s] r == Tail(sourceQ[s])
           IN  /\ Head(q) \in Events /\ Len(r) = Len(q) - 1 /\ Len(q) \in Nat
               /\ \A i \in 1..Len(r) : r[i] = q[i + 1] /\ i + 1 \in 1..Len(q)
               /\ validFrom[s] <= Key(Head(q)) /\ Key(Head(q)) <= issued[s] + 1
               /\ \A i \in 1..Len(r) : /\ Key(Head(q)) <= Key(r[i])
                                       /\ Key(r[i]) <= issued[s] + 1
                                       /\ validFrom[s] <= Key(r[i])
               /\ \A i, j \in 1..Len(r) : i < j => Key(r[i]) <= Key(r[j])
<1> DEFINE q == sourceQ[s]
           r == Tail(q)
<1>1. q \in Seq(Events) /\ q # <<>>
  BY DEF TypeOK
<1>2. Head(q) = q[1] /\ Head(q) \in Events /\ Len(q) \in Nat /\ 1 \in 1..Len(q)
      /\ Len(r) = Len(q) - 1
  BY <1>1
<1>3. \A i \in 1..Len(r) : r[i] = q[i + 1] /\ i + 1 \in 1..Len(q)
  BY <1>1, <1>2
<1>4. /\ \A i \in 1..Len(q) : validFrom[s] <= Key(q[i]) /\ Key(q[i]) <= issued[s] + 1
      /\ \A i, j \in 1..Len(q) : i < j => Key(q[i]) <= Key(q[j])
  BY DEF QueueInOrder
<1>5. \A i \in 1..Len(r) : /\ Key(Head(q)) <= Key(r[i])
                           /\ Key(r[i]) <= issued[s] + 1
                           /\ validFrom[s] <= Key(r[i])
  <2> SUFFICES ASSUME NEW i \in 1..Len(r)
               PROVE  /\ Key(q[1]) <= Key(q[i + 1])
                      /\ Key(q[i + 1]) <= issued[s] + 1
                      /\ validFrom[s] <= Key(q[i + 1])
    BY <1>2, <1>3
  <2>1. 1 < i + 1 /\ i + 1 \in 1..Len(q)
    BY <1>2, <1>3
  <2> HIDE DEF q, r
  <2> QED BY <1>2, <1>4, <2>1
<1>6. \A i, j \in 1..Len(r) : i < j => Key(r[i]) <= Key(r[j])
  <2> SUFFICES ASSUME NEW i \in 1..Len(r), NEW j \in 1..Len(r), i < j
               PROVE  Key(q[i + 1]) <= Key(q[j + 1])
    BY <1>3
  <2>1. i + 1 < j + 1 /\ i + 1 \in 1..Len(q) /\ j + 1 \in 1..Len(q)
    BY <1>2, <1>3
  <2> HIDE DEF q, r
  <2> QED BY <1>4, <2>1
<1> HIDE DEF q, r
<1>7. validFrom[s] <= Key(Head(q)) /\ Key(Head(q)) <= issued[s] + 1
  BY <1>2, <1>4
<1> USE DEF q, r
<1> QED BY <1>2, <1>3, <1>5, <1>6, <1>7

\* ValidInv is inductive on top of TableInv: a ReplaceJob that finds the
\* thread table empty removes nothing, and then there is nothing to remove.
LEMMA ValidStep == TypeOK /\ TableInv /\ ValidInv /\ [Next]_vars => ValidInv'
<1> SUFFICES ASSUME TypeOK, TableInv, ValidInv, [Next]_vars PROVE ValidInv'
  OBVIOUS
<1>1. ASSUME NEW s \in Sources, AssignJobToThreads(s) PROVE ValidInv'
  <2> DEFINE e    == Head(sourceQ[s])
             gone == Superseded(s, e.type)
             want == {[src |-> s, job |-> e.job, thr |-> t] : t \in Eligible(threads, expected)}
  <2>1. PICK ok \in SUBSET want : tasks' = (tasks \ gone) \cup ok
    BY <1>1 DEF AssignJobToThreads
  <2>2. /\ QueueInOrder(s) /\ sourceQ[s] # <<>>
        /\ phase = "select" /\ phase' = "detect" /\ sent' = sent /\ issued' = issued
        /\ lastJob' = [lastJob EXCEPT ![s] = e.job]
        /\ validFrom' = [validFrom EXCEPT ![s] = IF e.type = "replace" THEN e.job ELSE @]
        /\ sourceQ' = [sourceQ EXCEPT ![s] = Tail(@)]
        /\ e.type \in {"update", "replace"}
    BY <1>1 DEF AssignJobToThreads, ValidInv
  <2>3. Key(e) = e.job /\ Key(e) \in Nat
    BY <2>2, QueueTail, KeyType DEF Key
  <2>4. validFrom[s] <= e.job /\ e.job <= issued[s] + 1
    BY <2>2, <2>3, QueueTail
  <2>5. /\ validFrom'[s] = IF e.type = "replace" THEN e.job ELSE validFrom[s]
        /\ lastJob'[s] = e.job /\ sourceQ'[s] = Tail(sourceQ[s])
        /\ validFrom'[s] <= e.job /\ validFrom[s] \in Nat
        /\ \A x \in Sources \ {s} : /\ validFrom'[x] = validFrom[x]
                                    /\ lastJob'[x] = lastJob[x]
                                    /\ sourceQ'[x] = sourceQ[x]
    BY <2>2, <2>3, <2>4 DEF TypeOK
  <2>6. QueueInOrder(s)'
    <3> DEFINE r == Tail(sourceQ[s])
    <3>1. /\ \A i \in 1..Len(r) : /\ e.job <= Key(r[i])
                                  /\ Key(r[i]) <= issued[s] + 1
                                  /\ validFrom[s] <= Key(r[i])
          /\ \A i, j \in 1..Len(r) : i < j => Key(r[i]) <= Key(r[j])
      BY <2>2, <2>3, QueueTail
    <3>2. sourceQ'[s] = r /\ issued' = issued
          /\ validFrom'[s] = IF e.type = "replace" THEN e.job ELSE validFrom[s]
      BY <2>2, <2>5
    <3> HIDE DEF e, r, gone, want
    <3> QED BY <3>1, <3>2 DEF QueueInOrder
  <2>7. \A x \in Sources : /\ validFrom'[x] <= issued'[x] + 1
                           /\ lastJob'[x] # None => validFrom'[x] <= lastJob'[x]
                           /\ QueueInOrder(x)'
    <3> SUFFICES ASSUME NEW x \in Sources, x # s
                 PROVE  /\ validFrom'[x] <= issued'[x] + 1
                        /\ lastJob'[x] # None => validFrom'[x] <= lastJob'[x]
                        /\ QueueInOrder(x)'
      <4>1. validFrom'[s] <= issued'[s] + 1 /\ validFrom'[s] <= lastJob'[s]
        BY <2>2, <2>3, <2>4, <2>5 DEF TypeOK
      <4> QED BY <2>6, <4>1
    <3> QED BY <2>2, <2>5 DEF ValidInv, QueueInOrder
  <2>8. \A k \in tasks' : k.job >= validFrom'[k.src]
    <3> SUFFICES ASSUME NEW k \in tasks' PROVE k.job >= validFrom'[k.src]
      OBVIOUS
    <3>1. CASE k \in ok
      <4>1. k.src = s /\ k.job = e.job
        BY <2>1, <3>1
      <4> QED BY <2>3, <2>5, <4>1 DEF TypeOK
    <3>2. CASE k \in tasks \ gone
      <4>1. k \in TaskIds /\ k.src \in Sources /\ k.job >= validFrom[k.src]
        BY <3>2 DEF TypeOK, TaskIds, ValidInv, TasksAreValid
      <4>2. CASE k.src # s
        BY <2>5, <4>1, <4>2
      <4>3. CASE k.src = s /\ e.type = "update"
        BY <2>5, <4>1, <4>3
      <4>4. CASE k.src = s /\ e.type = "replace"
        <5>1. threads # {}
          BY <3>2 DEF TableInv, TasksHaveThreads
        <5>2. k \in gone
          BY <3>2, <4>4, <5>1 DEF Superseded, TasksOf
        <5> QED BY <3>2, <5>2
      <4> QED BY <2>2, <4>2, <4>3, <4>4
    <3> QED BY <2>1, <3>1, <3>2
  <2> HIDE DEF e, gone, want
  <2> QED BY <2>2, <2>7, <2>8 DEF ValidInv, TasksAreValid, SubmitsOnlyValid
<1>2. ASSUME NEW s \in Sources, HandleClearJobs(s) PROVE ValidInv'
  <2> DEFINE e == Head(sourceQ[s])
  <2>1. /\ QueueInOrder(s) /\ sourceQ[s] # <<>>
        /\ phase = "select" /\ phase' = "detect" /\ sent' = sent /\ issued' = issued
        /\ lastJob' = [lastJob EXCEPT ![s] = None]
        /\ validFrom' = [validFrom EXCEPT ![s] = e.next]
        /\ sourceQ' = [sourceQ EXCEPT ![s] = Tail(@)]
        /\ tasks' = tasks \ TasksOf(s)
        /\ e.type = "clear"
    BY <1>2 DEF HandleClearJobs, RemoveTasks, ValidInv
  <2>2. Key(e) = e.next /\ e.next <= issued[s] + 1
    BY <2>1, QueueTail DEF Key
  <2>3. /\ validFrom'[s] = e.next /\ lastJob'[s] = None /\ sourceQ'[s] = Tail(sourceQ[s])
        /\ \A x \in Sources \ {s} : /\ validFrom'[x] = validFrom[x]
                                    /\ lastJob'[x] = lastJob[x]
                                    /\ sourceQ'[x] = sourceQ[x]
    BY <2>1 DEF TypeOK
  <2>4. QueueInOrder(s)'
    BY <2>1, <2>2, <2>3, QueueTail DEF QueueInOrder
  <2>5. \A x \in Sources : /\ validFrom'[x] <= issued'[x] + 1
                           /\ lastJob'[x] # None => validFrom'[x] <= lastJob'[x]
                           /\ QueueInOrder(x)'
    <3>1. /\ validFrom'[s] <= issued'[s] + 1
          /\ lastJob'[s] # None => validFrom'[s] <= lastJob'[s]
      BY <2>1, <2>2, <2>3
    <3>2. ASSUME NEW x \in Sources \ {s}
          PROVE  /\ validFrom'[x] <= issued'[x] + 1
                 /\ lastJob'[x] # None => validFrom'[x] <= lastJob'[x]
                 /\ QueueInOrder(x)'
      <4>1. validFrom'[x] = validFrom[x] /\ lastJob'[x] = lastJob[x]
            /\ sourceQ'[x] = sourceQ[x] /\ issued'[x] = issued[x]
        BY <2>1, <2>3
      <4>2. /\ validFrom[x] <= issued[x] + 1
            /\ lastJob[x] # None => validFrom[x] <= lastJob[x]
            /\ QueueInOrder(x)
        BY DEF ValidInv
      <4>3. QueueInOrder(x)'
        BY <4>1, <4>2 DEF QueueInOrder
      <4> QED BY <4>1, <4>2, <4>3
    <3> QED BY <2>4, <3>1, <3>2
  <2>6. \A k \in tasks' : k.job >= validFrom'[k.src]
    <3> SUFFICES ASSUME NEW k \in tasks' PROVE k.job >= validFrom'[k.src]
      OBVIOUS
    <3>1. k \in tasks /\ k.src \in Sources \ {s} /\ k.job >= validFrom[k.src]
      BY <2>1 DEF TasksOf, TypeOK, TaskIds, ValidInv, TasksAreValid
    <3> QED BY <2>3, <3>1
  <2> HIDE DEF e
  <2> QED BY <2>1, <2>5, <2>6 DEF ValidInv, TasksAreValid, SubmitsOnlyValid
<1>3. ASSUME NEW k \in TaskIds, HandleShare(k) PROVE ValidInv'
  <2>1. sent' # None => sent' = k /\ k \in tasks
    BY <1>3 DEF HandleShare
  <2> QED BY <1>3, <2>1 DEF HandleShare, ValidInv, TasksAreValid, SubmitsOnlyValid, QueueInOrder
<1>4. ASSUME NEW t \in Threads, HandleExpectedHashRate(t) PROVE ValidInv'
  <2>1. \A k \in tasks' : k.job >= validFrom[k.src]
    <3>1. CASE t \notin threads
      BY <1>4, <3>1 DEF HandleExpectedHashRate, ValidInv, TasksAreValid
    <3>2. CASE t \in threads
      <4> DEFINE want == IF expected[t] = None THEN CachedTasks(t) ELSE {}
      <4>1. PICK ok \in SUBSET want : tasks' = tasks \cup ok
        BY <1>4, <3>2 DEF HandleExpectedHashRate
      <4>2. \A k \in ok : k.src \in Sources /\ lastJob[k.src] # None /\ k.job = lastJob[k.src]
        BY <4>1 DEF CachedTasks, TypeOK
      <4>3. \A k \in ok : validFrom[k.src] <= k.job
        BY <4>2 DEF ValidInv
      <4>4. \A k \in ok : validFrom[k.src] \in Nat /\ k.job \in Nat
        BY <4>2 DEF TypeOK, Jobs
      <4> HIDE DEF want
      <4> QED BY <4>1, <4>3, <4>4 DEF ValidInv, TasksAreValid
    <3> QED BY <3>1, <3>2
  <2> QED BY <1>4, <2>1 DEF HandleExpectedHashRate, ValidInv, TasksAreValid, SubmitsOnlyValid,
                            QueueInOrder
<1>5. CASE HandleThreadDisconnections
  <2>1. tasks' \subseteq tasks
    BY <1>5 DEF HandleThreadDisconnections, RemoveTasks
  <2>2. sent' = None /\ UNCHANGED <<lastJob, sourceQ, issued, validFrom>>
    BY <1>5 DEF HandleThreadDisconnections
  <2> QED BY <2>1, <2>2 DEF ValidInv, TasksAreValid, SubmitsOnlyValid, QueueInOrder
<1>6. ASSUME UNCHANGED <<lastJob, sourceQ, issued, validFrom, tasks, sent>>,
             phase' = phase \/ phase' = "detect"
      PROVE  ValidInv'
  BY <1>6 DEF ValidInv, TasksAreValid, SubmitsOnlyValid, QueueInOrder
<1>7. ASSUME NEW s \in Sources, HandleSourceRegistration(s) PROVE ValidInv'
  BY <1>6, <1>7 DEF HandleSourceRegistration, envVars, histVars
<1>8. CASE HandleNewThread
  BY <1>6, <1>8 DEF HandleNewThread
<1>9. CASE HandleEnumerationComplete \/ GateTimeout \/ Tick
  BY <1>6, <1>9 DEF HandleEnumerationComplete, GateTimeout, Tick, envVars, histVars
<1>10. ASSUME NEW t \in Threads, PollReap(t) PROVE ValidInv'
  BY <1>6, <1>10 DEF PollReap, envVars, histVars
<1>11. ASSUME NEW k \in TaskIds, PollShareEnd(k) PROVE ValidInv'
  BY <1>6, <1>11 DEF PollShareEnd, envVars, histVars
<1>12. ASSUME NEW s \in Sources, NEW type \in {"update", "replace", "clear"},
              SourceEmits(s, type)
       PROVE  ValidInv'
  <2>1. PICK e \in Events :
          /\ sourceQ' = [sourceQ EXCEPT ![s] = Append(@, e)]
          /\ Key(e) = issued[s] + 1
    <3>1. CASE type = "clear"
      <4>1. [type |-> "clear", next |-> issued[s] + 1] \in Events
        BY ConstantsAssumption DEF Events, TypeOK
      <4> QED BY <1>12, <3>1, <4>1 DEF SourceEmits, Key
    <3>2. CASE type # "clear"
      <4>1. issued[s] + 1 \in Jobs
        BY <1>12, <3>2, ConstantsAssumption DEF SourceEmits, TypeOK, Jobs
      <4>2. [type |-> type, job |-> issued[s] + 1] \in Events
        BY <3>2, <4>1 DEF Events
      <4> QED BY <1>12, <3>2, <4>2 DEF SourceEmits, Key
    <3> QED BY <3>1, <3>2
  <2>2. /\ issued'[s] \in Nat /\ issued[s] \in Nat /\ issued[s] <= issued'[s]
        /\ \A x \in Sources \ {s} : issued'[x] = issued[x] /\ sourceQ'[x] = sourceQ[x]
        /\ UNCHANGED <<lastJob, validFrom, tasks, sent, phase>>
    BY <1>12, <2>1 DEF SourceEmits, schedVars, histVars, TypeOK
  <2>3. QueueInOrder(s)'
    <3> DEFINE q == sourceQ[s]
               n == Len(q)
    <3>1. /\ q \in Seq(Events) /\ n \in Nat
          /\ validFrom[s] <= issued[s] + 1 /\ validFrom[s] \in Nat
          /\ \A i \in 1..n : validFrom[s] <= Key(q[i]) /\ Key(q[i]) <= issued[s] + 1
          /\ \A i, j \in 1..n : i < j => Key(q[i]) <= Key(q[j])
      BY DEF TypeOK, ValidInv, QueueInOrder
    <3>2. /\ sourceQ'[s] = Append(q, e) /\ Len(sourceQ'[s]) = n + 1
          /\ \A i \in 1..n : sourceQ'[s][i] = q[i]
          /\ sourceQ'[s][n + 1] = e
      BY <2>1, <3>1 DEF TypeOK
    <3>3. \A i \in 1..n : Key(q[i]) \in Nat
      BY <3>1, KeyType
    <3> HIDE DEF q, n
    <3>4. \A i \in 1..(n + 1) : validFrom[s] <= Key(sourceQ'[s][i])
                                /\ Key(sourceQ'[s][i]) <= issued'[s] + 1
      <4> SUFFICES ASSUME NEW i \in 1..(n + 1)
                   PROVE  validFrom[s] <= Key(sourceQ'[s][i]) /\ Key(sourceQ'[s][i]) <= issued'[s] + 1
        OBVIOUS
      <4>1. CASE i = n + 1
        BY <2>1, <2>2, <3>1, <3>2, <4>1
      <4>2. CASE i \in 1..n
        BY <2>2, <3>1, <3>2, <3>3, <4>2
      <4> QED BY <3>1, <4>1, <4>2
    <3>5. \A i, j \in 1..(n + 1) : i < j => Key(sourceQ'[s][i]) <= Key(sourceQ'[s][j])
      <4> SUFFICES ASSUME NEW i \in 1..(n + 1), NEW j \in 1..(n + 1), i < j
                   PROVE  Key(sourceQ'[s][i]) <= Key(sourceQ'[s][j])
        OBVIOUS
      <4>1. i \in 1..n
        BY <3>1
      <4>2. CASE j = n + 1
        BY <2>1, <3>1, <3>2, <4>1, <4>2
      <4>3. CASE j \in 1..n
        BY <3>1, <3>2, <4>1, <4>3
      <4> QED BY <3>1, <4>2, <4>3
    <3> QED BY <2>2, <3>2, <3>4, <3>5 DEF QueueInOrder
  <2>4. \A x \in Sources : /\ validFrom'[x] <= issued'[x] + 1
                           /\ lastJob'[x] # None => validFrom'[x] <= lastJob'[x]
                           /\ QueueInOrder(x)'
    <3>1. validFrom'[s] <= issued'[s] + 1
      BY <2>2 DEF ValidInv, TypeOK
    <3>2. lastJob'[s] # None => validFrom'[s] <= lastJob'[s]
      BY <2>2 DEF ValidInv
    <3>3. ASSUME NEW x \in Sources, x # s
          PROVE  /\ validFrom'[x] <= issued'[x] + 1
                 /\ lastJob'[x] # None => validFrom'[x] <= lastJob'[x]
                 /\ QueueInOrder(x)'
      BY <2>2, <3>3 DEF ValidInv, QueueInOrder
    <3> QED BY <2>3, <3>1, <3>2, <3>3
  <2> QED BY <2>2, <2>4 DEF ValidInv, TasksAreValid, SubmitsOnlyValid
<1>13. CASE /\ Environment
            /\ ~ \E s \in Sources : \E type \in {"update", "replace", "clear"} : SourceEmits(s, type)
  BY <1>6, <1>13 DEF Environment, Spawn, EnumerationDone, ThreadReports, ThreadFindsShare,
       ThreadReleases, ThreadEnds, SourceExits, schedVars, histVars
<1>14. CASE UNCHANGED vars
  BY <1>6, <1>14 DEF vars, schedVars, envVars, histVars
<1> QED BY <1>1, <1>2, <1>3, <1>4, <1>5, <1>7, <1>8, <1>9, <1>10, <1>11, <1>12, <1>13, <1>14
        DEF Next, Branch

\* No task is ever for a job a handled ReplaceJob or ClearJobs has made void,
\* so no share of such a job is ever submitted to its source.
THEOREM NothingVoidSubmitted == Spec => []OnlyValidWork
<1>1. Init => TableInv /\ ValidInv
  BY DEF Init, TableInv, TasksHaveThreads, ChannelsHaveTasks, ValidInv, QueueInOrder,
         TasksAreValid, SubmitsOnlyValid
<1>2. ValidInv => OnlyValidWork
  BY DEF ValidInv, OnlyValidWork
<1> QED BY <1>1, <1>2, TableStep, ValidStep, TypeCorrect, PTL DEF Spec

-----------------------------------------------------------------------------
(* Work and hashrate.                                                      *)

WorkInv ==
    /\ EligibleThreadsHaveWork
    /\ \A s \in Sources \ sources : lastJob[s] = None

\* WorkInv is inductive: a job reaches the threads that have reported when it
\* arrives, and a first report fetches the jobs that arrived before it.
LEMMA WorkStep == TypeOK /\ TableInv /\ WorkInv /\ [Next]_vars => WorkInv'
<1> SUFFICES ASSUME TypeOK, TableInv, WorkInv, [Next]_vars PROVE WorkInv'
  OBVIOUS
<1> USE DEF WorkInv, EligibleThreadsHaveWork, Eligible
<1>1. ASSUME NEW s \in Sources, AssignJobToThreads(s) PROVE WorkInv'
  <2> DEFINE e    == Head(sourceQ[s])
             gone == Superseded(s, e.type)
             want == {[src |-> s, job |-> e.job, thr |-> t] : t \in Eligible(threads, expected)}
  <2>1. PICK ok \in SUBSET want : /\ HandOver(want, ok)
                                  /\ tasks' = (tasks \ gone) \cup ok
    BY <1>1 DEF AssignJobToThreads
  <2>2. /\ want \subseteq tasks' \cup refused'
        /\ \A k \in tasks \cup refused : k.src # s => k \in tasks' \cup refused'
    <3>1. want \subseteq tasks' \cup refused'
      BY <2>1 DEF HandOver
    <3>2. \A k \in tasks : k.src # s => k \in tasks'
      BY <2>1 DEF Superseded, TasksOf
    <3>3. \A k \in refused : k.src # s => k \in refused'
      BY <2>1 DEF HandOver
    <3> QED BY <3>1, <3>2, <3>3
  <2>3. /\ s \in sources /\ lastJob' = [lastJob EXCEPT ![s] = e.job]
        /\ UNCHANGED <<sources, threads, expected>>
    BY <1>1 DEF AssignJobToThreads
  <2>4. /\ lastJob'[s] = e.job
        /\ \A x \in Sources \ {s} : lastJob'[x] = lastJob[x]
    BY <2>3 DEF TypeOK
  <2>5. ASSUME NEW t \in Eligible(threads, expected), NEW x \in sources, lastJob'[x] # None
        PROVE  [src |-> x, job |-> lastJob'[x], thr |-> t] \in tasks' \cup refused'
    <3>1. CASE x = s
      <4>1. [src |-> x, job |-> lastJob'[x], thr |-> t] \in want
        BY <2>4, <3>1
      <4> HIDE DEF want
      <4> QED BY <2>2, <4>1
    <3>2. CASE x # s
      <4> DEFINE k == [src |-> x, job |-> lastJob[x], thr |-> t]
      <4>1. lastJob'[x] = lastJob[x]
        BY <2>4, <3>2 DEF TypeOK
      <4>2. k \in tasks \cup refused /\ k.src # s
        BY <2>5, <3>2, <4>1
      <4>3. k \in tasks' \cup refused'
        BY <2>2, <4>2
      <4> QED BY <4>1, <4>3
    <3> QED BY <3>1, <3>2
  <2>6. \A x \in Sources \ sources : lastJob'[x] = None
    BY <2>3, <2>4
  <2> HIDE DEF e, gone, want
  <2> QED BY <2>3, <2>5, <2>6
<1>2. ASSUME NEW s \in Sources, HandleClearJobs(s) PROVE WorkInv'
  <2>1. /\ tasks' = tasks \ TasksOf(s) /\ lastJob'[s] = None
        /\ \A x \in Sources \ {s} : lastJob'[x] = lastJob[x]
        /\ UNCHANGED <<sources, threads, expected, refused>>
    BY <1>2 DEF HandleClearJobs, RemoveTasks, TypeOK
  <2>2. \A k \in tasks : k.src # s => k \in tasks'
    BY <2>1 DEF TasksOf
  <2>3. ASSUME NEW t \in Eligible(threads, expected), NEW x \in sources, lastJob'[x] # None
        PROVE  [src |-> x, job |-> lastJob'[x], thr |-> t] \in tasks' \cup refused'
    <3>1. x # s /\ lastJob'[x] = lastJob[x]
      BY <2>1, <2>3 DEF TypeOK
    <3>2. [src |-> x, job |-> lastJob[x], thr |-> t] \in tasks \cup refused
      BY <2>3, <3>1
    <3> QED BY <2>1, <2>2, <3>1, <3>2
  <2> QED BY <2>1, <2>3
<1>3. ASSUME NEW t \in Threads, HandleExpectedHashRate(t) PROVE WorkInv'
  <2>1. CASE t \notin threads
    BY <1>3, <2>1 DEF HandleExpectedHashRate
  <2>2. CASE t \in threads
    <3> DEFINE want == IF expected[t] = None THEN CachedTasks(t) ELSE {}
    <3>1. PICK ok \in SUBSET want : HandOver(want, ok) /\ tasks' = tasks \cup ok
      BY <1>3, <2>2 DEF HandleExpectedHashRate
    <3>2. /\ expected' = [expected EXCEPT ![t] = Head(threadQ[t])]
          /\ UNCHANGED <<sources, lastJob, threads>>
      BY <1>3, <2>2 DEF HandleExpectedHashRate
    <3>3. want \subseteq tasks' \cup refused'
      BY <3>1 DEF HandOver
    <3>4. \A x \in sources : \A u \in Threads :
            LET k == [src |-> x, job |-> lastJob[x], thr |-> u]
            IN  k \in tasks \cup refused => k \in tasks' \cup refused'
      BY <3>1 DEF HandOver, CachedTasks
    <3>5. ASSUME NEW u \in threads, expected'[u] # None, NEW x \in sources, lastJob[x] # None
          PROVE  [src |-> x, job |-> lastJob[x], thr |-> u] \in tasks' \cup refused'
      <4>1. CASE u = t /\ expected[t] = None
        <5>1. [src |-> x, job |-> lastJob[x], thr |-> u] \in want
          BY <3>5, <4>1 DEF CachedTasks
        <5> HIDE DEF want
        <5> QED BY <3>3, <5>1
      <4>2. CASE expected[u] # None
        <5>1. [src |-> x, job |-> lastJob[x], thr |-> u] \in tasks \cup refused
          BY <3>5, <4>2
        <5> HIDE DEF want
        <5> QED BY <3>4, <5>1 DEF TypeOK
      <4>3. u # t => expected[u] # None
        BY <3>2, <3>5 DEF TypeOK, Totals
      <4> QED BY <4>1, <4>2, <4>3
    <3> HIDE DEF want
    <3> QED BY <3>2, <3>5
  <2> QED BY <2>1, <2>2
<1>4. CASE HandleThreadDisconnections
  <2>1. CASE Cardinality(streams) = lastCount
    BY <1>4, <2>1 DEF HandleThreadDisconnections
  <2>2. CASE Cardinality(streams) # lastCount
    <3>1. /\ threads' = threads \cap streams
          /\ expected' = [t \in Threads |-> IF t \in streams THEN expected[t] ELSE None]
          /\ tasks' = tasks \ Orphaned(streams)
          /\ UNCHANGED <<sources, lastJob, refused>>
      BY <1>4, <2>2 DEF HandleThreadDisconnections, RemoveTasks
    <3>2. \A k \in tasks : k.thr \in streams => k \in tasks'
      BY <3>1 DEF Orphaned
    <3> QED BY <3>1, <3>2 DEF TypeOK
  <2> QED BY <2>1, <2>2
<1>5. CASE HandleNewThread
  <2>1. /\ threads' = threads \cup {Head(regQ)} /\ Head(regQ) \in Threads
        /\ UNCHANGED <<sources, lastJob, expected, tasks, refused>>
    BY <1>5 DEF HandleNewThread
  <2>2. Eligible(threads', expected) = Eligible(threads, expected)
    BY <2>1 DEF TableInv
  <2> QED BY <2>1, <2>2
<1>6. ASSUME NEW s \in Sources, HandleSourceRegistration(s) PROVE WorkInv'
  BY <1>6 DEF HandleSourceRegistration, histVars
<1>7. ASSUME UNCHANGED <<sources, lastJob, threads, expected, tasks, refused>> PROVE WorkInv'
  BY <1>7
<1>8. ASSUME NEW k \in TaskIds, HandleShare(k) PROVE WorkInv'
  BY <1>7, <1>8 DEF HandleShare
<1>9. CASE HandleEnumerationComplete \/ GateTimeout \/ Tick
  BY <1>7, <1>9 DEF HandleEnumerationComplete, GateTimeout, Tick, histVars
<1>10. ASSUME NEW t \in Threads, PollReap(t) PROVE WorkInv'
  BY <1>7, <1>10 DEF PollReap, histVars
<1>11. ASSUME NEW k \in TaskIds, PollShareEnd(k) PROVE WorkInv'
  BY <1>7, <1>11 DEF PollShareEnd, histVars
<1>12. CASE Environment
  BY <1>7, <1>12 DEF Environment, Spawn, EnumerationDone, ThreadReports, ThreadFindsShare,
       ThreadReleases, ThreadEnds, SourceEmits, SourceExits, schedVars, histVars
<1>13. CASE UNCHANGED vars
  BY <1>7, <1>13 DEF vars, schedVars, histVars
<1> QED BY <1>1, <1>2, <1>3, <1>4, <1>5, <1>6, <1>8, <1>9, <1>10, <1>11, <1>12, <1>13
        DEF Next, Branch

\* A thread that has declared a hashrate has been offered the current job of
\* every source, in whichever order jobs and reports reached the scheduler.
THEOREM NoEligibleThreadForgotten == Spec => []EligibleThreadsHaveWork
<1>1. Init => TableInv /\ WorkInv
  BY DEF Init, TableInv, TasksHaveThreads, ChannelsHaveTasks, WorkInv,
         EligibleThreadsHaveWork
<1>2. WorkInv => EligibleThreadsHaveWork
  BY DEF WorkInv
<1> QED BY <1>1, <1>2, TableStep, WorkStep, TypeCorrect, PTL DEF Spec

\* SourcesToldCurrentRate is inductive as it stands: every step that changes
\* a declared rate, the thread table or the sources ends in a broadcast.
LEMMA ToldStep == TypeOK /\ SourcesToldCurrentRate /\ [Next]_vars => SourcesToldCurrentRate'
<1> SUFFICES ASSUME TypeOK, SourcesToldCurrentRate, [Next]_vars
             PROVE  SourcesToldCurrentRate'
  OBVIOUS
<1> USE DEF SourcesToldCurrentRate
<1>1. ASSUME sources' \subseteq Sources, exited' = exited,
             told' = Broadcast(sources', expected')
      PROVE  SourcesToldCurrentRate'
  BY <1>1 DEF Broadcast
<1>2. ASSUME NEW s \in Sources, HandleSourceRegistration(s) PROVE SourcesToldCurrentRate'
  <2>1. gate' = gate /\ expected' = expected /\ exited' = exited /\ sources' \subseteq Sources
    BY <1>2 DEF HandleSourceRegistration, envVars, TypeOK
  <2> QED BY <1>1, <1>2, <2>1 DEF HandleSourceRegistration
<1>3. ASSUME NEW t \in Threads, HandleExpectedHashRate(t) PROVE SourcesToldCurrentRate'
  <2>1. CASE t \notin threads
    BY <1>3, <2>1 DEF HandleExpectedHashRate
  <2>2. CASE t \in threads
    <3>1. sources' \subseteq Sources /\ exited' = exited /\ sources' = sources
      BY <1>3 DEF HandleExpectedHashRate, TypeOK
    <3>2. gate'.open => told' = Broadcast(sources, expected')
      BY <1>3, <2>2 DEF HandleExpectedHashRate
    <3> QED BY <1>1, <3>1, <3>2
  <2> QED BY <2>1, <2>2
<1>4. CASE HandleEnumerationComplete
  <2>1. /\ sources' \subseteq Sources /\ exited' = exited /\ sources' = sources
        /\ expected' = expected
        /\ gate'.open => told' = Broadcast(sources, expected)
    BY <1>4 DEF HandleEnumerationComplete, TypeOK
  <2> QED BY <1>1, <2>1
<1>5. CASE GateTimeout
  BY <1>1, <1>5 DEF GateTimeout, TypeOK, envVars
<1>6. CASE HandleThreadDisconnections
  <2>1. CASE Cardinality(streams) = lastCount
    BY <1>6, <2>1 DEF HandleThreadDisconnections
  <2>2. CASE Cardinality(streams) # lastCount
    <3>1. /\ sources' \subseteq Sources /\ exited' = exited /\ sources' = sources
          /\ told' = Broadcast(sources, expected')
      BY <1>6, <2>2 DEF HandleThreadDisconnections, TypeOK
    <3> QED BY <1>1, <3>1
  <2> QED BY <2>1, <2>2
<1>7. CASE HandleNewThread
  <2>1. gate'.open = gate.open
    BY <1>7 DEF HandleNewThread, RecordRegistered, TypeOK, Gates
  <2> QED BY <1>7, <2>1 DEF HandleNewThread
<1>8. ASSUME UNCHANGED <<sources, expected, gate, told>>, exited \subseteq exited'
      PROVE  SourcesToldCurrentRate'
  BY <1>8
<1>9. ASSUME NEW s \in Sources, AssignJobToThreads(s) \/ HandleClearJobs(s)
      PROVE  SourcesToldCurrentRate'
  BY <1>8, <1>9 DEF AssignJobToThreads, HandleClearJobs
<1>10. ASSUME NEW k \in TaskIds, HandleShare(k) \/ PollShareEnd(k)
       PROVE  SourcesToldCurrentRate'
  BY <1>8, <1>10 DEF HandleShare, PollShareEnd, envVars
<1>11. ASSUME NEW t \in Threads, PollReap(t) PROVE SourcesToldCurrentRate'
  BY <1>8, <1>11 DEF PollReap, envVars
<1>12. CASE Tick \/ Environment
  BY <1>8, <1>12 DEF Tick, Environment, Spawn, EnumerationDone, ThreadReports,
       ThreadFindsShare, ThreadReleases, ThreadEnds, SourceEmits, SourceExits,
       schedVars, envVars
<1>13. CASE UNCHANGED vars
  BY <1>8, <1>13 DEF vars, schedVars, envVars
<1> QED BY <1>2, <1>3, <1>4, <1>5, <1>6, <1>7, <1>9, <1>10, <1>11, <1>12, <1>13
        DEF Next, Branch

\* Past the startup gate, what a running source was last told is always the
\* aggregate of the rates the thread table holds now.
THEOREM ToldIsCurrent == Spec => []SourcesToldCurrentRate
<1>1. Init => SourcesToldCurrentRate
  BY DEF Init, SourcesToldCurrentRate
<1> QED BY <1>1, ToldStep, TypeCorrect, PTL DEF Spec

-----------------------------------------------------------------------------
(* The startup gate.                                                       *)

\* The threads the gate is still waiting for.
Silent == {t \in early \cap threads : expected[t] = None}

\* Every thread is registered once, so one the gate has counted does not come
\* back without a rate.
RegisteredOnce ==
    /\ threads \cup early \subseteq born
    /\ \A i \in 1..Len(regQ) : regQ[i] \in Threads => regQ[i] \in born \ (threads \cup early)
    /\ \A i, j \in 1..Len(regQ) : i # j /\ regQ[i] = regQ[j] => regQ[i] = Complete

\* The counters leave room for every silent thread: that is what makes
\* reported >= registered mean that nobody is silent.
GateInv ==
    /\ RegisteredOnce
    /\ ~gate.open => threads \subseteq early
    /\ ~gate.open => gate.reported + Cardinality(Silent) <= gate.registered
    /\ GateWaitedForThreads

LEMMA SilentFinite == TypeOK => IsFiniteSet(Silent) /\ Cardinality(Silent) \in Nat
BY StreamCount DEF Silent, TypeOK

\* The registration queue keeps naming each thread once.
LEMMA RegisteredOnceStep ==
    TypeOK /\ TableInv /\ RegisteredOnce /\ [Next]_vars => RegisteredOnce'
<1> SUFFICES ASSUME TypeOK, TableInv, RegisteredOnce, [Next]_vars PROVE RegisteredOnce'
  OBVIOUS
<1>1. CASE HandleNewThread
  <2> DEFINE t == Head(regQ)
  <2>1. /\ regQ \in Seq(Threads \cup {Complete}) /\ regQ # <<>> /\ t \in Threads
        /\ threads' = threads \cup {t} /\ early' \subseteq early \cup {t}
        /\ regQ' = Tail(regQ) /\ born' = born
    BY <1>1 DEF HandleNewThread, TypeOK
  <2>2. /\ t = regQ[1] /\ 1 \in 1..Len(regQ) /\ Len(regQ) \in Nat
        /\ Len(regQ') = Len(regQ) - 1
        /\ \A i \in 1..Len(regQ') : regQ'[i] = regQ[i + 1] /\ i + 1 \in 1..Len(regQ) /\ i + 1 # 1
    BY <2>1
  <2>3. t \in born /\ \A i \in 1..Len(regQ') : regQ'[i] # t
    BY <2>1, <2>2, ConstantsAssumption DEF RegisteredOnce
  <2>4. threads' \cup early' \subseteq born'
    BY <2>1, <2>3 DEF RegisteredOnce
  <2>5. \A i \in 1..Len(regQ') : regQ'[i] \in Threads => regQ'[i] \in born' \ (threads' \cup early')
    BY <2>1, <2>2, <2>3 DEF RegisteredOnce
  <2>6. \A i, j \in 1..Len(regQ') : i # j /\ regQ'[i] = regQ'[j] => regQ'[i] = Complete
    <3> SUFFICES ASSUME NEW i \in 1..Len(regQ'), NEW j \in 1..Len(regQ'), i # j,
                        regQ'[i] = regQ'[j]
                 PROVE  regQ'[i] = Complete
      OBVIOUS
    <3>1. i + 1 # j + 1 /\ regQ[i + 1] = regQ[j + 1]
          /\ i + 1 \in 1..Len(regQ) /\ j + 1 \in 1..Len(regQ)
      BY <2>2
    <3> QED BY <2>2, <3>1 DEF RegisteredOnce
  <2> QED BY <2>4, <2>5, <2>6 DEF RegisteredOnce
<1>2. CASE HandleEnumerationComplete
  <2>1. /\ regQ \in Seq(Threads \cup {Complete}) /\ regQ # <<>>
        /\ regQ' = Tail(regQ) /\ UNCHANGED <<threads, early, born>>
    BY <1>2 DEF HandleEnumerationComplete, TypeOK, histVars
  <2>2. /\ Len(regQ) \in Nat /\ Len(regQ') = Len(regQ) - 1
        /\ \A i \in 1..Len(regQ') : regQ'[i] = regQ[i + 1] /\ i + 1 \in 1..Len(regQ)
    BY <2>1
  <2>3. \A i, j \in 1..Len(regQ') : i # j /\ regQ'[i] = regQ'[j] => regQ'[i] = Complete
    <3> SUFFICES ASSUME NEW i \in 1..Len(regQ'), NEW j \in 1..Len(regQ'), i # j,
                        regQ'[i] = regQ'[j]
                 PROVE  regQ'[i] = Complete
      OBVIOUS
    <3>1. i + 1 # j + 1 /\ regQ[i + 1] = regQ[j + 1]
          /\ i + 1 \in 1..Len(regQ) /\ j + 1 \in 1..Len(regQ)
      BY <2>2
    <3> QED BY <2>2, <3>1 DEF RegisteredOnce
  <2> QED BY <2>1, <2>2, <2>3 DEF RegisteredOnce
<1>3. ASSUME NEW x \in Threads \cup {Complete}, regQ' = Append(regQ, x),
             threads' = threads, early' = early, born' = born \cup ({x} \ {Complete}),
             x \in Threads => x \notin born
      PROVE  RegisteredOnce'
  <2>1. /\ Len(regQ) \in Nat /\ Len(regQ') = Len(regQ) + 1
        /\ \A i \in 1..Len(regQ) : regQ'[i] = regQ[i]
        /\ regQ'[Len(regQ) + 1] = x
        /\ \A i \in 1..Len(regQ) : regQ[i] \in Threads \cup {Complete}
    BY <1>3 DEF TypeOK
  <2>2. \A i \in 1..Len(regQ) : regQ[i] = x => x = Complete
    BY <1>3, <2>1 DEF RegisteredOnce
  <2>3. \A i, j \in 1..Len(regQ') : i # j /\ regQ'[i] = regQ'[j] => regQ'[i] = Complete
    <3> SUFFICES ASSUME NEW i \in 1..Len(regQ'), NEW j \in 1..Len(regQ'), i # j,
                        regQ'[i] = regQ'[j]
                 PROVE  regQ'[i] = Complete
      OBVIOUS
    <3>1. CASE i \in 1..Len(regQ) /\ j \in 1..Len(regQ)
      BY <2>1, <3>1 DEF RegisteredOnce
    <3>2. CASE i = Len(regQ) + 1 \/ j = Len(regQ) + 1
      BY <2>1, <2>2, <3>2
    <3> QED BY <2>1, <3>1, <3>2
  <2>4. threads' \cup early' \subseteq born'
    BY <1>3 DEF RegisteredOnce
  <2>5. \A i \in 1..Len(regQ') : regQ'[i] \in Threads => regQ'[i] \in born' \ (threads' \cup early')
    <3> SUFFICES ASSUME NEW i \in 1..Len(regQ'), regQ'[i] \in Threads
                 PROVE  regQ'[i] \in born' \ (threads' \cup early')
      OBVIOUS
    <3>1. CASE i \in 1..Len(regQ)
      BY <1>3, <2>1, <3>1 DEF RegisteredOnce
    <3>2. CASE i = Len(regQ) + 1
      BY <1>3, <2>1, <3>2, ConstantsAssumption DEF RegisteredOnce
    <3> QED BY <2>1, <3>1, <3>2
  <2> QED BY <2>3, <2>4, <2>5 DEF RegisteredOnce
<1>4. ASSUME NEW t \in Threads, Spawn(t) PROVE RegisteredOnce'
  BY <1>3, <1>4, ConstantsAssumption DEF Spawn, schedVars, histVars
<1>5. CASE EnumerationDone
  BY <1>3, <1>5, ConstantsAssumption DEF EnumerationDone, schedVars, histVars
<1>6. ASSUME UNCHANGED <<regQ, early, born>>, threads' \subseteq threads PROVE RegisteredOnce'
  BY <1>6 DEF RegisteredOnce
<1>7. CASE HandleThreadDisconnections
  BY <1>6, <1>7 DEF HandleThreadDisconnections
<1>8. ASSUME NEW s \in Sources,
             HandleSourceRegistration(s) \/ AssignJobToThreads(s) \/ HandleClearJobs(s)
      PROVE  RegisteredOnce'
  BY <1>6, <1>8 DEF HandleSourceRegistration, AssignJobToThreads, HandleClearJobs,
                    envVars, histVars
<1>9. ASSUME NEW k \in TaskIds, HandleShare(k) \/ PollShareEnd(k) PROVE RegisteredOnce'
  BY <1>6, <1>9 DEF HandleShare, PollShareEnd, envVars, histVars
<1>10. ASSUME NEW t \in Threads, HandleExpectedHashRate(t) \/ PollReap(t) PROVE RegisteredOnce'
  BY <1>6, <1>10 DEF HandleExpectedHashRate, PollReap, envVars, histVars
<1>11. CASE GateTimeout \/ Tick
  BY <1>6, <1>11 DEF GateTimeout, Tick, envVars, histVars
<1>12. CASE Environment
  BY <1>4, <1>5, <1>6, <1>12 DEF Environment, ThreadReports, ThreadFindsShare,
       ThreadReleases, ThreadEnds, SourceEmits, SourceExits, schedVars, histVars
<1>13. CASE UNCHANGED vars
  BY <1>6, <1>13 DEF vars, schedVars, envVars, histVars
<1> QED BY <1>1, <1>2, <1>7, <1>8, <1>9, <1>10, <1>11, <1>12, <1>13 DEF Next, Branch

\* GateInv is inductive. Registering a thread makes room for it in the
\* counters, its first report uses the room up, and leaving only frees room.
LEMMA GateStep == TypeOK /\ TableInv /\ GateInv /\ [Next]_vars => GateInv'
<1> SUFFICES ASSUME TypeOK, TableInv, GateInv, [Next]_vars PROVE GateInv'
  OBVIOUS
<1>0. /\ RegisteredOnce' /\ IsFiniteSet(Silent) /\ Cardinality(Silent) \in Nat
      /\ gate.registered \in Nat /\ gate.reported \in Nat
  BY RegisteredOnceStep, SilentFinite DEF GateInv, TypeOK, Gates
<1>1. CASE HandleNewThread
  <2> DEFINE t == Head(regQ)
  <2>1. /\ t \in Threads /\ threads' = threads \cup {t} /\ expected' = expected
        /\ gate' = RecordRegistered(gate) /\ timedOut' = timedOut
        /\ early' = IF gate.open THEN early ELSE early \cup {t}
    BY <1>1 DEF HandleNewThread
  <2>2. t \notin early
    BY <1>1, <2>1 DEF HandleNewThread, GateInv, RegisteredOnce, TypeOK
  <2>3. CASE gate.open
    BY <1>0, <2>1, <2>2, <2>3 DEF GateInv, GateWaitedForThreads, RecordRegistered
  <2>4. CASE ~gate.open
    <3>1. /\ gate'.registered = gate.registered + 1 /\ gate'.reported = gate.reported
          /\ gate'.open = FALSE
      BY <2>1, <2>4 DEF RecordRegistered, TypeOK, Gates
    <3>2. Silent' \subseteq Silent \cup {t}
      BY <2>1, <2>4 DEF Silent
    <3>3. Cardinality(Silent') <= Cardinality(Silent) + 1 /\ Cardinality(Silent') \in Nat
      <4>1. /\ IsFiniteSet(Silent \cup {t})
            /\ Cardinality(Silent \cup {t}) \in Nat
            /\ Cardinality(Silent \cup {t}) <= Cardinality(Silent) + 1
        BY <1>0, FS_AddElement, FS_CardinalityType
      <4>2. IsFiniteSet(Silent') /\ Cardinality(Silent') <= Cardinality(Silent \cup {t})
        BY <3>2, <4>1, FS_Subset
      <4>3. Cardinality(Silent') \in Nat
        BY <4>2, FS_CardinalityType
      <4> QED BY <1>0, <4>1, <4>2, <4>3
    <3>4. threads' \subseteq early'
      BY <2>1, <2>4 DEF GateInv
    <3>5. gate'.reported + Cardinality(Silent') <= gate'.registered
      BY <1>0, <2>4, <3>1, <3>3 DEF GateInv
    <3> QED BY <1>0, <3>1, <3>4, <3>5 DEF GateInv, GateWaitedForThreads
  <2> QED BY <2>3, <2>4
\* Fewer silent threads and the same counters.
<1>2. ASSUME ~gate.open, threads' \subseteq threads, early' = early, Silent' \subseteq Silent,
             gate'.registered = gate.registered, gate'.reported = gate.reported,
             gate'.open => gate.reported >= gate.registered \/ timedOut'
      PROVE  GateInv'
  <2>1. IsFiniteSet(Silent') /\ Cardinality(Silent') <= Cardinality(Silent)
    BY <1>0, <1>2, FS_Subset
  <2>2. Cardinality(Silent') \in Nat
    BY <2>1, FS_CardinalityType
  <2>3. gate'.reported + Cardinality(Silent') <= gate'.registered
    BY <1>0, <1>2, <2>1, <2>2 DEF GateInv
  <2>4. gate'.open /\ ~timedOut' => Silent' = {}
    <3> SUFFICES ASSUME gate'.open, ~timedOut' PROVE Silent' = {}
      OBVIOUS
    <3>1. Cardinality(Silent') = 0
      BY <1>0, <1>2, <2>2, <2>3
    <3> QED BY <2>1, <3>1, FS_EmptySet
  <2>5. threads' \subseteq early'
    BY <1>2 DEF GateInv
  <2> QED BY <1>0, <2>3, <2>4, <2>5 DEF GateInv, GateWaitedForThreads, Silent
<1>3. ASSUME NEW t \in Threads, HandleExpectedHashRate(t) PROVE GateInv'
  <2>1. CASE t \notin threads
    BY <1>0, <1>3, <2>1 DEF HandleExpectedHashRate, GateInv, GateWaitedForThreads, Silent
  <2>2. CASE t \in threads
    <3>1. /\ Head(threadQ[t]) \in Rates /\ Head(threadQ[t]) # None
          /\ expected' = [expected EXCEPT ![t] = Head(threadQ[t])]
          /\ gate' = IF expected[t] = None THEN RecordReported(gate) ELSE gate
          /\ UNCHANGED <<threads, early, timedOut>>
      BY <1>3, <2>2, ConstantsAssumption DEF HandleExpectedHashRate, TypeOK
    <3>2. /\ expected'[t] # None
          /\ \A u \in Threads \ {t} : expected'[u] = expected[u]
      BY <3>1 DEF TypeOK, Totals
    <3>3. CASE gate.open
      <4>1. gate' = gate
        BY <3>1, <3>3 DEF RecordReported
      <4> QED BY <1>0, <3>1, <3>2, <3>3, <4>1 DEF GateInv, GateWaitedForThreads, TypeOK
    <3>4. CASE ~gate.open /\ expected[t] # None
      <4>1. Silent' \subseteq Silent /\ gate' = gate
        BY <3>1, <3>2, <3>4 DEF Silent, TypeOK
      <4> QED BY <1>2, <3>1, <3>4, <4>1
    <3>5. CASE ~gate.open /\ expected[t] = None
      <4>1. t \in Silent
        BY <2>2, <3>5 DEF Silent, GateInv
      <4>2. Silent' = Silent \ {t}
        BY <3>1, <3>2 DEF Silent, TypeOK
      <4>3. IsFiniteSet(Silent') /\ Cardinality(Silent') = Cardinality(Silent) - 1
        BY <1>0, <4>1, <4>2, FS_RemoveElement
      <4>4. Cardinality(Silent') \in Nat
        BY <4>3, FS_CardinalityType
      <4>5. /\ gate'.reported = gate.reported + 1 /\ gate'.registered = gate.registered
            /\ gate'.open => gate.reported + 1 >= gate.registered
        BY <3>1, <3>5 DEF RecordReported, TryOpen, TypeOK, Gates
      <4>6. gate'.reported + Cardinality(Silent') <= gate'.registered
        BY <1>0, <3>5, <4>3, <4>4, <4>5 DEF GateInv
      <4>7. gate'.open => Silent' = {}
        <5> SUFFICES ASSUME gate'.open PROVE Silent' = {}
          OBVIOUS
        <5>1. Cardinality(Silent') = 0
          BY <1>0, <4>4, <4>5, <4>6
        <5> QED BY <4>3, <5>1, FS_EmptySet
      <4>8. threads' \subseteq early'
        BY <3>1, <3>5 DEF GateInv
      <4> QED BY <1>0, <4>6, <4>7, <4>8 DEF GateInv, GateWaitedForThreads, Silent
    <3> QED BY <3>3, <3>4, <3>5
  <2> QED BY <2>1, <2>2
<1>4. CASE HandleEnumerationComplete
  <2>1. /\ gate' = RecordComplete(gate)
        /\ UNCHANGED <<threads, early, timedOut, expected>>
    BY <1>4 DEF HandleEnumerationComplete, histVars
  <2>2. CASE gate.open
    BY <1>0, <2>1, <2>2 DEF GateInv, GateWaitedForThreads, RecordComplete
  <2>3. CASE ~gate.open
    <3>1. /\ gate'.reported = gate.reported /\ gate'.registered = gate.registered
          /\ gate'.open => gate.reported >= gate.registered
      BY <2>1, <2>3 DEF RecordComplete, TryOpen, TypeOK, Gates
    <3>2. Silent' = Silent
      BY <2>1 DEF Silent
    <3> QED BY <1>2, <2>1, <2>3, <3>1, <3>2
  <2> QED BY <2>2, <2>3
<1>5. CASE GateTimeout
  <2>1. /\ gate' = RecordTimeout(gate) /\ timedOut' = TRUE
        /\ UNCHANGED <<threads, early, expected>>
    BY <1>5 DEF GateTimeout
  <2>2. gate'.open
    BY <2>1 DEF RecordTimeout, TypeOK, Gates
  <2> QED BY <1>0, <2>1, <2>2 DEF GateInv, GateWaitedForThreads
<1>6. CASE HandleThreadDisconnections
  <2>1. /\ threads' \subseteq threads
        /\ \A t \in threads' : expected'[t] = expected[t]
        /\ UNCHANGED <<gate, early, timedOut>>
    <3>1. CASE Cardinality(streams) = lastCount
      BY <1>6, <3>1 DEF HandleThreadDisconnections
    <3>2. CASE Cardinality(streams) # lastCount
      <4>1. /\ threads' = threads \cap streams
            /\ expected' = [t \in Threads |-> IF t \in streams THEN expected[t] ELSE None]
            /\ UNCHANGED <<gate, early, timedOut>>
        BY <1>6, <3>2 DEF HandleThreadDisconnections
      <4> QED BY <4>1 DEF TypeOK
    <3> QED BY <3>1, <3>2
  <2>2. Silent' \subseteq Silent
    BY <2>1 DEF Silent
  <2>3. CASE gate.open
    BY <1>0, <2>1, <2>3 DEF GateInv, GateWaitedForThreads
  <2>4. CASE ~gate.open
    BY <1>2, <2>1, <2>2, <2>4
  <2> QED BY <2>3, <2>4
<1>7. ASSUME UNCHANGED <<threads, expected, gate, early, timedOut>> PROVE GateInv'
  BY <1>0, <1>7 DEF GateInv, GateWaitedForThreads, Silent
<1>8. ASSUME NEW s \in Sources,
             HandleSourceRegistration(s) \/ AssignJobToThreads(s) \/ HandleClearJobs(s)
      PROVE  GateInv'
  BY <1>7, <1>8 DEF HandleSourceRegistration, AssignJobToThreads, HandleClearJobs, histVars
<1>9. ASSUME NEW k \in TaskIds, HandleShare(k) \/ PollShareEnd(k) PROVE GateInv'
  BY <1>7, <1>9 DEF HandleShare, PollShareEnd, histVars
<1>10. ASSUME NEW t \in Threads, PollReap(t) PROVE GateInv'
  BY <1>7, <1>10 DEF PollReap, histVars
<1>11. CASE Tick \/ Environment
  BY <1>7, <1>11 DEF Tick, Environment, Spawn, EnumerationDone, ThreadReports,
       ThreadFindsShare, ThreadReleases, ThreadEnds, SourceEmits, SourceExits,
       schedVars, histVars
<1>12. CASE UNCHANGED vars
  BY <1>7, <1>12 DEF vars, schedVars, histVars
<1> QED BY <1>1, <1>3, <1>4, <1>5, <1>6, <1>8, <1>9, <1>10, <1>11, <1>12 DEF Next, Branch

\* When the startup gate opens by its counters, every thread it waited for
\* that is still in the table has declared its hashrate, whichever threads
\* disconnected in the meantime.
THEOREM GateIsComplete == Spec => []GateWaitedForThreads
<1>1. Init => TableInv /\ GateInv
  <2> SUFFICES ASSUME Init PROVE TableInv /\ GateInv
    OBVIOUS
  <2>1. TableInv
    BY DEF Init, TableInv, TasksHaveThreads, ChannelsHaveTasks
  <2>2. Silent = {} /\ gate.reported = 0 /\ gate.registered = 0 /\ gate.open = FALSE
    BY DEF Init, Silent
  <2>3. Cardinality(Silent) = 0
    BY <2>2, FS_EmptySet
  <2>4. RegisteredOnce
    BY DEF Init, RegisteredOnce
  <2> QED BY <2>1, <2>2, <2>3, <2>4 DEF GateInv, GateWaitedForThreads, Init
<1>2. GateInv => GateWaitedForThreads
  BY DEF GateInv
<1> QED BY <1>1, <1>2, TableStep, GateStep, TypeCorrect, PTL DEF Spec
=============================================================================
