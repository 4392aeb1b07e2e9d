----------------------------- MODULE Scheduler -----------------------------
(***************************************************************************)
(* The job scheduler of mujina-miner (mujina-miner/src/scheduler.rs): the  *)
(* task that takes jobs from sources, hands them to hash threads, routes   *)
(* shares back to the source of the job, and tells every source the        *)
(* hashrate it can count on.                                               *)
(*                                                                         *)
(* One iteration of Scheduler::run is two steps: a branch of its select!   *)
(* (phase "select"), then handle_thread_disconnections (phase "detect").   *)
(* Polling the StreamMap of thread events inside the select! removes ended *)
(* streams without any branch firing: PollReap and PollShareEnd.           *)
(*                                                                         *)
(* The environment is the other end of the channels: the backplane that    *)
(* registers threads, the threads that report, find shares, refuse work    *)
(* and die, the sources that emit jobs and end.                            *)
(*                                                                         *)
(* Data abstraction.  A job is the number of the event that brought it. A  *)
(* task is named by source, job and thread (an event gives a thread one    *)
(* task at most, so the name is as good as the SlotMap key).  A share is   *)
(* "worthy" iff its hash meets the source's target. The aggregate hashrate *)
(* is the function of the threads' declared rates it is the sum of.        *)
(***************************************************************************)
EXTENDS Naturals, Sequences, FiniteSets

CONSTANTS
    Sources,      \* job sources that may register
    Threads,      \* hash threads that may be registered, each once
    MayExit,      \* bound: sources whose task may end
    Rates,        \* values of ExpectedHashRate
    None,         \* Rust's Option::None
    Complete,     \* ThreadRegistration::InitialEnumerationComplete
    MaxJobs,      \* bound: jobs a source issues
    QueueCap,     \* bound: events waiting on a source's or a thread's channel
    ShareCap,     \* bound: shares waiting on a task's channel (32 in the code)
    MaxInFlight   \* bound: share channels that hold a share at one time

ASSUME ConstantsAssumption ==
    /\ IsFiniteSet(Threads)
    /\ None \notin Rates /\ None \notin Nat
    /\ Complete \notin Threads
    /\ {MaxJobs, QueueCap, ShareCap, MaxInFlight} \subseteq Nat

VARIABLES
    sources,      \* Scheduler.sources: the registered ones
    lastJob,      \* SourceEntry.last_job
    threads,      \* Scheduler.threads
    expected,     \* ThreadEntry.expected
    tasks,        \* Scheduler.tasks
    gate,         \* Scheduler.startup_gate
    lastCount,    \* Scheduler.last_thread_count
    streams,      \* keys of the local thread_events
    channels,     \* keys of the local share_channels
    armed,        \* the local gate_deadline is Some
    phase,        \* where run() is in its loop
    regQ,         \* thread_rx
    sourceQ,      \* event channel of every source
    threadQ,      \* event channel of every thread
    shareQ,       \* share channel of every task
    told,         \* last UpdateHashRate sent to every source
    alive,        \* environment: threads that exist and have not ended
    born,         \* environment: threads created so far
    held,         \* environment: tasks whose share_tx a thread still owns
    exited,       \* environment: sources whose task has ended
    issued,       \* environment: number of jobs each source has issued
    validFrom,    \* history: oldest job of the source not invalidated by a
                  \*   ReplaceJob or ClearJobs the scheduler has handled
    refused,      \* history: tasks of current jobs whose hand-over returned Err
    early,        \* history: threads registered while the gate was holding
    timedOut,     \* history: the gate was forced open by the timeout
    sent          \* history: task of the share submitted in this iteration

schedVars == <<sources, lastJob, threads, expected, tasks, gate, lastCount,
               streams, channels, armed, phase, told>>
envVars   == <<regQ, sourceQ, threadQ, shareQ, alive, born, held, exited, issued>>
histVars  == <<validFrom, refused, early, timedOut, sent>>
vars      == <<schedVars, envVars, histVars>>

Jobs    == 1..MaxJobs
TaskIds == [src : Sources, job : Jobs, thr : Threads]
OptRate == Rates \cup {None}
Totals  == [Threads -> OptRate]
Events  == [type : {"update", "replace"}, job : Jobs] \cup [type : {"clear"}, next : 1..(MaxJobs + 1)]
Shares  == {"worthy", "below"}
Gates   == [registered : Nat, reported : Nat, complete : BOOLEAN, open : BOOLEAN]

TypeOK ==
    /\ sources \subseteq Sources
    /\ lastJob \in [Sources -> Jobs \cup {None}]
    /\ threads \subseteq Threads
    /\ expected \in Totals
    /\ tasks \subseteq TaskIds
    /\ gate \in Gates
    /\ lastCount \in Nat
    /\ streams \subseteq Threads
    /\ channels \subseteq TaskIds
    /\ armed \in BOOLEAN
    /\ phase \in {"select", "detect"}
    /\ regQ \in Seq(Threads \cup {Complete})
    /\ sourceQ \in [Sources -> Seq(Events)]
    /\ threadQ \in [Threads -> Seq(Rates)]
    /\ shareQ \in [TaskIds -> Seq(Shares)]
    /\ told \in [Sources -> Totals \cup {None}]
    /\ alive \subseteq Threads
    /\ born \subseteq Threads
    /\ held \subseteq TaskIds
    /\ exited \subseteq Sources
    /\ issued \in [Sources -> 0..MaxJobs]
    /\ validFrom \in [Sources -> Nat]
    /\ refused \subseteq TaskIds
    /\ early \subseteq Threads
    /\ timedOut \in BOOLEAN
    /\ sent \in TaskIds \cup {None}

Init ==
    /\ sources = {} /\ lastJob = [s \in Sources |-> None]
    /\ threads = {} /\ expected = [t \in Threads |-> None]
    /\ tasks = {}
    /\ gate = [registered |-> 0, reported |-> 0, complete |-> FALSE, open |-> FALSE]
    /\ lastCount = 0 /\ streams = {} /\ channels = {}
    /\ armed = FALSE /\ phase = "select"
    /\ regQ = <<>> /\ sourceQ = [s \in Sources |-> <<>>]
    /\ threadQ = [t \in Threads |-> <<>>] /\ shareQ = [k \in TaskIds |-> <<>>]
    /\ told = [s \in Sources |-> None]
    /\ alive = {} /\ born = {} /\ held = {} /\ exited = {}
    /\ issued = [s \in Sources |-> 0] /\ validFrom = [s \in Sources |-> 1]
    /\ refused = {} /\ early = {} /\ timedOut = FALSE /\ sent = None

-----------------------------------------------------------------------------
(* The startup gate.                                                       *)

\* Mutant: the gate opens on the first report, not the last.
TryOpenEager(g) == [g EXCEPT !.open = @ \/ g.complete]

TryOpen(g) == [g EXCEPT !.open = @ \/ (g.complete /\ g.reported >= g.registered)]

RecordRegistered(g) == IF g.open THEN g ELSE [g EXCEPT !.registered = @ + 1]
RecordReported(g)   == IF g.open THEN g ELSE TryOpen([g EXCEPT !.reported = @ + 1])
RecordComplete(g)   == IF g.open THEN g ELSE TryOpen([g EXCEPT !.complete = TRUE])

\* Mutant: the fallback fires but leaves the gate shut.
RecordTimeoutLost(g) == g

RecordTimeout(g) == [g EXCEPT !.open = TRUE]

-----------------------------------------------------------------------------
(* Helpers shared by the handlers.                                         *)

\* Mutant: a new source is forgotten by the broadcast.
BroadcastStale(srcs, total) ==
    [s \in Sources |-> IF s \in srcs \ exited /\ told[s] # None THEN total ELSE told[s]]

\* Every source whose task still runs is sent the same aggregate.
Broadcast(srcs, total) ==
    [s \in Sources |-> IF s \in srcs \ exited THEN total ELSE told[s]]

Eligible(thrs, exp) == {t \in thrs : exp[t] # None}

\* The entries and receivers of the tasks go; unread shares go with them.
RemoveTasks(gone) ==
    /\ tasks' = tasks \ gone
    /\ channels' = channels \ gone
    /\ shareQ' = [k \in TaskIds |-> IF k \in gone THEN <<>> ELSE shareQ[k]]

TasksOf(s) == {k \in tasks : k.src = s}

\* Tasks `want' are handed to their threads; those in `ok' were accepted. A
\* thread that has ended refuses, a live one may. Only an accepted task gets
\* a TaskEntry and keeps its channel.
HandOver(want, ok) ==
    /\ ok \subseteq {k \in want : k.thr \in alive}
    /\ held' = held \cup ok
    /\ refused' = (want \ ok) \cup {k \in refused : \A w \in want : w.src = k.src => w.job = k.job}

-----------------------------------------------------------------------------
(* Branches of the select! in Scheduler::run.                              *)

HandleSourceRegistration(s) ==
    /\ phase = "select" /\ s \notin sources
    /\ sources' = sources \cup {s}
    /\ told' = IF gate.open THEN Broadcast(sources', expected) ELSE told
    /\ phase' = "detect"
    /\ UNCHANGED <<lastJob, threads, expected, tasks, gate, lastCount, streams, channels, armed, envVars, histVars>>

\* Mutant: ReplaceJob keeps the old tasks, as UpdateJob does.
SupersededByNone(s, type) == {}

\* ReplaceJob invalidates the source's tasks, but only past the early return
\* for an empty thread table; UpdateJob leaves them, late shares still count.
Superseded(s, type) ==
    IF type = "replace" /\ threads # {} THEN TasksOf(s) ELSE {}

AssignJobToThreads(s) ==
    /\ phase = "select" /\ s \in sources /\ sourceQ[s] # <<>>
    /\ Head(sourceQ[s]).type \in {"update", "replace"}
    /\ LET e    == Head(sourceQ[s])
           gone == Superseded(s, e.type)
           want == {[src |-> s, job |-> e.job, thr |-> t] : t \in Eligible(threads, expected)}
       IN  /\ lastJob' = [lastJob EXCEPT ![s] = e.job]
           /\ validFrom' = [validFrom EXCEPT ![s] = IF e.type = "replace" THEN e.job ELSE @]
           /\ \E ok \in SUBSET want :
                /\ HandOver(want, ok)
                /\ tasks' = (tasks \ gone) \cup ok
                /\ channels' = (channels \ gone) \cup ok
                /\ shareQ' = [k \in TaskIds |-> IF k \in gone THEN <<>> ELSE shareQ[k]]
    /\ sourceQ' = [sourceQ EXCEPT ![s] = Tail(@)]
    /\ phase' = "detect"
    /\ UNCHANGED <<sources, threads, expected, gate, lastCount, streams,
                   armed, regQ, threadQ, told, alive, born, exited, issued,
                   early, timedOut, sent>>

\* The jobs handled so far are void; threads are not told (go_idle is never
\* called), they keep hashing and their shares meet a closed channel.
HandleClearJobs(s) ==
    /\ phase = "select" /\ s \in sources /\ sourceQ[s] # <<>>
    /\ Head(sourceQ[s]).type = "clear"
    /\ lastJob' = [lastJob EXCEPT ![s] = None]
    /\ RemoveTasks(TasksOf(s))
    /\ validFrom' = [validFrom EXCEPT ![s] = Head(sourceQ[s]).next]
    /\ sourceQ' = [sourceQ EXCEPT ![s] = Tail(@)]
    /\ phase' = "detect"
    /\ UNCHANGED <<sources, threads, expected, gate, lastCount, streams,
                   armed, regQ, threadQ, told, alive, born, held, exited, issued,
                   refused, early, timedOut, sent>>

\* The share of a task is sent to its source if it meets the source's target.
HandleShare(k) ==
    /\ phase = "select" /\ k \in channels /\ shareQ[k] # <<>>
    /\ sent' = IF k \in tasks /\ Head(shareQ[k]) = "worthy" THEN k ELSE None
    /\ shareQ' = [shareQ EXCEPT ![k] = Tail(@)]
    /\ phase' = "detect"
    /\ UNCHANGED <<sources, lastJob, threads, expected, tasks, gate, lastCount,
                   streams, channels, armed, told, regQ, sourceQ, threadQ, alive,
                   born, held, exited, issued, validFrom, refused, early, timedOut>>

\* Mutant: a source without a job is offered too.
CachedTasksUnfiltered(t) ==
    {[src |-> s, job |-> lastJob[s], thr |-> t] : s \in sources}

\* Mutant: the cached jobs are forgotten when a thread first reports.
CachedTasksNone(t) == {}

\* assign_cached_jobs_to_thread: one task per source that has a job.
CachedTasks(t) ==
    {[src |-> s, job |-> lastJob[s], thr |-> t] : s \in {x \in sources : lastJob[x] # None}}

\* HashThreadEvent::ExpectedHashRate. Only the first report assigns cached
\* jobs and counts for the gate; every report past the gate is broadcast.
HandleExpectedHashRate(t) ==
    /\ phase = "select" /\ t \in streams /\ threadQ[t] # <<>>
    /\ threadQ' = [threadQ EXCEPT ![t] = Tail(@)]
    /\ phase' = "detect"
    /\ IF t \notin threads
       THEN UNCHANGED <<expected, tasks, channels, held, refused, gate, told>>
       ELSE LET first == expected[t] = None
                want  == IF first THEN CachedTasks(t) ELSE {}
            IN  /\ expected' = [expected EXCEPT ![t] = Head(threadQ[t])]
                /\ \E ok \in SUBSET want :
                     /\ HandOver(want, ok)
                     /\ tasks' = tasks \cup ok
                     /\ channels' = channels \cup ok
                /\ gate' = IF first THEN RecordReported(gate) ELSE gate
                /\ told' = IF gate'.open THEN Broadcast(sources, expected') ELSE told
    /\ UNCHANGED <<sources, lastJob, threads, lastCount, streams, armed,
                   regQ, sourceQ, shareQ, alive, born, exited, issued,
                   validFrom, early, timedOut, sent>>

\* ThreadRegistration::Thread.
HandleNewThread ==
    /\ phase = "select" /\ regQ # <<>> /\ Head(regQ) \in Threads
    /\ threads' = threads \cup {Head(regQ)}
    /\ gate' = RecordRegistered(gate)
    /\ early' = IF gate.open THEN early ELSE early \cup {Head(regQ)}
    /\ streams' = streams \cup {Head(regQ)}
    /\ lastCount' = Cardinality(streams')
    /\ regQ' = Tail(regQ)
    /\ phase' = "detect"
    /\ UNCHANGED <<sources, lastJob, expected, tasks, channels, armed,
                   told, sourceQ, threadQ, shareQ, alive, born, held, exited, issued,
                   validFrom, refused, timedOut, sent>>

\* ThreadRegistration::InitialEnumerationComplete.
HandleEnumerationComplete ==
    /\ phase = "select" /\ regQ # <<>> /\ Head(regQ) = Complete
    /\ gate' = RecordComplete(gate)
    /\ armed' = (armed \/ ~gate'.open)
    /\ told' = IF gate'.open THEN Broadcast(sources, expected) ELSE told
    /\ regQ' = Tail(regQ)
    /\ phase' = "detect"
    /\ UNCHANGED <<sources, lastJob, threads, expected, tasks, lastCount, streams, channels, sourceQ, threadQ, shareQ, alive, born, held,
                   exited, issued, histVars>>

\* The fallback: ten seconds after the enumeration a thread is still silent.
GateTimeout ==
    /\ phase = "select" /\ armed /\ ~gate.open
    /\ gate' = RecordTimeout(gate)
    /\ told' = Broadcast(sources, expected)
    /\ armed' = FALSE
    /\ timedOut' = TRUE
    /\ phase' = "detect"
    /\ UNCHANGED <<sources, lastJob, threads, expected, tasks, lastCount, streams, channels, envVars, validFrom, refused, early, sent>>

\* Status and telemetry ticks, API commands, the thread events that are only
\* logged: they change nothing here but end the iteration.
Tick ==
    /\ phase = "select"
    /\ phase' = "detect"
    /\ UNCHANGED <<sources, lastJob, threads, expected, tasks, gate, lastCount,
                   streams, channels, armed, told, envVars, histVars>>

-----------------------------------------------------------------------------
(* The end of the iteration, and what polling does on its own.             *)

\* Mutant: the tasks of the threads that left are kept.
OrphanedNone(active) == {}

Orphaned(active) == {k \in tasks : k.thr \notin active}

\* Detection compares counts. The broadcast ignores the startup gate.
HandleThreadDisconnections ==
    /\ phase = "detect"
    /\ phase' = "select"
    /\ sent' = None
    /\ IF Cardinality(streams) = lastCount
       THEN UNCHANGED <<threads, expected, tasks, channels, shareQ, lastCount, told>>
       ELSE /\ threads' = threads \cap streams
            /\ expected' = [t \in Threads |-> IF t \in streams THEN expected[t] ELSE None]
            /\ RemoveTasks(Orphaned(streams))
            /\ lastCount' = Cardinality(streams)
            /\ told' = Broadcast(sources, expected')
    /\ UNCHANGED <<sources, lastJob, gate, streams, armed, regQ, sourceQ,
                   threadQ, alive, born, held, exited, issued,
                   validFrom, refused, early, timedOut>>

\* StreamMap::poll_next drops a thread's stream once its sender is gone and
\* its events are read. No branch fires.
PollReap(t) ==
    /\ phase = "select"
    /\ t \in streams \ alive /\ threadQ[t] = <<>>
    /\ streams' = streams \ {t}
    /\ UNCHANGED <<sources, lastJob, threads, expected, tasks, gate, lastCount,
                   channels, armed, phase, told, envVars, histVars>>

\* The same for a task's share channel; the TaskEntry stays.
PollShareEnd(k) ==
    /\ phase = "select"
    /\ k \in channels \ held /\ shareQ[k] = <<>>
    /\ channels' = channels \ {k}
    /\ UNCHANGED <<sources, lastJob, threads, expected, tasks, gate, lastCount,
                   streams, armed, phase, told, envVars, histVars>>

-----------------------------------------------------------------------------
(* Environment.                                                            *)

\* The backplane starts a board and registers its thread (start_board).
Spawn(t) ==
    /\ t \notin born
    /\ born' = born \cup {t} /\ alive' = alive \cup {t}
    /\ regQ' = Append(regQ, t)
    /\ UNCHANGED <<schedVars, histVars, sourceQ, threadQ, shareQ, held, exited, issued>>

\* send_enumeration_complete, once, behind every starting thread.
EnumerationDone ==
    /\ ~gate.complete /\ \A i \in DOMAIN regQ : regQ[i] # Complete
    /\ regQ' = Append(regQ, Complete)
    /\ UNCHANGED <<schedVars, histVars, sourceQ, threadQ, shareQ, alive, born, held,
                   exited, issued>>

ThreadReports(t, r) ==
    /\ t \in alive /\ Len(threadQ[t]) < QueueCap
    /\ threadQ' = [threadQ EXCEPT ![t] = Append(@, r)]
    /\ UNCHANGED <<schedVars, histVars, regQ, sourceQ, shareQ, alive, born, held,
                   exited, issued>>

\* The thread finds a nonce for a task whose sender it still owns. A full
\* channel makes it wait; a closed one swallows the share.
ThreadFindsShare(k, share) ==
    /\ k \in held \cap channels /\ Len(shareQ[k]) < ShareCap
    /\ Cardinality({c \in channels \ {k} : shareQ[c] # <<>>}) < MaxInFlight
    /\ shareQ' = [shareQ EXCEPT ![k] = Append(@, share)]
    /\ UNCHANGED <<schedVars, histVars, regQ, sourceQ, threadQ, alive, born, held,
                   exited, issued>>

\* The thread drops an older task it no longer needs.
ThreadReleases(k) ==
    /\ k \in held
    /\ held' = held \ {k}
    /\ UNCHANGED <<schedVars, histVars, regQ, sourceQ, threadQ, shareQ, alive, born,
                   exited, issued>>

\* The thread's task or worker ends: unplugged board, shutdown, error.
ThreadEnds(t) ==
    /\ t \in alive
    /\ alive' = alive \ {t}
    /\ held' = {k \in held : k.thr # t}
    /\ UNCHANGED <<schedVars, histVars, regQ, sourceQ, threadQ, shareQ, born, exited,
                   issued>>

SourceEmits(s, type) ==
    /\ s \notin exited /\ Len(sourceQ[s]) < QueueCap
    /\ IF type = "clear"
       THEN /\ sourceQ' = [sourceQ EXCEPT ![s] = Append(@, [type |-> "clear", next |-> issued[s] + 1])]
            /\ UNCHANGED issued
       ELSE /\ issued[s] < MaxJobs
            /\ issued' = [issued EXCEPT ![s] = @ + 1]
            /\ sourceQ' = [sourceQ EXCEPT ![s] = Append(@, [type |-> type, job |-> issued[s] + 1])]
    /\ UNCHANGED <<schedVars, histVars, regQ, threadQ, shareQ, alive, born, held, exited>>

SourceExits(s) ==
    /\ s \in (sources \cap MayExit) \ exited
    /\ exited' = exited \cup {s}
    /\ UNCHANGED <<schedVars, histVars, regQ, sourceQ, threadQ, shareQ, alive, born,
                   held, issued>>

-----------------------------------------------------------------------------
Branch ==
    \/ \E s \in Sources : \/ HandleSourceRegistration(s)
                          \/ AssignJobToThreads(s)
                          \/ HandleClearJobs(s)
    \/ \E k \in TaskIds : HandleShare(k)
    \/ \E t \in Threads : HandleExpectedHashRate(t)
    \/ HandleNewThread
    \/ HandleEnumerationComplete
    \/ GateTimeout
    \/ Tick

Environment ==
    \/ \E t \in Threads : \/ Spawn(t)
                          \/ \E r \in Rates : ThreadReports(t, r)
                          \/ ThreadEnds(t)
    \/ EnumerationDone
    \/ \E k \in TaskIds : \/ \E share \in Shares : ThreadFindsShare(k, share)
                          \/ ThreadReleases(k)
    \/ \E s \in Sources : \/ \E type \in {"update", "replace", "clear"} : SourceEmits(s, type)
                          \/ SourceExits(s)

Next ==
    \/ Branch
    \/ HandleThreadDisconnections
    \/ \E t \in Threads : PollReap(t)
    \/ \E k \in TaskIds : PollShareEnd(k)
    \/ Environment

Spec == Init /\ [][Next]_vars

\* The iteration always ends: run() awaits nothing for ever here. An elapsed
\* sleep_until stays ready and select! polls its branches in random order, so
\* a branch that is ready again and again is eventually taken.
Fairness ==
    /\ WF_vars(HandleThreadDisconnections)
    /\ WF_vars(Tick)
    /\ SF_vars(GateTimeout)
    /\ SF_vars(HandleNewThread \/ HandleEnumerationComplete)

FairSpec == Spec /\ Fairness

-----------------------------------------------------------------------------
(* Properties.                                                             *)

\* Every TaskEntry belongs to a thread in the table: the early return of
\* assign_job_to_threads on an empty table may skip the invalidation of a
\* ReplaceJob only because no task can be left by then.
TasksHaveThreads == \A k \in tasks : k.thr \in threads

\* A share channel never outlives its TaskEntry, so handle_share never meets
\* a removed task: entry and receiver go in the same step.
ChannelsHaveTasks == channels \subseteq tasks

\* Every TaskEntry is for a job that no handled ReplaceJob or ClearJobs has
\* made void, whatever threads came, reported or left in between.
TasksAreValid == \A k \in tasks : k.job >= validFrom[k.src]

\* messages.rs on ReplaceJob: "Don't submit shares from previous jobs". A
\* share is forwarded only for a job that is not void when it is forwarded.
SubmitsOnlyValid == sent # None => sent.job >= validFrom[sent.src]

\* Between iterations a thread that has reported has been offered the current
\* job of every source, in whichever order the reports and the jobs came.
EligibleThreadsHaveWork ==
    \A t \in Eligible(threads, expected) : \A s \in sources :
        lastJob[s] # None =>
            [src |-> s, job |-> lastJob[s], thr |-> t] \in tasks \cup refused

\* Once the gate is open every running source has been sent the aggregate of
\* the rates in the thread table, not one of an earlier moment.
SourcesToldCurrentRate ==
    gate.open => \A s \in sources \ exited : told[s] = expected

\* The gate opened by counting, not by the timeout, only after every thread
\* it was waiting for had reported: no live one was missed by the counters.
GateWaitedForThreads ==
    gate.open /\ ~timedOut => \A t \in early \cap threads : expected[t] # None

\* The completion signal leads to an open gate, even when a thread it counted
\* never reports or disconnects before it does.
GateEventuallyOpens == gate.complete ~> gate.open

\* The tables agree with each other (scheduler.rs:401, :519).
TablesAgree == TasksHaveThreads /\ ChannelsHaveTasks

\* Work that was made void is neither kept nor submitted (scheduler.rs:401,
\* messages.rs:128).
OnlyValidWork == TasksAreValid /\ SubmitsOnlyValid
=============================================================================
