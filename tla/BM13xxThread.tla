---------------------------- MODULE BM13xxThread ----------------------------
(***************************************************************************)
(* A BM13xx hash thread (mujina-miner/src/asic/bm13xx/thread.rs) between   *)
(* the scheduler that hands it tasks and the chip that hashes them.        *)
(*                                                                         *)
(* The actor is one loop around a select!: a removal signal, a command, a  *)
(* response of the chip, the ntime timer.  A branch runs to its end before *)
(* the next one is polled.  The only await in which other parts can change *)
(* what the branch sees is the send of a share on a task's bounded         *)
(* channel, so that send is a state of its own (pc = "send").              *)
(*                                                                         *)
(* The chip answers with the 4-bit id of the job a nonce was found for.    *)
(* The thread looks the id up in ChipJobTracker, rebuilds the header from  *)
(* the entry and hashes it: the result meets the target iff the entry is   *)
(* the work the chip really hashed.                                        *)
(*                                                                         *)
(* Data abstraction.  Tasks are numbered in the order of assignment; work  *)
(* is a task with one value of ntime, counted from the task's own.  A      *)
(* nonce carries the work it was found for, which the thread never sees,   *)
(* and only nonces good enough for a share are modelled.                   *)
(***************************************************************************)
EXTENDS Integers, Sequences

CONSTANTS
    Slots,       \* entries of ChipJobTracker (16 in the code)
    Kinds,       \* calls the scheduler makes, among "update", "replace", "idle"
    None,        \* Rust's Option::None
    MaxTasks,    \* bound: tasks handed to the thread
    MaxRoll,     \* bound: times ntime is rolled for one task
    LinkCap,     \* bound: nonces on the serial link
    ShareCap,    \* capacity of a task's share channel (32 in the code)
    MaxFaults    \* bound: failed writes to the chip

ASSUME ThreadConstants ==
    /\ Slots \in Nat \ {0}
    /\ Kinds \subseteq {"update", "replace", "idle"}
    /\ {MaxTasks, MaxRoll, LinkCap, MaxFaults} \subseteq Nat
    /\ ShareCap \in Nat \ {0}
    /\ None \notin [task : 1..MaxTasks, ntime : 0..MaxRoll]
    /\ None \notin [kind : {"update", "replace"}, task : 1..MaxTasks] \cup [kind : {"idle"}]

VARIABLES
    \* the scheduler's side
    call,        \* the call whose reply the scheduler awaits
    receivers,   \* tasks whose share receiver the scheduler owns
    shares,      \* share channel of every task
    given,       \* number of tasks handed over
    \* the actor
    pc,          \* "select", "send" (awaits room for a share) or "exited"
    cmdQ,        \* cmd_rx
    reported,    \* ExpectedHashRate has been sent
    initialized, \* chip_initialized
    current,     \* current_task
    tracker,     \* chip_jobs.tasks
    nextId,      \* chip_jobs.next_id
    active,      \* status.is_active
    outgoing,    \* the share being sent
    removal,     \* the removal signal is no longer Running
    \* the chip
    chipJob,     \* the job the chip hashes
    link,        \* nonces on their way to the actor
    faults,      \* writes to the chip that failed
    \* history
    inserts,     \* jobs entered in the tracker so far
    cleared,     \* value of inserts at the last chip_jobs.clear()
    oldest       \* oldest task not invalidated by a ReplaceTask handled

schedVars == <<call, receivers, shares, given>>
actorVars == <<pc, cmdQ, reported, initialized, current, tracker, nextId, active, outgoing>>
chipVars  == <<chipJob, link, faults>>
histVars  == <<inserts, cleared, oldest>>
vars      == <<schedVars, actorVars, removal, chipVars, histVars>>

Tasks == 1..MaxTasks
Works == [task : Tasks, ntime : 0..MaxRoll]
Ids   == 0..(Slots - 1)
\* id: the chip_job_id; work: what was hashed; at: which insert it was.
ChipJobs == [id : Ids, work : Works, at : Nat]
Calls    == [kind : {"update", "replace"}, task : Tasks] \cup [kind : {"idle"}]
Commands == Calls \cup [kind : {"configure"}]

TypeOK ==
    /\ call \in Calls \cup {None}
    /\ receivers \subseteq Tasks
    /\ shares \in [Tasks -> Seq(Works)]
    /\ given \in 0..MaxTasks
    /\ pc \in {"select", "send", "exited"}
    /\ cmdQ \in Seq(Commands)
    /\ reported \in BOOLEAN /\ initialized \in BOOLEAN /\ active \in BOOLEAN
    /\ current \in Works \cup {None}
    /\ tracker \in [Ids -> Works \cup {None}]
    /\ nextId \in Ids
    /\ outgoing \in Works \cup {None}
    /\ removal \in BOOLEAN
    /\ chipJob \in ChipJobs \cup {None}
    /\ link \in Seq(ChipJobs)
    /\ faults \in 0..MaxFaults
    /\ inserts \in Nat /\ cleared \in Nat /\ oldest \in Nat

\* The backplane has registered the thread, the scheduler has configured it.
Init ==
    /\ call = None /\ receivers = {} /\ given = 0
    /\ shares = [t \in Tasks |-> <<>>]
    /\ pc = "select" /\ cmdQ = <<[kind |-> "configure"]>>
    /\ reported = FALSE /\ initialized = FALSE /\ active = FALSE
    /\ current = None /\ outgoing = None
    /\ tracker = [i \in Ids |-> None] /\ nextId = 0
    /\ removal = FALSE
    /\ chipJob = None /\ link = <<>> /\ faults = 0
    /\ inserts = 0 /\ cleared = 0 /\ oldest = 1

-----------------------------------------------------------------------------
(* The scheduler.  It runs one handler at a time: while it awaits a reply  *)
(* it neither reads shares nor drops receivers.                            *)

\* Mutant: a ReplaceJob leaves the old tasks' receivers open.
SurvivingAll(kind) == receivers

\* A ReplaceJob drops the receivers of the old tasks before the call.
Surviving(kind) == IF kind = "replace" THEN {} ELSE receivers

\* UpdateJob or ReplaceJob, or a cached job for a thread that just reported.
AssignTask(kind) ==
    /\ call = None /\ reported /\ given < MaxTasks
    /\ kind \in Kinds \cap {"update", "replace"}
    /\ given' = given + 1
    /\ receivers' = Surviving(kind) \cup {given'}
    /\ shares' = [t \in Tasks |-> IF t \in Surviving(kind) THEN shares[t] ELSE <<>>]
    /\ call' = [kind |-> kind, task |-> given']
    /\ cmdQ' = IF pc = "exited" THEN cmdQ ELSE Append(cmdQ, call')
    /\ UNCHANGED <<pc, reported, initialized, current, tracker, nextId, active,
                   outgoing, removal, chipVars, histVars>>

\* HashThread::go_idle, part of the trait; the scheduler has no caller yet.
GoIdle ==
    /\ call = None /\ reported /\ "idle" \in Kinds /\ pc # "exited"
    /\ call' = [kind |-> "idle"]
    /\ cmdQ' = Append(cmdQ, call')
    /\ UNCHANGED <<receivers, shares, given, pc, reported, initialized, current,
                   tracker, nextId, active, outgoing, removal, chipVars, histVars>>

\* A share is read from its channel.
ReadShare(t) ==
    /\ call = None /\ t \in receivers /\ shares[t] # <<>>
    /\ shares' = [shares EXCEPT ![t] = Tail(@)]
    /\ UNCHANGED <<call, receivers, given, actorVars, removal, chipVars, histVars>>

\* ClearJobs: the receivers go, the thread is not told.
ClearJobs ==
    /\ call = None /\ receivers # {}
    /\ receivers' = {}
    /\ shares' = [t \in Tasks |-> <<>>]
    /\ UNCHANGED <<call, given, actorVars, removal, chipVars, histVars>>

\* The actor ended: a call finds the channel or the reply closed, an error.
CallFails ==
    /\ call # None /\ pc = "exited"
    /\ call' = None
    /\ receivers' = IF call.kind = "idle" THEN receivers ELSE receivers \ {call.task}
    /\ UNCHANGED <<shares, given, actorVars, removal, chipVars, histVars>>

-----------------------------------------------------------------------------
(* ChipJobTracker, and the reply to a call.                                *)

\* clear() empties the entries and keeps next_id.
NextIdAfterClear(id, clearing) == id

\* Mutant: one id is left out, the last slot is never used.
IdAfterShort(id) == (id + 1) % (IF Slots = 1 THEN 1 ELSE Slots - 1)

IdAfter(id) == (id + 1) % Slots

\* Mutant: replace_task leaves the old entries, as update_task does.
EntriesKept(clearing) == tracker

EntriesAfterClear(clearing) == IF clearing THEN [i \in Ids |-> None] ELSE tracker

\* insert() after an optional clear(), then the job is written to the chip.
\* A failed write leaves the entry.
Insert(w, clearing, sent) ==
    LET id == NextIdAfterClear(nextId, clearing)
    IN  /\ tracker' = [EntriesAfterClear(clearing) EXCEPT ![id] = w]
        /\ nextId' = IdAfter(id)
        /\ inserts' = inserts + 1
        /\ cleared' = IF clearing THEN inserts ELSE cleared
        /\ chipJob' = IF sent THEN [id |-> id, work |-> w, at |-> inserts] ELSE chipJob
        /\ faults' = IF sent THEN faults ELSE faults + 1

\* The scheduler keeps the receiver only of a task that was accepted.
Reply(ok) ==
    /\ call' = None
    /\ receivers' = IF ok THEN receivers ELSE receivers \ {call.task}
    /\ UNCHANGED <<shares, given>>

-----------------------------------------------------------------------------
(* Branches of the actor's select!.                                        *)

Command(kind) == pc = "select" /\ cmdQ # <<>> /\ Head(cmdQ).kind = kind

Configure ==
    /\ Command("configure")
    /\ cmdQ' = Tail(cmdQ)
    /\ reported' = TRUE
    /\ UNCHANGED <<schedVars, pc, initialized, current, tracker, nextId, active,
                   outgoing, removal, chipVars, histVars>>

\* The first task brings the chip up. When that fails the task is refused and
\* the next one tries again.
InitializeFails ==
    /\ \E k \in {"update", "replace"} : Command(k)
    /\ ~initialized /\ faults < MaxFaults
    /\ faults' = faults + 1
    /\ cmdQ' = Tail(cmdQ)
    /\ Reply(FALSE)
    /\ UNCHANGED <<pc, reported, initialized, current, tracker, nextId, active,
                   outgoing, removal, chipJob, link, histVars>>

\* UpdateTask and ReplaceTask. The task is current and tracked before the
\* write to the chip, whose failure is the reply.
TakeTask(kind) ==
    /\ Command(kind) /\ kind \in {"update", "replace"}
    /\ LET w == [task |-> Head(cmdQ).task, ntime |-> 0]
       IN  \E sent \in BOOLEAN :
             /\ sent \/ faults < MaxFaults
             /\ Insert(w, kind = "replace", sent)
             /\ current' = w
             /\ active' = (active \/ sent)
             /\ Reply(sent)
    /\ oldest' = IF kind = "replace" THEN Head(cmdQ).task ELSE oldest
    /\ initialized' = TRUE
    /\ cmdQ' = Tail(cmdQ)
    /\ UNCHANGED <<pc, reported, outgoing, removal, link>>

\* The chip is not told and the tracker keeps its entries.
BecomeIdle ==
    /\ Command("idle")
    /\ current' = None /\ active' = FALSE
    /\ cmdQ' = Tail(cmdQ)
    /\ Reply(TRUE)
    /\ UNCHANGED <<pc, reported, initialized, tracker, nextId, outgoing, removal,
                   chipVars, histVars>>

MeetsTarget(w, n) == w = n.work

\* The chip reports a nonce. A share goes to the channel of the entry's task.
HandleNonce ==
    /\ pc = "select" /\ link # <<>>
    /\ LET n == Head(link)
           w == tracker[n.id]
       IN  IF MeetsTarget(w, n)
           THEN pc' = "send" /\ outgoing' = w
           ELSE UNCHANGED <<pc, outgoing>>
    /\ link' = Tail(link)
    /\ UNCHANGED <<schedVars, cmdQ, reported, initialized, current, tracker,
                   nextId, active, removal, chipJob, faults, histVars>>

\* share_tx.send(share).await: waits for room unless the receiver is gone.
SendShare ==
    /\ pc = "send"
    /\ LET t == outgoing.task
       IN  IF t \in receivers
           THEN /\ Len(shares[t]) < ShareCap
                /\ shares' = [shares EXCEPT ![t] = Append(@, outgoing)]
           ELSE UNCHANGED shares
    /\ pc' = "select" /\ outgoing' = None
    /\ UNCHANGED <<call, receivers, given, cmdQ, reported, initialized, current,
                   tracker, nextId, active, removal, chipVars, histVars>>

\* Every second the current task moves on to the next ntime.
RollNtime ==
    /\ pc = "select" /\ current # None /\ current.ntime < MaxRoll
    /\ current' = [current EXCEPT !.ntime = @ + 1]
    /\ \E sent \in BOOLEAN :
         /\ sent \/ faults < MaxFaults
         /\ Insert(current', FALSE, sent)
    /\ UNCHANGED <<schedVars, pc, cmdQ, reported, initialized, active, outgoing,
                   removal, link, oldest>>

\* The loop ends; commands still queued are dropped with their replies.
Exit ==
    /\ pc = "select" /\ removal
    /\ pc' = "exited" /\ active' = FALSE /\ cmdQ' = <<>>
    /\ UNCHANGED <<schedVars, reported, initialized, current, tracker, nextId,
                   outgoing, removal, chipVars, histVars>>

-----------------------------------------------------------------------------
(* The board and the chip.                                                 *)

\* The board withdraws the thread: unplugged, fault, shutdown.
SignalRemoval ==
    /\ ~removal
    /\ removal' = TRUE
    /\ UNCHANGED <<schedVars, actorVars, chipVars, histVars>>

\* The chip finds a nonce for the job it hashes.
FindNonce ==
    /\ chipJob # None /\ Len(link) < LinkCap
    /\ link' = Append(link, chipJob)
    /\ UNCHANGED <<schedVars, actorVars, removal, chipJob, faults, histVars>>

Actor ==
    \/ Configure \/ InitializeFails \/ BecomeIdle \/ HandleNonce \/ SendShare
    \/ RollNtime \/ Exit
    \/ \E k \in {"update", "replace"} : TakeTask(k)

Next ==
    \/ Actor
    \/ \E k \in {"update", "replace"} : AssignTask(k)
    \/ \E t \in Tasks : ReadShare(t)
    \/ GoIdle \/ ClearJobs \/ CallFails
    \/ SignalRemoval \/ FindNonce

Spec == Init /\ [][Next]_vars

\* The runtime polls the actor and the scheduler again and again. select!
\* polls its branches in random order, so the branch for commands is taken
\* in the end although nonces and ticks stay ready (strong fairness); the
\* scheduler reads every channel in the end for the same reason.
TakeCommand ==
    Configure \/ InitializeFails \/ BecomeIdle \/ (\E k \in {"update", "replace"} : TakeTask(k))

Fairness ==
    /\ WF_vars(SendShare) /\ SF_vars(TakeCommand) /\ SF_vars(Exit)
    /\ WF_vars(CallFails)
    /\ \A t \in Tasks : SF_vars(ReadShare(t))

FairSpec == Spec /\ Fairness

-----------------------------------------------------------------------------
(* Properties.                                                             *)

\* A nonce found for one of the last Slots jobs, and not before a clear, is
\* attributed to its work: an update keeps the entries of the old task, and
\* the ids of the tracker only run round.
RecentNoncesAttributed ==
    \A i \in 1..Len(link) :
        LET n == link[i]
        IN  (n.at >= cleared /\ inserts - n.at <= Slots) => tracker[n.id] = n.work

\* A nonce from before a replace_task finds no entry, as long as the link is
\* less than Slots jobs late: clear() does not give its id to the new job.
StaleNoncesUnknown ==
    \A i \in 1..Len(link) :
        LET n == link[i]
        IN  (n.at < cleared /\ inserts - n.at <= Slots) => tracker[n.id] = None

\* Once a ReplaceTask is handled no share of an older task is sent, however
\* late the nonce is.
SharesAreOfValidTasks ==
    pc = "send" => outgoing.task >= oldest

\* The thread waits for room on a channel whose reader, the scheduler, waits
\* for the thread: neither moves again.  A replace_task cannot get there, as
\* the receivers are dropped before the call.
Deadlocked ==
    /\ call # None /\ call.kind # "replace"
    /\ pc = "send" /\ outgoing.task \in receivers
    /\ Len(shares[outgoing.task]) = ShareCap

\* update_task, replace_task and go_idle return: the scheduler is not held
\* up for ever by one thread, but for the deadlock above.
CallsReturn == (call # None) ~> (call = None \/ Deadlocked)

\* A thread that is withdrawn leaves its loop, but for that deadlock.
RemovalEndsThread == removal ~> (pc = "exited" \/ Deadlocked)

\* A nonce is matched with its own work or with none, although the ids run
\* round (thread.rs:51, :800).
NoncesMatched == TypeOK /\ RecentNoncesAttributed /\ StaleNoncesUnknown

\* Neither a call nor the removal of the thread hangs on a share (thread.rs:841)
\* except in the one deadlock named, which only an update_task or a go_idle that
\* meets a full channel reaches.
ThreadProgresses == CallsReturn /\ RemovalEndsThread
=============================================================================
