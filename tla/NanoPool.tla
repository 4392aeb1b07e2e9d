------------------------------ MODULE NanoPool ------------------------------
(***************************************************************************)
(* nano-pool (nano-pool/src/main.rs): a solo Stratum v2 pool for one       *)
(* device.  A task polls the node's block template and broadcasts jobs; a  *)
(* handler per connection reads the device's messages, forwards the        *)
(* broadcast once the channel is open, judges shares and adjusts their     *)
(* difficulty.  They share the pool's state under a lock which the handler *)
(* takes several times per message.                                        *)
(*                                                                         *)
(* A job is built from a template of the node and belongs to a tip.  The   *)
(* header the pool rebuilds for a share hashes to what the device found    *)
(* iff tip and extranonce prefix agree.  The panel, the notifications and  *)
(* the statistics only read.                                               *)
(***************************************************************************)
EXTENDS StratumV2

CONSTANT MaxPast      \* MAX_PAST_JOBS, 16 in the code

VARIABLES
    node,      \* the node's template: its number and its tip
    active,    \* PoolState.active
    past,      \* PoolState.past_jobs
    nextId,    \* PoolState.next_job_id
    lastPrev,  \* PoolState.last_prev
    diff,      \* vardiff.current_diff
    queue,     \* job_rx: the handler's view of the broadcast
    handler,   \* "idle", "initial", "vardiff" or "answer" within a message, "gone"
    setup,     \* setup_done
    open,      \* channel_open
    answer,    \* the answer to the share at hand
    solved,    \* that share is a block, to be submitted
    firstId,   \* history: the first job the device is given
    lagged,    \* history: the handler missed a broadcast
    refused    \* history: a share whose job should be known was not found

poolVars == <<node, active, past, nextId, lastPrev, diff, queue, handler, setup, open, answer,
              solved, firstId, lagged, refused>>
nanoVars == <<deviceVars, linkVars, poolVars>>

Jobs == [id : Nat, tpl : Nat, tip : Nat, prefix : {"base", "channel"}]

ASSUME NanoPoolConstants == MaxPast \in Nat /\ None \notin Jobs /\ None \notin {"success", "error"}

NanoTypeOK ==
    /\ dev \in {"wait", "connect", "run", "backoff"}
    /\ target \in Diffs \cup {None} /\ diff \in Diffs
    /\ channel => target # None
    /\ active = None \/ active \in Jobs
    /\ past \in Seq(Jobs) /\ Len(past) <= MaxPast
    /\ handler \in {"idle", "initial", "vardiff", "answer", "gone"}
    /\ (answer # None) = (handler \in {"vardiff", "answer"})
    /\ open => setup /\ active # None
    /\ \A j \in held : j.id < nextId

NanoInit ==
    /\ DeviceInit
    /\ node = [n |-> 1, tip |-> 1]
    /\ active = None /\ past = <<>> /\ nextId = 1 /\ lastPrev = None
    /\ diff = CHOOSE d \in Diffs : \A e \in Diffs : d <= e
    /\ queue = <<>> /\ handler = "gone" /\ setup = FALSE /\ open = FALSE
    /\ answer = None /\ solved = FALSE
    /\ firstId = None /\ lagged = FALSE /\ refused = FALSE

-----------------------------------------------------------------------------
(* The node.                                                               *)

NodeChanges ==
    /\ \/ Use("templates") /\ node' = [node EXCEPT !.n = @ + 1]
       \/ Use("tips") /\ node' = [n |-> node.n + 1, tip |-> node.tip + 1]
    /\ UNCHANGED <<deviceVars, up, down, alive, active, past, nextId, lastPrev, diff, queue,
                   handler, setup, open, answer, solved, firstId, lagged, refused>>

-----------------------------------------------------------------------------
(* The template refresher.                                                 *)

JobMsg(j, fut)  == [type |-> "job", id |-> j.id, future |-> fut]
PrevMsg(j)      == [type |-> "prev", id |-> j.id, tip |-> j.tip]
TargetMsg(d)    == [type |-> "target", diff |-> d]

\* A receiver that is behind loses the oldest messages.
Broadcast(ms) ==
    LET all  == queue \o ms
        over == IF Len(all) > budget.cap THEN Len(all) - budget.cap ELSE 0
    IN  IF handler = "gone" THEN UNCHANGED <<queue, lagged>>
        ELSE /\ queue' = SubSeq(all, over + 1, Len(all))
             /\ lagged' = (lagged \/ over > 0)

\* The superseded job is kept for shares under way.
Retain(q) ==
    LET all == IF active = None THEN q ELSE Append(q, active)
    IN  IF Len(all) > MaxPast THEN SubSeq(all, Len(all) - MaxPast + 1, Len(all)) ELSE all

NewTipLate == FALSE                                \* mutant: compared after the assignment
RefreshFuture(j) == <<JobMsg(j, TRUE)>>            \* mutant: without min_ntime

NewTip == lastPrev # node.tip

\* A job of the same tip is immediate: it carries min_ntime.
RefreshMsgs(j) == <<JobMsg(j, FALSE)>>

\* A template that changed becomes the active job.
Refresh ==
    /\ IF active = None THEN TRUE ELSE active.tpl # node.n
    /\ LET j == [id |-> nextId, tpl |-> node.n, tip |-> node.tip,
                 prefix |-> IF active = None THEN "base" ELSE active.prefix]
       IN  /\ active' = j
           /\ Broadcast(IF NewTip THEN <<JobMsg(j, TRUE), PrevMsg(j)>> ELSE RefreshMsgs(j))
    /\ past' = Retain(IF NewTip THEN <<>> ELSE past)
    /\ nextId' = nextId + 1 /\ lastPrev' = node.tip
    /\ UNCHANGED <<deviceVars, linkVars, node, diff, handler, setup, open, answer, solved,
                   firstId, refused>>

-----------------------------------------------------------------------------
(* The handler of a connection.                                            *)

\* main(): a connection is accepted with a fresh receiver of the broadcast.
Accepts ==
    /\ DeviceConnects
    /\ queue' = <<>> /\ handler' = "idle" /\ setup' = FALSE /\ open' = FALSE
    /\ answer' = None /\ solved' = FALSE /\ firstId' = None /\ lagged' = FALSE
    /\ UNCHANGED <<node, active, past, nextId, lastPrev, diff, refused>>

handlerRest == <<deviceVars, alive, budget, node, lastPrev, refused>>

\* The broadcast branch: dropped while the channel is not open.
Forward ==
    /\ handler = "idle" /\ queue # <<>>
    /\ queue' = Tail(queue)
    /\ down' = IF open THEN Append(down, Head(queue)) ELSE down
    /\ UNCHANGED <<handlerRest, up, active, past, nextId, diff, handler, setup, open, answer,
                   solved, firstId, lagged>>

Receive(type) ==
    /\ handler = "idle" /\ up # <<>> /\ Head(up).type = type
    /\ up' = Tail(up)

HandleSetup ==
    /\ Receive("setup")
    /\ setup' = TRUE
    /\ down' = Append(down, [type |-> "setupOk"])
    /\ UNCHANGED <<handlerRest, active, past, nextId, diff, queue, handler, open, answer, solved,
                   firstId, lagged>>

\* The active job takes the prefix the device was told.
LatchPrefix == [active EXCEPT !.prefix = "channel"]

\* OpenExtendedMiningChannel: a hashrate the device reports seeds the
\* difficulty.  Without a template the handler fails.
HandleOpen ==
    /\ Receive("open") /\ active # None
    /\ \E d \in Diffs :
          /\ diff' = d
          /\ down' = Append(down, [type |-> "opened", diff |-> d])
    /\ active' = LatchPrefix
    /\ open' = TRUE /\ handler' = "initial" /\ firstId' = active.id
    /\ UNCHANGED <<handlerRest, past, nextId, queue, setup, answer, solved, lagged>>

OpenTooEarly ==
    /\ Receive("open") /\ active = None
    /\ alive' = FALSE /\ handler' = "gone"
    /\ UNCHANGED <<deviceVars, down, budget, node, active, past, nextId, lastPrev, diff, queue,
                   setup, open, answer, solved, firstId, lagged, refused>>

\* ... and, under another lock, the job that is active by then.
PushInitial ==
    /\ handler = "initial"
    /\ handler' = "idle" /\ firstId' = active.id
    /\ down' = down \o <<JobMsg(active, TRUE), PrevMsg(active)>>
    /\ UNCHANGED <<handlerRest, up, active, past, nextId, diff, queue, setup, open, answer,
                   solved, lagged>>

FindActive(id) == {j \in {active} : j.id = id}     \* mutant: the active job only

FindJob(id) == {j \in {active} \cup {past[i] : i \in DOMAIN past} : j.id = id}

\* A job the pool has promised to know: of this tip, one of the last ones, and
\* not broadcast before the channel opened, when it has another prefix.
Promised(s) == s.tip = lastPrev /\ s.id + MaxPast >= active.id /\ s.id >= firstId

NotFound(s) ==
    /\ FindJob(s.id) = {}
    /\ answer' = "error" /\ handler' = "answer"
    /\ refused' = (refused \/ Promised(s))
    /\ UNCHANGED solved

\* The hash the pool computes is the device's iff it rebuilds the same header.
Reached(s) == IF \E j \in FindJob(s.id) : j.tip = s.tip /\ j.prefix = "channel" THEN s.q ELSE 0

TooLow(s) ==
    /\ FindJob(s.id) # {} /\ Reached(s) < diff
    /\ answer' = "error" /\ handler' = "answer"
    /\ refused' = (refused \/ (Promised(s) /\ s.q = Block))
    /\ UNCHANGED solved

\* Hysteresis: a significant move only.
Fires(d) == 2 * d >= 3 * diff \/ 3 * d <= 2 * diff

ReissueForgets == past                             \* mutant: the old job is not kept

ReissuePast == Retain(past)

\* The end of a vardiff window: the new difficulty counts at once; only a
\* significant move is sent, and then the active job again under a new id.
Retarget ==
    /\ Use("windows")
    /\ \E d \in Diffs :
          /\ diff' = d
          /\ IF Fires(d)
             THEN LET j == [active EXCEPT !.id = nextId]
                  IN  /\ active' = j /\ past' = ReissuePast /\ nextId' = nextId + 1
                      /\ Broadcast(<<TargetMsg(d), JobMsg(j, FALSE)>>)
             ELSE UNCHANGED <<active, past, nextId, queue, lagged>>

Accepted(s) ==
    /\ FindJob(s.id) # {} /\ Reached(s) >= diff
    /\ answer' = "success" /\ solved' = (s.q = Block)
    /\ handler' = "vardiff"
    /\ UNCHANGED refused

\* handle_share up to the verdict.
HandleShare ==
    /\ Receive("share")
    /\ LET s == Head(up).share IN NotFound(s) \/ TooLow(s) \/ Accepted(s)
    /\ UNCHANGED <<deviceVars, down, alive, budget, node, active, past, nextId, lastPrev, diff,
                   queue, setup, open, firstId, lagged>>

\* ... its vardiff part, under another lock; the block submission the handler
\* awaits is the time before Answer.
HandleVardiff ==
    /\ handler = "vardiff"
    /\ handler' = "answer"
    /\ \/ Retarget
       \/ UNCHANGED <<budget, active, past, nextId, diff, queue, lagged>>
    /\ UNCHANGED <<deviceVars, up, down, alive, node, lastPrev, setup, open, answer, solved,
                   firstId, refused>>

\* The node's verdict on a block, if one is submitted, changes only the panel.
Answer ==
    /\ handler = "answer"
    /\ down' = Append(down, [type |-> answer])
    /\ handler' = "idle" /\ answer' = None /\ solved' = FALSE
    /\ UNCHANGED <<handlerRest, up, active, past, nextId, diff, queue, setup, open, firstId, lagged>>

LinkBreaks ==
    /\ Breaks
    /\ handler' = "gone" /\ queue' = <<>> /\ up' = <<>>
    /\ answer' = None /\ solved' = FALSE /\ open' = FALSE
    /\ \E n \in {0, Len(down)} : down' = SubSeq(down, 1, n)
    /\ UNCHANGED <<deviceVars, node, active, past, nextId, lastPrev, diff, setup, firstId,
                   lagged, refused>>

-----------------------------------------------------------------------------
DeviceOnly ==
    /\ \/ SchedulerSteps \/ DeviceStarts \/ DeviceLoses \/ BackoffEnds
       \/ Refill \/ DeviceSubmits \/ DeviceReads
    /\ UNCHANGED poolVars

HandlerSteps == Forward \/ HandleSetup \/ HandleOpen \/ OpenTooEarly \/ PushInitial
                \/ HandleShare \/ HandleVardiff \/ Answer

NanoNext == DeviceOnly \/ Accepts \/ NodeChanges \/ Refresh \/ HandlerSteps \/ LinkBreaks

\* Every task that is ready runs; a device that waits comes back.
NanoFairness ==
    /\ WF_nanoVars(Refresh)
    /\ WF_nanoVars(HandlerSteps)
    /\ WF_nanoVars(DeviceReads /\ UNCHANGED poolVars)

NanoSpec == NanoInit /\ [][NanoNext]_nanoVars /\ NanoFairness

-----------------------------------------------------------------------------
(* Properties.                                                             *)

Templates == held \cup {evts[i].job : i \in {k \in DOMAIN evts : evts[k].type # "clear"}}

\* A share of a job under the present tip is not answered job-not-found while
\* the job is one of the last MAX_PAST_JOBS, and a block under the present tip
\* is not refused as too low, whatever refreshes and retargets race it
\* (main.rs:1058).
CurrentWorkIsKnown == ~refused

\* The device builds a job on the tip it belongs to, unless it missed a
\* broadcast or the job is older than the first one it was given: broadcasts
\* queued before the channel opened follow the initial job (main.rs:903).
JobsOnTheirTip ==
    \A t \in Templates :
        (t.ses = ses /\ open /\ ~lagged /\ t.id >= firstId) =>
            \A j \in FindJob(t.id) : j.tip = t.tip

\* The jobs the device is given are those the pool can rebuild: from the
\* opening of the channel on they carry the channel's prefix (main.rs:1004).
GivenJobsHavePrefix ==
    open => \A j \in {active} \cup {past[i] : i \in DOMAIN past} :
                j.id >= firstId => j.prefix = "channel"

\* A device that stays connected comes to work on the active job, unless it
\* missed a broadcast (main.rs:903).
DeviceFollows ==
    (open /\ active # None) ~>
        (~open \/ lagged \/ \E t \in Templates : t.id = active.id /\ t.tip = active.tip)

\* What the scheduler of the device sees is a JobSource, whatever the pool
\* sends and the link loses (job_source/stratum_v2.rs:343).
ImplementsJobSource == Source!Spec

\* A device hashes nothing the pool could not judge (main.rs:903, :1004).
GivenJobsAreRight == NanoTypeOK /\ JobsOnTheirTip /\ GivenJobsHavePrefix
=============================================================================
