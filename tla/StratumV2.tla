------------------------------ MODULE StratumV2 ------------------------------
(***************************************************************************)
(* The Stratum v2 job source of a device (job_source/stratum_v2.rs): one   *)
(* extended channel per connection, future jobs that wait for their        *)
(* SetNewPrevHash, the share throttle, and the scheduler on its other      *)
(* side.  NanoPool puts a pool on the other end of the link.               *)
(*                                                                         *)
(* Data abstraction.  A job is its id; a template adds the tip and the     *)
(* share difficulty it was built with.  The difficulty a share reaches is  *)
(* a number, Block for one that solves the block.  UpdateChannel, which    *)
(* the pool only logs, and the length of the backoff are left out.         *)
(***************************************************************************)
EXTENDS Naturals, Sequences

CONSTANTS
    None,
    Diffs,     \* difficulties a pool may ask for
    Block,     \* difficulty of a share that solves a block
    TokenCap,  \* capacity of the share throttle (40 in the code)
    Limits     \* bounds: how often the environment may do what; Init picks one

\* Connections, templates, tips, shares, vardiff windows, and the
\* capacity of the pool's broadcast channel.
LimitType == [connections : Nat, templates : Nat, tips : Nat, shares : Nat, windows : Nat, cap : Nat]

ASSUME StratumV2Constants ==
    /\ Diffs \subseteq Nat /\ \E d \in Diffs : \A e \in Diffs : d <= e
    /\ Block \in Nat /\ \A d \in Diffs : d < Block
    /\ None \notin Nat
    /\ TokenCap \in Nat
    /\ Limits \subseteq LimitType

VARIABLES
    dev,       \* where run() is: "wait", "connect", "run", "backoff"
    ses,       \* number of the connection
    channel,   \* session.channel_id is set
    target,    \* session.share_target_le, as a difficulty
    future,    \* session.future_jobs: ids
    prev,      \* session.prev_hash
    tokens,    \* tokens of the share throttle
    cmds,      \* command_rx: shares of the scheduler
    evts,      \* event_tx
    held,      \* templates the scheduler works on
    up, down,  \* messages to the pool and to the device
    alive,     \* the connection stands
    budget     \* what is left of the limits

deviceVars == <<dev, ses, channel, target, future, prev, tokens, cmds, evts, held>>
linkVars   == <<up, down, alive, budget>>

Use(what) == budget[what] > 0 /\ budget' = [budget EXCEPT ![what] = @ - 1]

DeviceInit ==
    /\ dev = "wait" /\ ses = 0 /\ channel = FALSE /\ target = None /\ future = {} /\ prev = None
    /\ tokens = TokenCap
    /\ cmds = <<>> /\ evts = <<>> /\ held = {}
    /\ up = <<>> /\ down = <<>> /\ alive = FALSE
    /\ budget \in Limits

-----------------------------------------------------------------------------
(* The scheduler.                                                          *)

SchedulerTakes ==
    /\ evts # <<>>
    /\ evts' = Tail(evts)
    /\ held' = LET e == Head(evts)
               IN  CASE e.type = "update"  -> held \cup {e.job}
                     [] e.type = "replace" -> {e.job}
                     [] e.type = "clear"   -> {}
    /\ UNCHANGED <<dev, ses, channel, target, future, prev, tokens, cmds, linkVars>>

\* A hash thread finds a share of one of the templates.
SchedulerSubmits ==
    /\ Use("shares")
    /\ \E j \in held, q \in Diffs \cup {Block} :
          /\ q >= j.diff
          /\ cmds' = Append(cmds, [id |-> j.id, tip |-> j.tip, q |-> q])
    /\ UNCHANGED <<dev, ses, channel, target, future, prev, tokens, evts, held,
                   up, down, alive>>

-----------------------------------------------------------------------------
(* The source.                                                             *)

\* Phase 1: the first hashrate above zero; shares are drained.
DeviceStarts ==
    /\ dev = "wait"
    /\ dev' = "connect" /\ cmds' = <<>>
    /\ UNCHANGED <<ses, channel, target, future, prev, tokens, evts, held, linkVars>>

\* connect_and_run up to its loop, with the new session's state.
DeviceConnects ==
    /\ dev = "connect" /\ Use("connections")
    /\ dev' = "run" /\ ses' = ses + 1
    /\ channel' = FALSE /\ target' = None /\ future' = {} /\ prev' = None
    /\ up' = <<[type |-> "setup"]>> /\ down' = <<>> /\ alive' = TRUE
    /\ UNCHANGED <<tokens, cmds, evts, held>>

LeaveJobs == UNCHANGED evts                        \* mutant: no ClearJobs

\* run(): a session that ended voids its jobs.
ClearJobs == evts' = Append(evts, [type |-> "clear"])

\* The connection is gone and everything it brought has been read.
DeviceLoses ==
    /\ dev = "run" /\ ~alive /\ down = <<>>
    /\ dev' = "backoff"
    /\ ClearJobs
    /\ UNCHANGED <<ses, channel, target, future, prev, tokens, cmds, held, linkVars>>

\* Unlike the v1 source this one drains no command while it waits.
BackoffEnds ==
    /\ dev = "backoff"
    /\ dev' = "connect"
    /\ UNCHANGED <<ses, channel, target, future, prev, tokens, cmds, evts, held, linkVars>>

\* The bucket fills up with time.
Refill ==
    /\ tokens < TokenCap
    /\ tokens' = tokens + 1
    /\ UNCHANGED <<dev, ses, channel, target, future, prev, cmds, evts, held, linkVars>>

\* SubmitShare: the throttle, then submit_share, which drops without a channel.
DeviceSubmits ==
    /\ dev = "run" /\ cmds # <<>>
    /\ cmds' = Tail(cmds)
    /\ IF tokens = 0
       THEN UNCHANGED <<tokens, up>>
       ELSE /\ tokens' = tokens - 1
            /\ up' = IF channel THEN Append(up, [type |-> "share", share |-> Head(cmds)]) ELSE up
    /\ UNCHANGED <<dev, ses, channel, target, future, prev, evts, held, down, alive, budget>>

\* build_template.
Template(id, tip) == [id |-> id, tip |-> tip, diff |-> target, ses |-> ses]

\* handle_new_job: an immediate job needs a tip, any other is parked.
NewJob(m) ==
    /\ IF ~m.future /\ prev # None
       THEN /\ evts' = Append(evts, [type |-> "update", job |-> Template(m.id, prev)])
            /\ UNCHANGED future
       ELSE future' = future \cup {m.id} /\ UNCHANGED evts
    /\ UNCHANGED <<channel, target, prev, up>>

\* handle_prev_hash: the job it names is activated, older ones are dropped.
NewPrevHash(m) ==
    /\ prev' = m.tip
    /\ IF m.id \in future
       THEN /\ future' = {}
            /\ evts' = Append(evts, [type |-> "replace", job |-> Template(m.id, m.tip)])
       ELSE UNCHANGED <<future, evts>>
    /\ UNCHANGED <<channel, target, up>>

\* The frame branch of the loop; answers to shares are counted elsewhere.
DeviceReads ==
    /\ dev = "run" /\ down # <<>>
    /\ down' = Tail(down)
    /\ LET m == Head(down)
       IN  \/ /\ m.type = "setupOk"
              /\ up' = Append(up, [type |-> "open"])
              /\ UNCHANGED <<channel, target, future, prev, evts>>
           \/ /\ m.type = "opened"
              /\ channel' = TRUE /\ target' = m.diff
              /\ UNCHANGED <<future, prev, evts, up>>
           \/ m.type = "job" /\ NewJob(m)
           \/ m.type = "prev" /\ NewPrevHash(m)
           \/ /\ m.type = "target"
              /\ target' = m.diff
              /\ UNCHANGED <<channel, future, prev, evts, up>>
           \/ /\ m.type \in {"success", "error"}
              /\ UNCHANGED <<channel, target, future, prev, evts, up>>
    /\ UNCHANGED <<dev, ses, tokens, cmds, held, alive, budget>>

\* The link breaks, while the bound leaves a connection to come; the pool's
\* handler ends with it (see NanoPool).
Breaks == alive /\ budget.connections > 0 /\ alive' = FALSE /\ UNCHANGED budget

SchedulerSteps == SchedulerTakes \/ SchedulerSubmits

\* What the scheduler sees is a JobSource, as of the v1 source.
Source == INSTANCE JobSource WITH
    up  <- IF dev = "run" THEN ses ELSE 0,
    out <- [i \in DOMAIN evts |-> IF evts[i].type = "clear" THEN 0 ELSE evts[i].job.ses],
    has <- {j.ses : j \in held},
    stopped <- FALSE
=============================================================================
