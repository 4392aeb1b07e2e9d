------------------------------ MODULE StratumV1 ------------------------------
(***************************************************************************)
(* The Stratum v1 job source (job_source/stratum_v1.rs), the client task   *)
(* it spawns for every connection (stratum_v1/client.rs) and the line      *)
(* framing of that connection (stratum_v1/connection.rs), between the      *)
(* scheduler and a pool.                                                   *)
(*                                                                         *)
(* The client sends one request at a time and handles the pool's           *)
(* notifications while it waits for the answer.  In its main loop a read   *)
(* competes with the commands of the source: a read that loses, or that    *)
(* times out, is dropped together with the part of a line it has read, and *)
(* what is left of that line is garbage to the next read.                  *)
(*                                                                         *)
(* Data abstraction.  Sessions and jobs are numbered; a session's number   *)
(* is its extranonce1.  A job template keeps the session, the difficulty   *)
(* and the version mask it was built with.  The difficulty suggested for a *)
(* hashrate is the hashrate itself (both scale alike).  The channels of    *)
(* 100 entries are never full within the bounds.  Events that only make     *)
(* the source log (Disconnected, Error) are left out.                      *)
(***************************************************************************)
EXTENDS Naturals, Sequences

CONSTANTS
    None,    \* Rust's Option::None
    Rates,   \* hashrates the scheduler may announce, 0 for none
    Masks,   \* version masks a pool may authorise
    Diffs,   \* difficulties the pool may set
    Prompt,  \* whether a backoff outlasts the scheduler's handling of ClearJobs
    Budgets  \* bounds: how often the environment may do what; Init picks one

\* Attempts to connect, jobs, set_difficulty and set_version_mask, shares,
\* what goes wrong (a refusal, a malformed, late or missing answer, a reconnect
\* request, a close, a line in two parts), and the hashrates announced in turn.
BudgetType == [attempts : Nat, jobs : Nat, sets : Nat, shares : Nat, faults : Nat,
               rates : Seq(Rates)]

OptMask == Masks \cup {None}
OptDiff == Diffs \cup {None}

\* The source's ProtocolState, the jobs it hands out and the shares it gets.
ProtocolStates == [en1 : Nat \cup {None}, diff : OptDiff, mask : OptMask]
Jobs           == [n : Nat, ses : Nat, diff : OptDiff, mask : OptMask]
Shares         == [n : Nat, job : Jobs]

ASSUME StratumConstants ==
    /\ Rates \subseteq Nat
    /\ None \notin Nat /\ None \notin Masks /\ None \notin ProtocolStates /\ None \notin Shares
    /\ Prompt \in BOOLEAN
    /\ Budgets \subseteq BudgetType

VARIABLES
    \* the scheduler's side
    rx,          \* command_rx: commands of the scheduler
    tx,          \* event_tx: events for the scheduler
    known,       \* jobs the scheduler may still submit shares for
    \* StratumV1Source
    src,         \* where run() is: "wait", "connect", "run", "backoff", "exited"
    rate,        \* expected_hashrate
    state,       \* the source's ProtocolState
    suggested,   \* last_suggested_difficulty
    cooldown,    \* cooldown_until: "off", "on", or "due" once it has passed
    delay,       \* ExponentialBackoff.current in seconds
    \* the channels between the source and its client
    events, commands,
    \* StratumV1Client
    pc,          \* the request whose answer it awaits, "main" or "ended"
    reqId,       \* id of the last request
    initial,     \* initial_suggest_difficulty
    share,       \* the share being submitted
    result,      \* what the client task returned
    partial,     \* a pending read holds the first part of the next line
    \* the connection and the pool
    session,     \* number of the connection
    open,        \* the pool has not closed it
    toPool, toClient,
    poolDiff,    \* difficulty the pool set since it answered mining.subscribe
    subscribed,  \* the pool has answered mining.subscribe
    left,        \* what is left of the budget
    \* history
    announced,   \* the session and the difficulty of every job of the pool
    lost,        \* a line was cut in two
    accepted,    \* shares the pool accepted
    counted,     \* shares reported as accepted
    foreign      \* a share went to another session than its job's

schedVars   == <<rx, tx, known>>
sourceVars  == <<src, rate, state, suggested, cooldown, delay>>
clientVars  == <<pc, reqId, initial, share, result, partial>>
linkVars    == <<session, open, toPool, toClient>>
poolVars    == <<poolDiff, subscribed, announced, accepted>>
stratumVars == <<schedVars, sourceVars, events, commands, clientVars, linkVars, poolVars,
                 left, lost, counted, foreign>>
quiet       == <<poolVars, left, lost, counted, foreign>>

\* Messages of the wire.
Request(m, id, s)  == [method |-> m, id |-> id, share |-> s]
Response(id, v, m) == [type |-> "response", id |-> id, val |-> v, mask |-> m]
Notify(n, clean)   == [type |-> "notify", n |-> n, clean |-> clean]
SetDifficulty(d)   == [type |-> "diff", d |-> d]
SetVersionMask(m)  == [type |-> "mask", m |-> m]
Reconnect          == [type |-> "reconnect"]
Odd                == [type |-> "odd"]      \* a line that parses but makes no sense
Garbage            == [type |-> "garbage"]  \* a line that does not parse

Handshake == {"configure", "subscribe", "authorize"}
Requests  == Handshake \cup {"suggest", "submit"}

SourceTypeOK ==
    /\ src \in {"wait", "connect", "run", "backoff", "exited"}
    /\ rate \in Rates \cup {0}
    /\ state = None \/ state \in [en1 : 1..session \cup {None}, diff : OptDiff, mask : OptMask]
    /\ \A j \in known : j \in [n : Nat, ses : 1..session, diff : OptDiff, mask : OptMask]
    /\ suggested \in Nat \cup {None} /\ initial \in Nat \cup {None}
    /\ cooldown \in {"off", "on", "due"}
    /\ delay \in {1, 2, 4, 8, 16, 32, 60}
    /\ pc \in Requests \cup {"main", "ended"}
    /\ (share # None) = (pc = "submit")
    /\ result \in {None, "disconnected", "fatal"}
    /\ partial => toClient # <<>> /\ pc # "ended"
    /\ poolDiff \in OptDiff
    /\ left \in BudgetType

StratumInit ==
    /\ rx = <<>> /\ tx = <<>> /\ known = {}
    /\ src = "wait" /\ rate = 0 /\ state = None
    /\ suggested = None /\ cooldown = "off" /\ delay = 1
    /\ events = <<>> /\ commands = <<>>
    /\ pc = "ended" /\ reqId = 0 /\ initial = None /\ share = None
    /\ result = None /\ partial = FALSE
    /\ session = 0 /\ open = FALSE /\ toPool = <<>> /\ toClient = <<>>
    /\ poolDiff = None /\ subscribed = FALSE
    /\ left \in Budgets
    /\ announced = {} /\ lost = FALSE /\ accepted = {} /\ counted = {} /\ foreign = FALSE

Spend(what) == left[what] > 0 /\ left' = [left EXCEPT ![what] = @ - 1]

-----------------------------------------------------------------------------
(* The scheduler.                                                          *)

SchedulerTakes ==
    /\ tx # <<>>
    /\ LET e == Head(tx)
       IN  known' = CASE e.type = "update"  -> known \cup {e.job}
                      [] e.type = "replace" -> {e.job}
                      [] e.type = "clear"   -> {}
    /\ tx' = Tail(tx)
    /\ UNCHANGED <<rx, sourceVars, events, commands, clientVars, linkVars, quiet>>

SchedulerSubmits ==
    /\ Spend("shares")
    /\ \E j \in known :
          rx' = Append(rx, [type |-> "share", share |-> [n |-> left.shares, job |-> j]])
    /\ UNCHANGED <<tx, known, sourceVars, events, commands, clientVars, linkVars, poolVars,
                   lost, counted, foreign>>

SchedulerAnnounces ==
    /\ left.rates # <<>>
    /\ left' = [left EXCEPT !.rates = Tail(@)]
    /\ rx' = Append(rx, [type |-> "rate", rate |-> Head(left.rates)])
    /\ UNCHANGED <<tx, known, sourceVars, events, commands, clientVars, linkVars, poolVars,
                   lost, counted, foreign>>

-----------------------------------------------------------------------------
(* The source: waiting, connecting, and the way back.                      *)

\* A command taken while there is no connection: a hashrate is kept, a share
\* is dropped.
DrainCommand ==
    /\ rx # <<>>
    /\ rx' = Tail(rx)
    /\ rate' = IF Head(rx).type = "rate" THEN Head(rx).rate ELSE rate

\* Phase 1 of run().
WaitForRate ==
    /\ src = "wait"
    /\ DrainCommand
    /\ src' = IF Head(rx).type = "rate" /\ rate' # 0 THEN "connect" ELSE src
    /\ UNCHANGED <<tx, known, state, suggested, cooldown, delay, events, commands,
                   clientVars, linkVars, quiet>>

\* compute_suggested_difficulty.
SuggestedFor(r) == IF r = 0 THEN None ELSE r

ConnectKeepState == state                          \* mutant: state survives

\* The head of the connection loop resets the protocol state.
StateAtConnect == None

\* connect_and_run up to its loop; the client task starts with its first
\* request, mining.configure.
Connect ==
    /\ src = "connect"
    /\ Spend("attempts")
    /\ src' = "run" /\ state' = StateAtConnect
    /\ suggested' = SuggestedFor(rate) /\ cooldown' = "off"
    /\ session' = session + 1 /\ open' = TRUE
    /\ events' = <<>> /\ commands' = <<>>
    /\ pc' = "configure" /\ reqId' = 1 /\ initial' = suggested' /\ share' = None
    /\ result' = None /\ partial' = FALSE
    /\ toPool' = <<Request("configure", 1, None)>> /\ toClient' = <<>>
    /\ poolDiff' = None /\ subscribed' = FALSE
    /\ UNCHANGED <<schedVars, rate, delay, announced, accepted, lost, counted, foreign>>

\* The work of a dead connection is void.
ClearJobs(q) == Append(q, [type |-> "clear"])

\* The delay doubles up to a minute, and starts again at a second after a
\* connection that was stable.
NextDelay(stable) ==
    LET d == IF stable THEN 1 ELSE delay IN IF 2 * d > 60 THEN 60 ELSE 2 * d

ConnectFails ==
    /\ src = "connect"
    /\ Spend("attempts")
    /\ src' = "backoff" /\ state' = StateAtConnect
    /\ suggested' = SuggestedFor(rate) /\ cooldown' = "off"
    /\ tx' = ClearJobs(tx)
    /\ delay' = NextDelay(FALSE)
    /\ UNCHANGED <<rx, known, rate, events, commands, clientVars, linkVars, poolVars, lost,
                   counted, foreign>>

\* The client's channel is drained and its task has returned.
ClientGone ==
    /\ src = "run" /\ pc = "ended" /\ events = <<>>
    /\ IF result = "fatal"
       THEN src' = "exited" /\ UNCHANGED <<tx, delay>>
       ELSE /\ src' = "backoff" /\ tx' = ClearJobs(tx)
            /\ \E stable \in BOOLEAN : delay' = NextDelay(stable)
    /\ UNCHANGED <<rx, known, rate, state, suggested, cooldown, events, commands,
                   clientVars, linkVars, quiet>>

\* backoff_wait drains the commands until the delay has passed.
BackoffDrains ==
    /\ src = "backoff"
    /\ DrainCommand
    /\ UNCHANGED <<tx, known, src, state, suggested, cooldown, delay, events, commands,
                   clientVars, linkVars, quiet>>

BackoffEnds ==
    /\ src = "backoff"
    /\ Prompt => tx = <<>> /\ rx = <<>>
    /\ src' = "connect"
    /\ UNCHANGED <<schedVars, rate, state, suggested, cooldown, delay, events, commands,
                   clientVars, linkVars, quiet>>

-----------------------------------------------------------------------------
(* The source: its main loop.                                              *)

Material(new, last) ==
    /\ new # None
    /\ last = None \/ 5 * new <= 4 * last \/ 2 * new >= 3 * last

\* A client that has ended takes no command.
ToClient(c) == IF pc = "ended" THEN commands ELSE Append(commands, c)

SendSuggest(d) ==
    /\ suggested' = d /\ cooldown' = "on"
    /\ commands' = ToClient([type |-> "suggest", d |-> d])

InCooldown == cooldown = "on"

\* UpdateHashRate, with maybe_suggest_difficulty.
SourceRate ==
    /\ src = "run" /\ rx # <<>> /\ Head(rx).type = "rate"
    /\ rx' = Tail(rx)
    /\ rate' = Head(rx).rate
    /\ IF Material(SuggestedFor(rate'), suggested) /\ ~InCooldown
       THEN SendSuggest(SuggestedFor(rate'))
       ELSE UNCHANGED <<suggested, cooldown, commands>>
    /\ UNCHANGED <<tx, known, src, state, delay, events, clientVars, linkVars, quiet>>

CooldownPasses ==
    /\ cooldown = "on"
    /\ cooldown' = "due"
    /\ UNCHANGED <<schedVars, src, rate, state, suggested, delay, events, commands,
                   clientVars, linkVars, quiet>>

FlushForgets == cooldown' = "off" /\ UNCHANGED <<suggested, commands>>  \* mutant

\* flush_suggest tests the latest hashrate again.
FlushSuggest ==
    IF Material(SuggestedFor(rate), suggested) THEN SendSuggest(SuggestedFor(rate))
    ELSE cooldown' = "off" /\ UNCHANGED <<suggested, commands>>

CooldownFlush ==
    /\ src = "run" /\ cooldown = "due"
    /\ FlushSuggest
    /\ UNCHANGED <<schedVars, src, rate, state, delay, events, clientVars, linkVars,
                   quiet>>

\* SubmitShare, with share_to_submit_params: without protocol state, or once
\* the client has ended, the share is dropped.
SourceSubmit ==
    /\ src = "run" /\ rx # <<>> /\ Head(rx).type = "share"
    /\ rx' = Tail(rx)
    /\ commands' = IF state = None THEN commands
                   ELSE ToClient([type |-> "submit", share |-> Head(rx).share])
    /\ UNCHANGED <<tx, known, sourceVars, events, clientVars, linkVars, quiet>>

\* The source's ProtocolState after an event: configure comes before
\* subscribe and leaves a temporary state; difficulty and mask are dropped
\* when there is no state.
StateAfter(e) ==
    CASE e.type = "configured" -> IF state = None
                                  THEN [en1 |-> None, diff |-> None, mask |-> e.mask]
                                  ELSE [state EXCEPT !.mask = e.mask]
      [] e.type = "subscribed" -> IF state = None
                                  THEN [en1 |-> e.session, diff |-> None, mask |-> None]
                                  ELSE [state EXCEPT !.en1 = e.session]
      [] e.type = "diff" /\ state # None -> [state EXCEPT !.diff = e.d]
      [] e.type = "mask" /\ state # None -> [state EXCEPT !.mask = e.m]
      [] OTHER -> state

\* job_to_template fails without state, and for the temporary state, whose
\* extranonce2 size of 0 is no valid range.
TemplateBuilt(e) == state # None /\ state.en1 # None

HandleClientEvent ==
    /\ src = "run" /\ events # <<>>
    /\ LET e == Head(events)
       IN  /\ state' = StateAfter(e)
           /\ tx' = IF e.type = "notify" /\ TemplateBuilt(e)
                    THEN Append(tx, [type |-> IF e.clean THEN "replace" ELSE "update",
                                     job  |-> [n |-> e.n, ses |-> state.en1,
                                               diff |-> state.diff, mask |-> state.mask]])
                    ELSE tx
           /\ counted' = IF e.type = "accepted" THEN counted \cup {e.n} ELSE counted
    /\ events' = Tail(events)
    /\ UNCHANGED <<rx, known, src, rate, suggested, cooldown, delay, commands, clientVars,
                   linkVars, poolVars, left, lost, foreign>>

-----------------------------------------------------------------------------
(* The client.                                                             *)

Emit(e) == events' = Append(events, e)

\* send_request up to its loop.
Ask(m, s) ==
    /\ pc' = m /\ share' = s /\ reqId' = reqId + 1
    /\ toPool' = Append(toPool, Request(m, reqId + 1, s))
    /\ UNCHANGED result

ToMain ==
    /\ pc' = "main" /\ share' = None
    /\ UNCHANGED <<reqId, result, toPool>>

EndWith(r) ==
    /\ pc' = "ended" /\ result' = r /\ share' = None
    /\ UNCHANGED <<reqId, toPool>>

\* What an error does: fatal to a handshake, logged by a later request.
Fail == IF pc \in Handshake THEN EndWith("disconnected") ELSE ToMain

clientRest == <<schedVars, sourceVars, initial, session, open, poolVars, counted>>

\* A read returns the next line.
ReadLine ==
    /\ pc # "ended" /\ toClient # <<>>
    /\ toClient' = Tail(toClient) /\ partial' = FALSE
    /\ UNCHANGED <<commands, clientRest, left, lost, foreign>>

\* A read is pending with the first part of a line.
ReadPart ==
    /\ pc # "ended" /\ toClient # <<>> /\ ~partial
    /\ Spend("faults")
    /\ partial' = TRUE
    /\ UNCHANGED <<events, commands, pc, reqId, share, result, toPool, toClient, clientRest,
                   lost, foreign>>

AwaitedAny(m) == pc \in Requests                   \* mutant: the id is not compared

\* send_request returns the response with the id of its request.
Awaited(m) == pc \in Requests /\ m.id = reqId

\* The rest of configure_version_rolling, subscribe, authorize,
\* suggest_difficulty and submit, and the next step of run_with_transport.
Configured(m) ==
    /\ pc = "configure" /\ m.val # "bad"
    /\ Emit([type |-> "configured", mask |-> IF m.val = "yes" THEN m.mask ELSE None])
    /\ Ask("subscribe", None)

Subscribed(m) ==
    /\ pc = "subscribe" /\ m.val = "yes"
    /\ Emit([type |-> "subscribed", session |-> session])
    /\ Ask("authorize", None)

Authorized(m) ==
    /\ pc = "authorize" /\ m.val = "yes"
    /\ UNCHANGED events
    /\ IF initial = None THEN ToMain ELSE Ask("suggest", None)

Suggested(m) ==
    /\ pc = "suggest"
    /\ UNCHANGED events
    /\ ToMain

Submitted(m) ==
    /\ pc = "submit" /\ m.val # "bad"
    /\ Emit([type |-> IF m.val = "yes" THEN "accepted" ELSE "rejected", n |-> share.n])
    /\ ToMain

Refused(m) ==
    /\ \/ m.val = "bad" /\ pc # "suggest"
       \/ m.val = "no" /\ pc \in {"subscribe", "authorize"}
    /\ UNCHANGED events
    /\ IF pc = "authorize" /\ m.val = "no" THEN EndWith("fatal") ELSE Fail

ReadResponse ==
    /\ ReadLine
    /\ LET m == Head(toClient)
       IN  /\ m.type = "response" /\ Awaited(m)
           /\ \/ Configured(m) \/ Subscribed(m) \/ Authorized(m)
              \/ Suggested(m) \/ Submitted(m) \/ Refused(m)

\* A response to another request, a notification whose parameters do not
\* parse or a request of the pool: logged.
ReadStray ==
    /\ ReadLine
    /\ LET m == Head(toClient)
       IN  m.type = "odd" \/ (m.type = "response" /\ ~Awaited(m))
    /\ UNCHANGED <<events, pc, reqId, share, result, toPool>>

HandlesInMain(m) == m.type \in {"notify", "diff", "mask"} /\ pc = "main"   \* mutant

\* handle_notification, from the main loop and from within a request alike.
Handles(m) == m.type \in {"notify", "diff", "mask"}

ReadNotification ==
    /\ ReadLine
    /\ LET m == Head(toClient)
       IN  /\ m.type \in {"notify", "diff", "mask"}
           /\ IF Handles(m) THEN Emit(m) ELSE UNCHANGED events
    /\ UNCHANGED <<pc, reqId, share, result, toPool>>

\* client.reconnect ends the main loop; within a request its error is logged.
ReadReconnect ==
    /\ ReadLine
    /\ Head(toClient).type = "reconnect"
    /\ UNCHANGED events
    /\ IF pc = "main" THEN EndWith("disconnected")
       ELSE UNCHANGED <<pc, reqId, share, result, toPool>>

\* A line that does not parse fails a request and is ignored by the main loop.
ReadGarbage ==
    /\ ReadLine
    /\ Head(toClient).type = "garbage"
    /\ UNCHANGED events
    /\ Fail

ReadEof ==
    /\ pc # "ended" /\ toClient = <<>> /\ ~open
    /\ IF pc = "main" THEN EndWith("disconnected") ELSE Fail
    /\ UNCHANGED <<events, commands, clientRest, partial, toClient, left, lost, foreign>>

\* A read that is dropped takes the first part of its line with it.
DropRead ==
    /\ partial' = FALSE
    /\ toClient' = IF partial THEN <<Garbage>> \o Tail(toClient) ELSE toClient
    /\ lost' = (lost \/ partial)

\* Whether the answer to the request is still to come.
AnswerDue ==
    \/ \E i \in DOMAIN toPool : toPool[i].id = reqId
    \/ \E i \in DOMAIN toClient : toClient[i].type = "response" /\ toClient[i].id = reqId

RequestTimesOut ==
    /\ pc \in Requests
    /\ IF open /\ AnswerDue THEN Spend("faults") ELSE UNCHANGED left
    /\ DropRead
    /\ IF pc = "configure"
       THEN Emit([type |-> "configured", mask |-> None]) /\ Ask("subscribe", None)
       ELSE UNCHANGED events /\ Fail
    /\ UNCHANGED <<commands, clientRest, foreign>>

\* The command branch of the main loop.
TakeCommand ==
    /\ pc = "main" /\ commands # <<>>
    /\ DropRead
    /\ LET c == Head(commands)
       IN  \/ /\ c.type = "submit"
              /\ Ask("submit", c.share)
              /\ foreign' = (foreign \/ c.share.job.ses # session)
           \/ /\ c.type = "suggest"
              /\ Ask("suggest", None)
              /\ UNCHANGED foreign
    /\ commands' = Tail(commands)
    /\ UNCHANGED <<events, clientRest, left>>

-----------------------------------------------------------------------------
(* The pool.                                                               *)

poolRest == <<schedVars, sourceVars, events, commands, clientVars, session, lost, counted, foreign>>

\* It answers the requests in order, late perhaps, or not at all.
PoolAnswers ==
    /\ open /\ toPool # <<>>
    /\ toPool' = Tail(toPool)
    /\ LET r == Head(toPool)
       IN  \/ /\ \E m \in Masks : toClient' = Append(toClient, Response(r.id, "yes", m))
              /\ accepted' = IF r.method = "submit" THEN accepted \cup {r.share.n} ELSE accepted
              /\ subscribed' = (subscribed \/ r.method = "subscribe")
              /\ UNCHANGED left
           \/ /\ Spend("faults")
              /\ \E v \in {"no", "bad"} :
                    toClient' \in {Append(toClient, Response(r.id, v, None)), toClient}
              /\ UNCHANGED <<accepted, subscribed>>
    /\ UNCHANGED <<poolRest, open, poolDiff, announced>>

PoolSays(m) ==
    /\ open
    /\ toClient' = Append(toClient, m)
    /\ UNCHANGED <<poolRest, open, toPool, accepted, subscribed>>

PoolNotifies ==
    /\ Spend("jobs")
    /\ \E clean \in BOOLEAN : PoolSays(Notify(left.jobs, clean))
    /\ announced' = announced \cup {[n |-> left.jobs, ses |-> session, diff |-> poolDiff]}
    /\ UNCHANGED poolDiff

PoolSets ==
    /\ Spend("sets")
    /\ \/ \E d \in Diffs : PoolSays(SetDifficulty(d)) /\ poolDiff' = IF subscribed THEN d ELSE None
       \/ \E m \in Masks : PoolSays(SetVersionMask(m)) /\ UNCHANGED poolDiff
    /\ UNCHANGED announced

PoolDisturbs ==
    /\ Spend("faults")
    /\ \E m \in {Reconnect, Odd, Garbage} : PoolSays(m)
    /\ UNCHANGED <<poolDiff, announced>>

\* A connection that is reset loses what the client has not read.
PoolCloses ==
    /\ open
    /\ Spend("faults")
    /\ open' = FALSE
    /\ toClient' \in {toClient, <<>>}
    /\ partial' = (partial /\ toClient' # <<>>)
    /\ UNCHANGED <<schedVars, sourceVars, events, commands, pc, reqId, initial, share, result,
                   session, toPool, poolVars, lost, counted, foreign>>

-----------------------------------------------------------------------------
SchedulerSteps == SchedulerTakes \/ SchedulerSubmits \/ SchedulerAnnounces
SourceSteps ==
    \/ WaitForRate \/ Connect \/ ConnectFails \/ ClientGone \/ BackoffDrains \/ BackoffEnds
    \/ SourceRate \/ CooldownPasses \/ CooldownFlush \/ SourceSubmit \/ HandleClientEvent
ClientSteps ==
    \/ ReadPart \/ ReadResponse \/ ReadStray \/ ReadNotification \/ ReadReconnect
    \/ ReadGarbage \/ ReadEof \/ RequestTimesOut \/ TakeCommand
PoolSteps == PoolAnswers \/ PoolNotifies \/ PoolSets \/ PoolDisturbs \/ PoolCloses

StratumNext == SchedulerSteps \/ SourceSteps \/ ClientSteps \/ PoolSteps

\* The runtime polls a task that is ready and timers fire.  The branches of a
\* select! need no fairness of their own: within the budgets none of them is
\* ready for ever.  The pool and a new connection owe nothing.
SourceLoop == ClientGone \/ SourceRate \/ SourceSubmit \/ CooldownFlush \/ HandleClientEvent
ClientLoop == ReadResponse \/ ReadStray \/ ReadNotification \/ ReadReconnect \/ ReadGarbage
              \/ ReadEof \/ RequestTimesOut \/ TakeCommand

StratumFairness ==
    /\ WF_stratumVars(SchedulerTakes)
    /\ WF_stratumVars(SourceLoop)
    /\ WF_stratumVars(CooldownPasses)
    /\ WF_stratumVars(ClientLoop)

StratumSpec == StratumInit /\ [][StratumNext]_stratumVars /\ StratumFairness

-----------------------------------------------------------------------------
(* Properties.                                                             *)

Offered == known \cup {tx[i].job : i \in {k \in DOMAIN tx : tx[k].type # "clear"}}

\* A share is only ever submitted on the connection whose extranonce1 is in
\* its job: reconnecting (stratum_v1.rs:625) clears the scheduler's jobs and
\* drops the shares still under way before the next subscription.
SharesToOwnSession == ~foreign

\* A share is counted as accepted only if the pool accepted that very share:
\* an answer that comes after submit timed out is not taken for the answer to
\* the next one (client.rs:160).
CountedWereAccepted == counted \subseteq accepted

\* A template carries the extranonce1 of the connection its job came on,
\* though jobs may arrive before mining.subscribe is answered
\* (stratum_v1.rs:212).
TemplatesOfTheirSession ==
    \A j \in Offered : \E a \in announced : a.n = j.n /\ a.ses = j.ses

\* A job announced after a set_difficulty is mined at that difficulty, even if
\* both arrive within another request, as long as no line is cut
\* (client.rs:172).
TemplatesAtPoolDifficulty ==
    ~lost => \A j \in Offered : \A a \in announced :
                 a.n = j.n /\ a.diff # None => j.diff = a.diff

\* When the pool has closed a connection the scheduler is told to drop its
\* jobs, unless the pool refused the credentials and the source gave up
\* (stratum_v1.rs:541); stated for the first connection, all are alike.
DeadSessionCleared ==
    (session = 1 /\ ~open) ~> (src = "exited" \/ \A j \in Offered : j.ses # 1)

\* A hashrate that has left the deadband is suggested to the pool, at the
\* latest when the cooldown is over (stratum_v1.rs:452).
LatestRateSuggested ==
    (src = "run" /\ Material(SuggestedFor(rate), suggested))
        ~> (src # "run" \/ ~Material(SuggestedFor(rate), suggested))

\* What the scheduler sees is a JobSource: jobs of the connection that is up,
\* and ClearJobs before the jobs of the next one (job_source/mod.rs).
Source == INSTANCE JobSource WITH
    up  <- IF src = "run" THEN session ELSE 0,
    out <- [i \in DOMAIN tx |-> IF tx[i].type = "clear" THEN 0 ELSE tx[i].job.ses],
    has <- {j.ses : j \in known},
    stopped <- src = "exited"

ImplementsJobSource == Source!Spec

\* A share is judged by the pool that gave its job, and counted by its own
\* answer (stratum_v1.rs:625, client.rs:173).
SharesStayWithSession == SharesToOwnSession /\ CountedWereAccepted

\* The templates the scheduler gets are what the pool announced
\* (stratum_v1.rs:320).
TemplatesMatchPool == SourceTypeOK /\ TemplatesOfTheirSession /\ TemplatesAtPoolDifficulty

\* What the source owes the scheduler and the pool is done in the end
\* (stratum_v1.rs:458, :541).
SourceProgresses == DeadSessionCleared /\ LatestRateSuggested
=============================================================================
