------------------------------- MODULE Daemon -------------------------------
(***************************************************************************)
(* The tasks a daemon starts for its job source (daemon.rs) and the ring   *)
(* of bounded channels between them: the source, the wrapper that forces a *)
(* share rate (job_source/forced_rate.rs), if it is configured, and the    *)
(* scheduler.  Sending waits for room and, being inside a select! arm,     *)
(* does not see the shutdown token.  A source is the dummy source          *)
(* (job_source/dummy.rs) or any that emits jobs and clears.                *)
(***************************************************************************)
EXTENDS Naturals, Sequences

CONSTANTS
    Nothing,   \* None
    EventCap,  \* events a channel holds (100)
    CmdCap,    \* commands a channel holds (10)
    MaxEvents, \* bound: events a source emits
    MaxCmds,   \* bound: commands of the scheduler
    Rates      \* hashrates, 0 among them

ASSUME DaemonConstants ==
    /\ {EventCap, CmdCap} \subseteq Nat \ {0} /\ {MaxEvents, MaxCmds} \subseteq Nat
    /\ Rates \subseteq Nat /\ 0 \in Rates

VARIABLES
    wiring,              \* "dummy", "direct" or "forced"
    cancelled,           \* the shutdown token
    source, wrap, sched, \* a task: "run", "send" while it waits for room, "exited"
    srcMsg, wrapMsg, schedMsg, \* what a task waits to send
    inner, outer,        \* event channels; without a wrapper only outer is used
    innerCmd, outerCmd,  \* command channels
    wrapRate,            \* ForcedRateSource.hashrate
    emitted, received,   \* history: events of the source, events the scheduler took
    sent                 \* history: number of commands sent

ringVars == <<wiring, cancelled, source, wrap, sched, srcMsg, wrapMsg, schedMsg, inner, outer,
              innerCmd, outerCmd, wrapRate, emitted, received, sent>>

DaemonInit ==
    /\ wiring \in {"dummy", "direct", "forced"}
    /\ cancelled = FALSE
    /\ source = "run" /\ wrap = (IF wiring = "forced" THEN "run" ELSE "exited") /\ sched = "run"
    /\ srcMsg = Nothing /\ wrapMsg = Nothing /\ schedMsg = Nothing
    /\ inner = <<>> /\ outer = <<>> /\ innerCmd = <<>> /\ outerCmd = <<>>
    /\ wrapRate = 0
    /\ emitted = 0 /\ received = <<>> /\ sent = 0

Forced == wiring = "forced"

RoomShort(q, cap) == Len(q) + 1 < cap              \* mutant: off by one

Room(q, cap) == Len(q) < cap

-----------------------------------------------------------------------------
(* The source.  The dummy source only updates its one job.                 *)

\* An event: its number, its kind, and the rate its target was made for, 0 for
\* the pool's own.
Event(k) == [n |-> emitted + 1, kind |-> k, rate |-> 0]

SourceEmits ==
    /\ source = "run" /\ emitted < MaxEvents
    /\ \E k \in IF wiring = "dummy" THEN {"update"} ELSE {"update", "clear"} : srcMsg' = Event(k)
    /\ source' = "send" /\ emitted' = emitted + 1
    /\ UNCHANGED <<wiring, cancelled, wrap, sched, wrapMsg, schedMsg, inner, outer, innerCmd,
                   outerCmd, wrapRate, received, sent>>

ReaderHeld == "run"                                \* mutant: the receiver outlives its task

\* The receiver of the events of the source.
Reader == IF Forced THEN wrap ELSE sched

SourceSends ==
    /\ source = "send"
    /\ IF Reader = "exited" THEN source' = "exited" /\ UNCHANGED <<inner, outer>>
       ELSE /\ source' = "run"
            /\ IF Forced THEN /\ Room(inner, EventCap)
                              /\ inner' = Append(inner, srcMsg) /\ UNCHANGED outer
                         ELSE /\ Room(outer, EventCap)
                              /\ outer' = Append(outer, srcMsg) /\ UNCHANGED inner
    /\ srcMsg' = Nothing
    /\ UNCHANGED <<wiring, cancelled, wrap, sched, wrapMsg, schedMsg, innerCmd, outerCmd,
                   wrapRate, emitted, received, sent>>

SourceTakesCmd ==
    /\ source = "run"
    /\ IF Forced
       THEN innerCmd # <<>> /\ innerCmd' = Tail(innerCmd) /\ UNCHANGED outerCmd
       ELSE outerCmd # <<>> /\ outerCmd' = Tail(outerCmd) /\ UNCHANGED innerCmd
    /\ UNCHANGED <<wiring, cancelled, source, wrap, sched, srcMsg, wrapMsg, schedMsg, inner, outer,
                   wrapRate, emitted, received, sent>>

-----------------------------------------------------------------------------
(* ForcedRateSource::run.                                                  *)

\* modify_job; ClearJobs has no target.
ModifyJob(e) == IF wrapRate # 0 /\ e.kind = "update" THEN [e EXCEPT !.rate = wrapRate] ELSE e

WrapTakesEvent ==
    /\ wrap = "run" /\ inner # <<>>
    /\ wrapMsg' = [to |-> "sched", m |-> ModifyJob(Head(inner))]
    /\ inner' = Tail(inner) /\ wrap' = "send"
    /\ UNCHANGED <<wiring, cancelled, source, sched, srcMsg, schedMsg, outer, innerCmd, outerCmd,
                   wrapRate, emitted, received, sent>>

WrapTakesCmd ==
    /\ wrap = "run" /\ outerCmd # <<>>
    /\ LET c == Head(outerCmd)
       IN  /\ wrapRate' = IF c.kind = "rate" THEN c.rate ELSE wrapRate
           /\ wrapMsg' = [to |-> "source", m |-> c]
    /\ outerCmd' = Tail(outerCmd) /\ wrap' = "send"
    /\ UNCHANGED <<wiring, cancelled, source, sched, srcMsg, schedMsg, inner, outer, innerCmd,
                   emitted, received, sent>>

WrapSends ==
    /\ wrap = "send"
    /\ IF (IF wrapMsg.to = "sched" THEN sched ELSE source) = "exited"
       THEN wrap' = "exited" /\ UNCHANGED <<outer, innerCmd>>
       ELSE /\ wrap' = "run"
            /\ IF wrapMsg.to = "sched"
               THEN /\ Room(outer, EventCap)
                    /\ outer' = Append(outer, wrapMsg.m) /\ UNCHANGED innerCmd
               ELSE /\ Room(innerCmd, CmdCap)
                    /\ innerCmd' = Append(innerCmd, wrapMsg.m) /\ UNCHANGED outer
    /\ wrapMsg' = Nothing
    /\ UNCHANGED <<wiring, cancelled, source, sched, srcMsg, schedMsg, inner, outerCmd, wrapRate,
                   emitted, received, sent>>

\* The source or the scheduler has dropped its end.
WrapEnds == (inner = <<>> /\ source = "exited") \/ (outerCmd = <<>> /\ sched = "exited")

-----------------------------------------------------------------------------
(* The scheduler, as far as its source is concerned.                       *)

SchedTakes ==
    /\ sched = "run" /\ outer # <<>>
    /\ received' = Append(received, Head(outer)) /\ outer' = Tail(outer)
    /\ UNCHANGED <<wiring, cancelled, source, wrap, sched, srcMsg, wrapMsg, schedMsg, inner,
                   innerCmd, outerCmd, wrapRate, emitted, sent>>

SchedWants ==
    /\ sched = "run" /\ sent < MaxCmds
    /\ \/ schedMsg' = [kind |-> "share", n |-> sent + 1]
       \/ \E r \in Rates : schedMsg' = [kind |-> "rate", n |-> sent + 1, rate |-> r]
    /\ sched' = "send" /\ sent' = sent + 1
    /\ UNCHANGED <<wiring, cancelled, source, wrap, srcMsg, wrapMsg, inner, outer, innerCmd,
                   outerCmd, wrapRate, emitted, received>>

\* A failed send is logged.
SchedSends ==
    /\ sched = "send"
    /\ IF (IF Forced THEN wrap ELSE source) = "exited" THEN UNCHANGED outerCmd
       ELSE Room(outerCmd, CmdCap) /\ outerCmd' = Append(outerCmd, schedMsg)
    /\ sched' = "run" /\ schedMsg' = Nothing
    /\ UNCHANGED <<wiring, cancelled, source, wrap, srcMsg, wrapMsg, inner, outer, innerCmd,
                   wrapRate, emitted, received, sent>>

-----------------------------------------------------------------------------
(* Shutdown: SIGINT or SIGTERM cancels the token, run() awaits the tasks.  *)

SignalReceived ==
    /\ ~cancelled /\ cancelled' = TRUE
    /\ UNCHANGED <<wiring, source, wrap, sched, srcMsg, wrapMsg, schedMsg, inner, outer, innerCmd,
                   outerCmd, wrapRate, emitted, received, sent>>

SeesToken == cancelled

\* A source may give up on its own, the dummy never does; select! sees the
\* token between two arms.
TaskExits ==
    /\ \/ /\ source = "run" /\ (SeesToken \/ wiring # "dummy") /\ source' = "exited"
          /\ UNCHANGED <<wrap, sched>>
       \/ wrap = "run" /\ (SeesToken \/ WrapEnds) /\ wrap' = "exited" /\ UNCHANGED <<source, sched>>
       \/ sched = "run" /\ SeesToken /\ sched' = "exited" /\ UNCHANGED <<source, wrap>>
    /\ UNCHANGED <<wiring, cancelled, srcMsg, wrapMsg, schedMsg, inner, outer, innerCmd, outerCmd,
                   wrapRate, emitted, received, sent>>

RingSteps == SourceSends \/ WrapSends \/ SchedSends \/ WrapTakesEvent \/ WrapTakesCmd
             \/ SchedTakes \/ SourceTakesCmd

DaemonNext == RingSteps \/ SourceEmits \/ SchedWants \/ SignalReceived \/ TaskExits

DaemonSpec == DaemonInit /\ [][DaemonNext]_ringVars

\* The exits that have to come: a source that may exit need not, unless told to.
ExitDue == TaskExits /\ (cancelled \/ (wrap' = "exited" /\ wrap = "run"))

-----------------------------------------------------------------------------
(* Properties.                                                             *)

\* Two neighbours wait for room at each other.  It takes a full event channel,
\* which the code makes large.
Jammed ==
    IF Forced
    THEN wrap = "send" /\ IF wrapMsg.to = "sched"
                          THEN sched = "send" /\ Len(outerCmd) = CmdCap /\ Len(outer) = EventCap
                          ELSE source = "send" /\ Len(innerCmd) = CmdCap /\ Len(inner) = EventCap
    ELSE source = "send" /\ sched = "send" /\ Len(outerCmd) = CmdCap /\ Len(outer) = EventCap

\* The scheduler sees the events of the source once, in order, none left out,
\* and every job behind a hashrate the wrapper was told of has a target forced
\* to some rate (forced_rate.rs:114).
EventsInOrder ==
    /\ \A i \in DOMAIN received : received[i].n = i
    /\ \A i \in DOMAIN outer : outer[i].n = Len(received) + i
    /\ (Forced /\ wrap = "send" /\ wrapMsg.to = "sched" /\ wrapMsg.m.kind = "update") =>
          wrapMsg.m.rate = wrapRate

\* After a signal every task ends, unless the ring is jammed at that time
\* (daemon.rs:382, forced_rate.rs:158).
ShutdownCompletes ==
    cancelled ~> (Jammed \/ (source = "exited" /\ wrap = "exited" /\ sched = "exited"))

\* An event of the source reaches the scheduler, unless the daemon stops or the
\* ring jams (forced_rate.rs:158).
EventsArrive ==
    \A n \in 1..MaxEvents :
        (emitted = n) ~> (Len(received) >= n \/ cancelled \/ Jammed \/ source = "exited")

\* A source that gave up takes its wrapper with it, so that the scheduler's
\* channel closes (forced_rate.rs:143).
WrapperFollowsSource ==
    (source = "exited") ~> (wrap = "exited" \/ Jammed)

\* The events of the source arrive, in order (forced_rate.rs:114, :158).
RingDelivers == []EventsInOrder /\ EventsArrive

\* The end of the daemon, or of its source alone, reaches every task
\* (daemon.rs:385, forced_rate.rs:143).
RingEnds == ShutdownCompletes /\ WrapperFollowsSource
=============================================================================
