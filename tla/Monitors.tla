------------------------------ MODULE Monitors ------------------------------
(***************************************************************************)
(* What the scheduler and the boards watch with: the hash-rate estimator   *)
(* over a sliding window (types/hashrate_estimator.rs) and the alarm that  *)
(* fires once a condition has lasted (types/debounced_alarm.rs).           *)
(***************************************************************************)
EXTENDS Integers, Sequences

CONSTANTS
    EstWindow,   \* seconds of the window
    MaxSamples,  \* samples kept (10 for each second of the window)
    Works,       \* work of a share
    Debounce,    \* seconds a condition has to last
    MaxClock,    \* bound: seconds
    MaxRecords, MaxChecks \* bounds: shares recorded, looks at the alarm

ASSUME MonitorConstants ==
    /\ {EstWindow, MaxSamples, Debounce, MaxClock, MaxRecords, MaxChecks} \subseteq Nat /\ MaxSamples > 0
    /\ Works \subseteq Nat

VARIABLES
    clock,
    samples, totalWork,  \* of the estimator: <<time, work>>, oldest first
    recorded,            \* history: all samples
    alarm,               \* State: "idle", "timing" or "fired", and
    alarmSince,          \* the time it times from
    alarmSaw             \* history: conditions and statuses of the checks

estVars == <<samples, totalWork, recorded>>
alarmVars == <<alarm, alarmSince, alarmSaw>>
monVars == <<clock, estVars, alarmVars>>

MonInit ==
    /\ clock = 0 /\ samples = <<>> /\ totalWork = 0 /\ recorded = <<>>
    /\ alarm = "idle" /\ alarmSince = 0 /\ alarmSaw = <<>>

MonTick == clock < MaxClock /\ clock' = clock + 1 /\ UNCHANGED <<estVars, alarmVars>>

-----------------------------------------------------------------------------
(* The estimator.                                                          *)

\* Work added one sample after another.
WorkSums(seq) ==
    LET sum[n \in 0..Len(seq)] == IF n = 0 THEN 0 ELSE sum[n - 1] + seq[n][2]
    IN  sum

WorkOf(seq) == WorkSums(seq)[Len(seq)]

InWindow(s, now) == s[1] + EstWindow >= now

\* prune_before: old samples are popped off the front up to the first of the window.
Pruned(seq, now) ==
    LET first == CHOOSE k \in 1..(Len(seq) + 1) :
                    /\ \A i \in 1..(k - 1) : ~InWindow(seq[i], now)
                    /\ k <= Len(seq) => InWindow(seq[k], now)
    IN  SubSeq(seq, first, Len(seq))

Capped(seq) == IF Len(seq) > MaxSamples THEN Tail(seq) ELSE seq

\* record_at: what is taken off the queue is taken off the total.
Record(work) ==
    LET kept == Pruned(samples, clock)
        all  == Append(kept, <<clock, work>>)
    IN  /\ Len(recorded) < MaxRecords
        /\ samples' = Capped(all)
        /\ totalWork' = totalWork - (WorkOf(samples) - WorkOf(kept)) + work
                        - (WorkOf(all) - WorkOf(Capped(all)))
        /\ recorded' = Append(recorded, <<clock, work>>)
        /\ UNCHANGED <<clock, alarmVars>>

\* hashrate_at: the span goes from the oldest sample to now.
Hashrate(now) ==
    LET kept == Pruned(samples, now)
    IN  IF kept = <<>> \/ now = kept[1][1] THEN 0
        ELSE (totalWork - (WorkOf(samples) - WorkOf(kept))) \div (now - kept[1][1])

\* hashrate prunes; it is asked for at any time.
AskHashrate ==
    LET kept == Pruned(samples, clock)
    IN  /\ samples' = kept /\ totalWork' = totalWork - (WorkOf(samples) - WorkOf(kept))
        /\ UNCHANGED <<clock, recorded, alarmVars>>

-----------------------------------------------------------------------------
(* The alarm.                                                              *)

RestartsTimer(cond) == \* mutant: each check starts the time again
    IF cond THEN <<"timing", clock>> ELSE <<"idle", alarmSince>>

WhileTiming(cond) ==
    IF ~cond THEN <<"idle", alarmSince>>
    ELSE IF clock - alarmSince >= Debounce THEN <<"fired", alarmSince>> ELSE <<"timing", alarmSince>>

WhileFired(cond) == IF cond THEN <<"fired", alarmSince>> ELSE <<"idle", alarmSince>>

AlarmStatus(cond) ==
    CASE alarm = "idle"   -> IF cond THEN "Pending" ELSE "Idle"
      [] alarm = "timing" -> IF ~cond THEN "Idle"
                             ELSE IF WhileTiming(cond)[1] = "fired" THEN "Triggered" ELSE "Pending"
      [] alarm = "fired"  -> IF cond THEN "Active" ELSE "Resolved"

Check(cond) ==
    LET next == CASE alarm = "idle"   -> IF cond THEN <<"timing", clock>> ELSE <<"idle", alarmSince>>
                  [] alarm = "timing" -> WhileTiming(cond)
                  [] alarm = "fired"  -> WhileFired(cond)
    IN  /\ Len(alarmSaw) < MaxChecks
        /\ alarm' = next[1] /\ alarmSince' = next[2]
        /\ alarmSaw' = Append(alarmSaw, [at |-> clock, cond |-> cond, status |-> AlarmStatus(cond)])
        /\ UNCHANGED <<clock, estVars>>

ResetAlarm ==
    /\ Len(alarmSaw) < MaxChecks
    /\ alarm' = "idle"
    /\ alarmSaw' = Append(alarmSaw, [at |-> clock, cond |-> FALSE, status |-> "Reset"])
    /\ UNCHANGED <<clock, estVars, alarmSince>>

EstNext == MonTick \/ (\E w \in Works : Record(w)) \/ AskHashrate
AlarmNext == MonTick \/ (\E c \in BOOLEAN : Check(c)) \/ ResetAlarm

MonSpec == MonInit /\ [][EstNext \/ AlarmNext]_monVars

-----------------------------------------------------------------------------
(* Properties.                                                             *)

\* Whatever is pruned or pushed out and when it is asked, the estimate is the
\* work of the last window over the time since its first share, as far as the
\* queue reaches back: what the module and hashrate_at say
\* (hashrate_estimator.rs:4, :86).  The comment on the struct says it is over the
\* length of the window (hashrate_estimator.rs:24), which is so only when the
\* oldest share is as old as the window.
EstimateIsOfWindow ==
    LET last == Len(recorded)
        used == {i \in 1..last : InWindow(recorded[i], clock) /\ last < i + MaxSamples}
    IN  \/ used = {} /\ Hashrate(clock) = 0
        \/ \E i \in used :
              /\ used = i..last
              /\ Hashrate(clock) = IF recorded[i][1] = clock THEN 0
                                   ELSE WorkOf(SubSeq(recorded, i, last)) \div (clock - recorded[i][1])

\* The alarm triggers when the condition held at every check of a time of the
\* debounce or more, and then not again before it was resolved or reset
\* (debounced_alarm.rs:106).
TriggersOncePerEpisode ==
    \A i \in DOMAIN alarmSaw : alarmSaw[i].status = "Triggered" =>
        /\ \E j \in 1..i : /\ alarmSaw[i].at - alarmSaw[j].at >= Debounce
                           /\ \A k \in j..i : alarmSaw[k].cond
        /\ \A j \in 1..(i - 1) : alarmSaw[j].status = "Triggered" =>
              \E k \in j..i : alarmSaw[k].status \in {"Resolved", "Reset"}

\* ... and it does trigger: no condition is seen for longer than the debounce
\* without it (debounced_alarm.rs:119).
LongConditionsTrigger ==
    \A i, j \in DOMAIN alarmSaw :
        (j < i /\ alarmSaw[i].at - alarmSaw[j].at >= Debounce /\ \A k \in j..i : alarmSaw[k].cond)
        => \E k \in 1..i : /\ alarmSaw[k].status = "Triggered"
                           /\ \A m \in k..i : alarmSaw[m].status \notin {"Resolved", "Reset", "Idle"}

\* Estimator and alarm say what happened in their window of time, no more and
\* no less (hashrate_estimator.rs:125, debounced_alarm.rs:106).
MonitorsExact == EstimateIsOfWindow /\ TriggersOncePerEpisode /\ LongConditionsTrigger
=============================================================================
