# Verification of nano-mujina

TLA+ models, TLC runs and TLAPS proofs kept beside the nano-mujina code. The
code is the reference: every definition that models code has its lines in the
`map` of `PROJECT.json`.

    tlc -workers 2 -config MCScheduler_jobs.cfg MCScheduler
    tlapm SchedulerProofs.tla

## 1. The system and its parts

*mujina-miner* is an asynchronous Rust daemon. A **scheduler** task takes jobs
from **job sources** (Stratum v1 and v2 clients, a dummy source, a forced-rate
wrapper), hands them to **hash threads** (BM13xx chains behind USB boards, the
Nano 3S board, CPU threads) and routes the shares they find back to the source.
A **backplane** starts and stops boards as the transports report them and
registers their threads. An **API server** publishes telemetry and takes the
operator's commands. On the Avalon Nano 3S the chips hang on a second core: the
**Nano 3S board driver** talks through an **IPC shim** to **rtos_core**, the
firmware there. *nano-pool* is a small Stratum v2 pool.

| component | state | operations | interacts through | hard behaviour | what makes it correct |
|---|---|---|---|---|---|
| Scheduler (`scheduler.rs`) | tables of sources, threads, tasks; startup gate; streams of thread events and shares; last thread count | assign, replace, clear jobs; route a share; register a thread or source; take a hashrate report; notice disconnects | bounded mpsc channels; awaited calls into threads | random order of `select!`, streams that end silently, hot plug, late shares, counters of threads that have gone | nothing void is submitted; every reporting thread has the current job; sources know the current hashrate; the gate opens, and not over a silent thread |
| BM13xx hash thread (`asic/bm13xx/thread.rs`) | current task, tracker of 16 job ids, removal signal | update, replace, idle; roll ntime; match a nonce; send a share; exit | command channel with a reply; a share channel of 32 per task; serial link | 4-bit ids run round while answers are late; a send that waits inside the loop | a nonce is matched with its own work or none; calls return; a withdrawn thread ends |
| BM13xx wire protocol (`asic/bm13xx/protocol.rs`) | read buffer; registers | find a frame, encode and decode registers, commands and jobs, PLL search | serial link | noise, frames in pieces, rounding | no good frame is lost; what is written is read back; the ticket mask loses no share; the clock ramp is smooth |
| CPU miner (`cpu_miner/`) | current task, cached root, nonce, hash count | commands, hash loop, blocking send, duty cycle | command channel, share channel, a flag | three variables that belong together; a send that blocks the answer | shares are of the current task; no nonce twice; calls return; a dropped handle ends the loop |
| Nano 3S board (`board/nano3s.rs`) | power mode, tuning, target, override, pause, current task, job history | control directives, tasks, nonces, power-target loop | control file, flash files, IPC | crash between two file writes, sends that fail, stale status, pause across restarts | the voltage stays in the mode's range; the chain follows the worker and ends on its task; pauses end; nonces are known |
| Control endpoints (`api/v0.rs`) | the control file | range checks, one write | file read and truncated by the worker | read-then-truncate | accepted values are legal for the mode |
| rtos_core stage 6 (`rtos_core/src/main.c`) | newest message of each kind, pause flags, clock, voltage, job | receive, apply, status, nonce, resume bring-up | IPC | flags lose the order of messages; a pause outlives the peer | as for the board |
| IPC shim (`nano3s_ipc_shim.c`) | last status, queue of 64 nonces | send, status, poll, DC/DC code | C calls | full queue, rounding to 26 mV | bounded queue |
| Stratum v1 source and client (`job_source/stratum_v1.rs`, `stratum_v1/`) | protocol state, pending difficulty, connection | wait for a rate, connect with backoff, handshake, notify, submit, suggest a difficulty | channels to the scheduler and to the client task; TCP | stale commands across reconnects, notifications inside requests, late answers, lines cut by a dropped read | shares go to the session of their job; a dead session is cleared; a changed rate is suggested |
| Stratum v2 source (`job_source/stratum_v2.rs`) | channel, target, future jobs, previous hash, throttle | connect, open a channel, take jobs and previous hashes, submit | as above | jobs that wait for their previous hash, queued shares across reconnects | as above |
| nano-pool (`nano-pool/src/main.rs`) | active job, past jobs, per-device channel and vardiff | refresh, broadcast, open, submit, retarget | broadcast channel that may lag, TCP | a share races a refresh; broadcast and first job meet; three lock scopes while a channel opens | a current share is known; jobs meet their tip; the device follows |
| Daemon, forced-rate wrapper, dummy source (`daemon.rs`, `forced_rate.rs`, `dummy.rs`) | tasks, channels, token | forward events and commands, wire, shut down | a ring of bounded channels | two neighbours wait for room at each other; a wait does not see the token | events arrive in order; shutdown ends; the end of a source is seen |
| Backplane, registry, USB discovery (`backplane.rs`, `board/pattern.rs`, `transport/usb.rs`) | map serial -> board, completion count, known devices | connect, disconnect, enumerate, match, shut down | transport events, scheduler | equal or missing serials, a plug while the list is made | completion comes last; each plug starts one board; which boards may be left on |
| Bitaxe and emberOne boards (`board/bitaxe.rs`, `emberone00.rs`, `peripheral/`) | reset line, core voltage, limits, bad-reading count | power up, monitor, emergency, shut down | control channel, shared reset pin | writes that fail with or without effect, implausible readings, shutdown against bring-up | no voltage without limits; a hot die stops; down means off |
| Management protocol (`mgmt_protocol/bitaxe_raw`) | next id, mutex, stream | request with timeout | USB serial | an answer after its timeout | nobody takes another's answer; requests end |
| Extranonce2, templates, headers, pool formats | values | split, iterate, splice, swap, encode | - | widths, byte orders, rounding | parts are a partition; the pool rebuilds what was hashed |
| Estimator, alarm (`types/`) | samples and total; state and timer | record, prune, ask; check, reset | - | a total beside its queue; boundaries of a timer | the estimate is that of the window; one trigger per episode |
| Serial transport (`transport/serial.rs`) | termios, atomic copies of the configuration, counters | open, read, write, change rate | tty | two setters interleave; a drain before the change | the copy says what the line does; bytes leave at their rate |
| LEDs, API views, CLI, TUI, settings, display, tools | see `components` in `PROJECT.json` | | | | not modelled (section 6) |

## 2. Modules

| module | models | lines of code behind it |
|---|---|---|
| `Scheduler` | `Scheduler::run` and what it calls, its environment at the other end of the channels | scheduler.rs, job_source/messages.rs, asic/hash_thread.rs |
| `BM13xxThread` | the actor of thread.rs with `ChipJobTracker`, between scheduler and chip | thread.rs, hash_thread.rs |
| `Nano3s` | API checks, worker, shim and stage 6 composed | nano3s.rs, api/v0.rs, nano3s_ipc_shim.c, rtos_core/src/main.c |
| `JobSource` | abstract: what any job source promises the scheduler | job_source/messages.rs |
| `StratumV1` | the v1 source, its client task, a connection and a pool; refines `JobSource` | job_source/stratum_v1.rs, stratum_v1/ |
| `StratumV2` | the v2 source of a device | job_source/stratum_v2.rs |
| `NanoPool` | the pool, extends `StratumV2` with its other end; the device refines `JobSource` | nano-pool/src/main.rs |
| `Daemon` | tasks and channels around one source: dummy, plain, or behind the wrapper | daemon.rs, forced_rate.rs, dummy.rs |
| `Backplane` | backplane, USB monitor, pattern matching | backplane.rs, transport/usb.rs, board/pattern.rs |
| `JobData` | extranonce2 ranges, version bits, merkle climb | extranonce2.rs, job.rs, merkle.rs, version.rs |
| `ShareHeader` | extends `JobData`: from the pool's job to the header hashed and back | nano3s.rs, both sources, cpu_miner, thread.rs |
| `PoolFormats` | coinbase, branch, targets, bits, addresses | nano-pool/src/main.rs |
| `ChipProtocol` | frame decoder, registers, commands, ticket mask, PLL | protocol.rs, thread.rs |
| `ControlChannel` | requests, ids and timeouts | mgmt_protocol/bitaxe_raw |
| `Peripherals` | number formats, temperatures, fan | pmbus.rs, pmbus_types.rs, emc2101.rs, tmp451.rs, tmp1075.rs |
| `Bitaxe` | Bitaxe board with its regulator and reset line; emberOne/00 | bitaxe.rs, tps546.rs, thread.rs, emberone00.rs |
| `CpuMiner` | handle and mining loop | cpu_miner/ |
| `Monitors` | hash-rate estimator, debounced alarm | types/ |
| `Serial` | the port, several tasks that set its rate, the tty | transport/serial.rs |
| `MC*` | the instances TLC checks; `MCBench` runs the smaller components side by side | |
| `SchedulerProofs`, `BM13xxProofs`, `Nano3sProofs`, `StratumProofs`, `NanoPoolProofs` | theorems about the module of that name, for every value of its constants | |
| `HardwareProofs` | the same for `Bitaxe`, `Serial` and `CpuMiner` | |
| `FormatProofs` | the same for `Peripherals`, `PoolFormats` and the registers, commands, ticket mask and PLL of `ChipProtocol` | |
| `BenchProofs` | the same for `Backplane`, `JobData`, `ShareHeader`, `Daemon`, `ControlChannel`, `Monitors` and the decoder of `ChipProtocol` | |

**Scheduler.** An iteration of `run` is two steps: a branch of the `select!`
(`phase = "select"`), and `handle_thread_disconnections` (`phase = "detect"`).
Between them no other branch runs, but the environment may move, as it can in
the code at every await. Each handler is one action with everything it calls:
`AssignJobToThreads` includes the early return for an empty table, the
invalidation of a ReplaceJob, the hand-over with any subset of live threads
accepting, and the caching of the job; `HandleExpectedHashRate` includes the
cached jobs, the gate and the broadcast. `PollReap` and `PollShareEnd` are what
polling a `StreamMap` does without any branch firing. A task is named by source,
job and thread; the aggregate hashrate is the function it is the sum of, so two
different situations never have the same total by accident. History variables:
`validFrom` (the oldest job not made void), `refused`, `early`, `timedOut`,
`sent`.

**BM13xxThread.** A branch of the actor is atomic except for the one await in
which somebody else can change what it sees: the send of a share
(`pc = "send"`). A nonce carries the work the chip really hashed, which the
thread cannot see; the hash of the rebuilt header meets the target iff the
tracker entry is that work (`MeetsTarget`). The scheduler's side is in the
module because the wait is mutual: while it awaits a reply it reads no shares.
That can be for ever: `Deadlocked` is the state, and the liveness properties
except it and nothing else.

**Nano3s.** One worker pass is read, clear, apply, drain, nonces, status; the
read and the truncation of the control file are two steps, and so are the two
flash writes of a mode switch, because a crash may fall between them. Messages
go through a queue to `Deliver` (`stage6_recv_handler`), which keeps the newest
of each kind; `RtosFlags` and `RtosApply` are the two halves of a pass of
`stage6_worker`. Voltages are real millivolts, and `Quantised` is the DC/DC
controller's grid (26 mV steps from 3600 mV, counted towards zero). A share is
sent with `blocking_send`: `PollNonce` waits while the channel of its task is
full (`full`), and the whole worker with it; `ShareTaken` is the scheduler's end
and has no fairness. Assumed:
`nano3s_ipc_open` returns (it blocks until it does), file writes succeed,
readings of the power monitor are unrelated to the voltage, and the 5 s sleep
of `resume_from_idle` outlasts the RTOS's 200 ms tick (`Settled`). On a
relaunch of the process the stage-6 cycle starts anew but its persistent pause
does not; a reboot keeps only the flash.

**JobSource, and what refines it.** A source is in a session or in none. It
offers jobs of its session only, and a new session begins only when every job of
the earlier ones has been withdrawn (`Standing = {}`) by a ClearJobs already
queued. `StratumV1!Source` maps `up` to the connection while `run` is in its
loop, `out` to the events on the channel and `has` to the sessions of the jobs
the scheduler holds; `StratumV2!Source` does the same. Both are checked as
`ImplementsJobSource`.

**StratumV1.** Three processes: the source (`src`), the client task (`pc`: the
request it is in, or its main loop) and the pool. A request handles the
notifications it meets while it waits for its id; a response of another id is a
stray. `ReadPart` is a `read_line` that holds part of a line when a `select!`
or a timeout drops it: the rest of the line is garbage (`lost`). The pool may
answer late, refuse, send garbage, notify in every phase and close; its
difficulty is history (`poolDiff`, `announced`), against which templates are
judged. `Prompt` (TRUE in the run) assumes that the scheduler takes ClearJobs
before a backoff of at least a second ends. How often the environment acts is a
budget chosen in Init.

**NanoPool.** The refresher, the handler of one device and the device are
interleaved at the pool's lock scopes: opening a channel takes the lock three
times and is three steps. The refresh broadcasts job and previous hash, which a
handler may miss when the ring is full (`lagged`). Difficulties are numbers,
`Block` solves a block.

**Daemon.** A task is running or waits for room (`"send"`); a wait is inside a
`select!` arm and sees neither the token nor other channels. It fails when the
reader has gone. `Jammed` is the state in which two neighbours wait at each
other with both channels full; the code makes it unlikely (100 events, 10
commands) and the liveness properties except it.

**Backplane.** The USB monitor makes a list while hotplug events queue up; the
backplane starts a board per connect, puts its threads into the scheduler's
registration channel (`regs`) and sends the completion signal when every
transport has sent its own. `run` waits inside a board's life too, so creating it
(which may fail), registering its threads, keeping it in the map and stopping it
are steps (`work`), between which transports go on and the daemon may drop
`run` (`DaemonEnds`): the board in hand is then in no map and nobody stops it
(`cut`). Patterns are matched over two string fields.

**JobData, ShareHeader, PoolFormats, ChipProtocol, Peripherals.** Algorithms,
over words of a few digits whose base and number are constants, checked for
every input of that width against a definition of what they should compute. A
hash is the tuple of what is hashed, so two headers are equal iff every part is.
`ShareHeader` follows one share from the pool's job through template, chip or
CPU and submission, for the three boards and two protocols, with the byte swaps
in between. The decoder in `ChipProtocol` works on a stream of frames, broken
frames and noise bytes that arrives in chunks; a checksum is right for a whole
frame and wrong for anything else. PLL frequencies are quarters of a megahertz,
in integers: the feedback divider is that of the code's `f32` rounding for them.

**ControlChannel.** Requests carry a number modulo `Ids`; twice as many numbers
as ids tell an old answer from the right one. Taking the mutex, the write and
the answer are three steps; only the last has a timeout. The write may fail, and
waits for good once the device has stopped reading (`hung`). The device answers
in order, perhaps late, and loses requests when it is full, or now and then.

**Bitaxe.** Every step of the factory and of the shutdown is a write that
succeeds, or fails with or without effect. The reset line is shared by factory,
monitor and hash thread. `since` is the state of `enabled_since` with
DIODE_SETTLE.

**CpuMiner.** The loop is split where it can be interrupted; it looks at
commands every `CmdEvery` and at the clock every `ClockEvery` hashes.

**Monitors, Serial.** Integer clocks; the two stores of `set_baud_rate` are
steps, the mutex among them.

## 3. Runs

A property in **bold** is checked by the run; where it is the conjunction of
named parts, the parts follow in brackets.

| run | instance | shows |
|---|---|---|
| `scheduler_jobs` | 2 threads (symmetric), 1 source, 2 jobs, channels of 1 | **TypeOK**, **TablesAgree** (TasksHaveThreads, ChannelsHaveTasks), **OnlyValidWork** (TasksAreValid, SubmitsOnlyValid), **EligibleThreadsHaveWork**: 1.3 M states |
| `scheduler_gate` | 2 threads, 2 rates, 1 source that may leave, no jobs, fairness | **SourcesToldCurrentRate**, **GateWaitedForThreads**, **GateEventuallyOpens** |
| `thread_ids` | tracker of 3 slots, 3 tasks, 2 rolls, 2 nonces on the link, 1 failed write | **NoncesMatched** (TypeOK, RecentNoncesAttributed, StaleNoncesUnknown), **SharesAreOfValidTasks**: the ids run round more than once |
| `thread_live` | updates, replacements and idling, 2 slots, 2 rolls, channel of 1, 1 failed write, fairness | **ThreadProgresses** (CallsReturn, RemovalEndsThread), with `Deadlocked` as the one exception |
| `nano3s` | scenario *power*: flash left in bypass at 4000 mV, two modes and a tune at 3900 mV, above stock mode's range, one restart of either kind; *jobs*: 3 tasks and idling; *pauses*: 2 tasks, a pause, a resume and a relaunch; sends fail in all, history and nonce queue of 2 | **VoltageInModeRange**, **ChainWorksOnTask**, **NoncesKnown** (TypeOK, NoncesAttributed): 1.35 M states |
| `nano3s_follow` | scenario *follow*: 3 directives of pause, resume, tune, target; one loop step; *outlive*: 3 pauses and resumes and a relaunch; sends succeed; fairness | **ChainFollows**, **ManualVoltageKept**, **ChainComesBack** |
| `stratum` | one budget each for: two connections with jobs and a share; notifications in every phase with two faults; late answers to two shares; a difficulty during a submit; three attempts; three hashrates around the deadband | **SharesStayWithSession** (SharesToOwnSession, CountedWereAccepted), **TemplatesMatchPool** (SourceTypeOK, TemplatesOfTheirSession, TemplatesAtPoolDifficulty), **SourceProgresses** (DeadSessionCleared, LatestRateSuggested), **ImplementsJobSource** |
| `pool` | one limit each for: a reconnection, shares against refreshes, tips and retargets, the throttle, a broadcast ring of 2 that overflows; one past job | **CurrentWorkIsKnown**, **GivenJobsAreRight** (NanoTypeOK, JobsOnTheirTip, GivenJobsHavePrefix), **DeviceFollows**, **ImplementsJobSource** |
| `bench` | the other components, one at a time (`bench` picks it), see below | |
| `template_branch` | blocks of 0 to 9 transactions | violates **BranchYieldsRoot** |
| `control_desync` | one late answer, fairness | violates **RecoversFromTimeout** |
| `resume_task` | scenario *pauses* with sends that succeed | violates **ResumeAppliesTask** |

`bench` in detail (405 000 states in all):

* *daemon*: 2 events and 2 commands over channels of 1, three wirings.
  **RingDelivers** (EventsInOrder, which also says that a job is forced to the
  rate the wrapper knows; EventsArrive), **RingEnds** (ShutdownCompletes,
  WrapperFollowsSource).
* *backplane*: two plugs of one serial number, three configurations of
  transports, factories that fail, the daemon's end anywhere; *patterns*: any two patterns and a device. **BoardsAccountedFor**
  (CompletionComesLast, EachPlugOnce, NoBoardLeftOn, MostSpecificWins).
* *ranges*: words of 4 digits of base 2, splits up to 4 ways. **RangesExact**
  (SplitPartitions, IteratorCovers).
* *headers*: every extranonce2 size, mask, version and nonce over the small
  words, three boards, two protocols. **SharesRebuilt** (Nano3sSharesRebuilt, OtherSharesRebuilt).
* *formats*: heights over two byte boundaries, blocks of up to 9 transactions,
  every difficulty up to 80. **FormatsRight** (CoinbaseWellFormed,
  BranchClimbsToDigest, BitsDecode, BestShareIsFloor, TargetNeverEasier,
  PayoutKeepsBits).
* *chips*: streams of up to 3 segments of frame, broken frame or noise, in any
  chunks: **FramesSurvive**. Every register value and command, difficulties of 6
  bits, the ramp from 56.25 to 525 MHz, frequencies up to 800 MHz:
  **ChipFormatsRight** (RegistersRoundTrip, CommandsWellFormed, TicketMaskLoses,
  RampIsSmooth, SearchesAgree).
* *control*: 3 ids, a device that holds 2 requests, 1 late or lost answer or
  failed write, a device that may stop reading.
  **RequestsSettle** (OwnAnswer, RequestsEnd).
* *peripherals*: formats of 2 + 5 bits, values on both sides of every limit, 11-bit temperatures with both codes
  of a broken diode, every duty. **PeripheralsConvert** (FormatsRoundTrip,
  ReadingsAreClose, FanReadsBack).
* *bitaxe*, *ember*: limit of 3 bad readings, 2 bring-ups of the chip.
  **BoardStaysSafe** (OutputProtected, DownMeansOff, QuietAfterReboot),
  **HotDieStops**.
* *cpu*: 6 nonces, commands every 2, clock every 4 hashes, channel of 1, 3 tasks.
  **CpuWorkIsCurrent** (SharesOfCurrentTask, HashesOnce, TasksHandedBack),
  **CpuProgresses** (CpuCallsReturn, DropEndsLoop).
* *estimator*, *alarm*: window and debounce of 2, 2 samples, clock up to 4.
  **MonitorsExact** (EstimateIsOfWindow, TriggersOncePerEpisode,
  LongConditionsTrigger).
* *serial*: 2 setters, 2 rates, a transmit queue of 1. **LineAsConfigured**
  (ConfigMatchesLine, BytesLeaveAtTheirRate).

**Why the bounds are enough.** Capacities are parameters (16 slots, 32 shares,
64 nonces, 4 jobs in the code); the runs make them so small that every limit is
met: ids run round, share channels fill, the nonce queue drops, the history
forgets, the broadcast ring overflows. Two threads are the smallest number for
which one masks another; two jobs let one void the other, before, between and
after the threads' reports. Two rates tell a stale total from a current one.
Two directives and a restart suffice for every order of tune, switch and crash
and for a pause, a task under it and a resume; three allow pause, change while
paused, resume, and a pause after one that outlived the process. Two connections are enough for a
share to cross from one to the next, two shares for an answer to meet the wrong
one. The words of the algorithms keep what matters of their width: a full range,
a carry, a field that overflows. What the bounds leave open for the
safety properties, the proofs close (section 4).

**Deadlock** is checked for Scheduler and Nano3s, whose loops never stop. It is
not for BM13xxThread, whose actor may have left its loop, nor for StratumV1,
NanoPool and MCBench: when the environment's budget is spent, the tasks have
ended or an algorithm's input has been handled, nothing more is to be done.

**Mutants.** Each property of a passing run has a mutated definition of the
model, a plausible slip in the lines behind it, that breaks it (`mutants` in
`PROJECT.json`; the operators marked *mutant* in the modules are used by nothing
else).

**Fairness and why the code has it.**
* Scheduler: weak fairness of the disconnect check and of the tick (the loop
  awaits nothing for ever in these actions); strong fairness of the gate's
  timeout and of the registration channel, because an elapsed `sleep_until`, or a
  queued message, stays ready and `select!` starts polling at a random branch.
* BM13xxThread: weak fairness of a send that has room and of the error return;
  strong fairness of commands, nonces and removal (again the random `select!`),
  and of the scheduler's reading of each channel. Nothing is assumed of the
  chip, of the ntime timer, of the board or of which calls are made.
* Nano3s: weak fairness of the worker loop, of the receive thread and of the
  RTOS worker, three threads that sleep and loop. Nothing of the operator, of
  tasks, of restarts, of the power interval or of the scheduler's taking of
  shares: a worker that waits for room may wait for good, which is not one of
  its steps.
* StratumV1: weak fairness of the source's loop, of the client's loop, of the
  cooldown timer and of the scheduler's taking of events: the runtime polls a
  task that is ready. Nothing of the pool.
* NanoPool: weak fairness of handler and device; nothing of the refresher.
* MCBench: weak fairness of tasks and timers. Of devices only the control
  channel's: it answers the requests it has taken, some time. A write is fair
  while the device has not stopped reading.

## 4. Proofs

`SchedulerProofs` (for any finite set of threads, any sources, rates, numbers of
jobs and channel lengths):

* `TypeCorrect`: `Spec => []TypeOK`.
* `TablesConsistent`: `TablesAgree`. Its parts are
  inductive together with the types (`TableInv`): a task is added only for a
  thread of the table, removed with its channel, and the disconnect check drops
  thread and tasks in one step.
* `NothingVoidSubmitted`: `OnlyValidWork`. Not inductive:
  a queued event could be older than an invalidation. `ValidInv` adds that the
  events a source has queued are in the order of its jobs, none older than the
  last invalidation handled, that the cached job is valid and that no share is
  in hand between iterations. The early return on an empty thread table is
  covered by `TableInv`: no thread, no task.
* `NoEligibleThreadForgotten`: `EligibleThreadsHaveWork`, with the fact that an
  unregistered source has no cached job (`WorkInv`).
* `ToldIsCurrent`: `SourcesToldCurrentRate`, inductive with the types.
* `GateIsComplete`: `GateWaitedForThreads`. The counters count threads that may
  have gone; `GateInv` says that `reported` plus the number of threads still
  silent is at most `registered`, which needs each thread to be registered once
  (`RegisteredOnce`), and uses the library's theorems on cardinality.

`Nano3sProofs` (for any directives, readings, flash contents and bounds the
constants' assumption allows):

* `PowerTypesHold`: the types of directives, files, messages, worker and RTOS
  through failing sends and restarts.
* `LatchedVoltageInRange`: `VoltageInModeRange`, for every directive the API
  accepts. The latched voltage is in the active mode's range, or it is the raw
  voltage of the operator's last tune in this mode and session (`raw`), which is
  what the `tune:` arm without a clamp makes possible, and all (section 5). The
  interesting cases are the loop, which steps from a status of any age, and a
  start on the files of a half-finished mode switch: both end in a clamp to the
  active mode.
* `RawVoltageStands`: without restarts, `ManualVoltageKept`. `HandInv` ties the
  history variable to the worker's override flag.
* `NoncesOfKnownJobs`: `NoncesKnown`. `HistoryInv` follows a job id from the
  worker to the chain and back as a nonce: in a message, pending, at work and in
  the nonce queue it is in the history, or the history is full of newer jobs.
* `ChainFollowsWorker`: if the scheduler does not idle the chain and sends
  succeed (`Undisturbed`), `ChainFollows`. `FollowInv` says what is still to
  come: the last clock and the last voltage among the messages under way, those
  pending and those applied, in this order, are what the worker latched, and no
  resume goes by without a clock behind it. Without the hypothesis the code does
  not promise it (section 5).
* `ChainWorks`: `ChainWorksOnTask`, with pauses of the operator and every other
  step. The job to come, in the same sense, is of the worker's task
  (`WorkInv`), unless a pause has come since the last task was sent (`unsent`):
  then nothing is to come (`NothingComing`) or the newest job is
  (`NewestComing`), whichever messages were lost. An older job never comes back.

`BM13xxProofs` (for any number of slots, tasks, rolls and faults):

* `NoncesAreMatched`: `NoncesMatched`, types included. An id is the number of
  its insert modulo `Slots`, so the entry of one of the last `Slots` inserts is
  its own or was cleared (`JobsPlaced`).
* `NoStaleShareIsSent`: `SharesAreOfValidTasks`. Every task the actor can still
  reach is at least as new as the last that replaced the others
  (`ReachableValid`), which needs at most one task in the command channel
  (`OneCallQueued`): the scheduler awaits each reply.

`StratumProofs` (for any pool, rates, masks and budgets):

* `StratumIsAJobSource`: `ImplementsJobSource`. A step maps to a step of
  `JobSource` or to a stutter; the step that makes a connection needs that
  everything has been withdrawn (`SessionInv`: outside a connection the last
  event queued is ClearJobs, or the scheduler has nothing).
* `SharesKeepTheirSession`: under `Prompt` (section 2), `SharesStayWithSession`.
* `CountedByOwnAnswer`: its second part without the hypothesis. Request ids only
  grow, so no late or repeated answer has the id of the request under way
  (`AnswerInv`).
* `TemplatesAreThePools`: `TemplatesMatchPool`. The invariant is about an order:
  wherever an announced job is, on the line, among the client's events or in the
  source, the last difficulty before it is the one the pool had when it announced
  the job (`TellInv`), and the source has a protocol state to keep it in
  (`ReadyInv`).

`NanoPoolProofs` (for any number of past jobs, difficulties, capacity of the
broadcast and number of connections, tips, refreshes, shares and windows):

* `PoolDeviceIsAJobSource`: `ImplementsJobSource`, as for v1.
* `CurrentWorkStaysKnown`: `CurrentWorkIsKnown`. Known jobs are the last ones and
  consecutive (`Numbered`). Not inductive without the messages: a tip and a job
  meet at the device, so every job on the wire fits the tip in effect and every
  tip before it, where "fits" is that the tip is past or the pool can judge a
  share of the two (`MsgInv`), and so does the work on its way back (`WorkInv`).
* `GivenJobsStayRight`: `GivenJobsAreRight`. For a job sent to be worked on at
  once the last tip before it must be its own, in the broadcast (`QueueTips`) and
  at the device behind connection and broadcast (`LineTips`), from the initial
  job on. That job starts it: before, the device has neither tip nor job of the
  session (`Quiet`), since the handshake opens the channel once (`Handshake`).

`HardwareProofs`:

* `BoardsStaySafe`: `BoardStaysSafe`, for any limit of bad readings and number of
  bring-ups; limits, once written, are written before every later step.
* `LineStaysAsConfigured`: `LineAsConfigured`, for any set of tasks, rates, queue
  and settings left on the tty. Between a setter's read and its store nobody
  else is there (`OneSetter`), so what it read still stands (`SettingsKnown`).
* `CpuWorkStaysCurrent`: `CpuWorkIsCurrent`, for any nonce space, channel length
  and number of tasks, and any rhythm in which looks at the clock are looks at
  the commands too. No nonce twice is the deep part: the nonces tried lie right
  behind the next one (`TriedBehind`), and the loop ends a cycle while there is
  room for as many hashes as may pass before it looks again (`RoomLeft`); both
  count with the library's theorems on cardinality.

`FormatProofs` (conversions without state, for words and fields of any size):

* `PeripheralsKeepMeaning`: `PeripheralsConvert`. Round trips are division with
  remainder (`Division`), the two's complement of a field splits at its sign bit and
  at the span its mantissa is beyond it, which is how far SLINEAR11 is off
  (`Wraps`), and no rounding of a duty leaves its range.
* `ChipsAreToldRight`: `ChipFormatsRight`. A register is the number its digits
  make, and each digit is read back; the length of a command is the sum of its
  layout, whose fold is followed in whatever order it takes the fields
  (`FoldsToTotal`). A mask of e bits passes exactly the hashes below 2^(W - e)
  (`MaskFilters`), so no ticket mask loses a share. The PLL divisors have the
  least error because a smaller one would have a smaller integer `Weight`; each
  step of the ramp raises the clock (`RampKept`), as the step (more than 8 in the
  model's unit) is larger than the errors of two settings.
* `PoolIsDecoded`: `FormatsRight`, for bytes of 4 to 8 bits and targets, heights,
  tags, trees and difficulties of any number. What holds of zero and of each
  successor is climbed up to a bound (`NatClimb`): a recursive function is a row of
  steps (`Recursion`), so values of bytes are followed digit by digit
  (`ValueSteps`). A height is the sum of its digits (`HeightBytes`,
  `HeightsReadBack`). Every row of a merkle tree is shorter than the one below it
  and begins with the pair of its first two hashes (`RowUp`), so the tree ends and
  the branch climbs along the first hash of each row (`BranchesClimb`). A compact
  target is its mantissa shifted by whole bytes, of which those that fall off the
  end are the remainder (`BitsMeant`). The bytes before the first that is not zero
  contribute nothing, and a value stays between two powers as bytes follow
  (`BestShareKept`). Eight groups of 5 bits are 5 bytes and leave nothing over
  (`BytesAre`); inputs are that one period long, so the theorem, like the run,
  speaks of 8 groups where the code reads 34.

`BenchProofs`:

* `BoardsStayAccountedFor`: `BoardsAccountedFor`, for any finite set of plugs,
  serial numbers, transports and patterns. The list of the start and the hotplug
  events overlap; `KnowsBus` says that the devices the monitor knows, with the
  events still queued applied, are those on the bus, `StreamOrder` and
  `InitialFirst` that completion stays behind the boards of the list in every
  queue it passes, and `Held` where each board a factory made is now: in the map,
  in hand, off, replaced or cut off.
* `RangesStayExact`: `RangesExact`, for words of any base and size, any range and
  number of threads. A split is a recursive function (`SplitStarts`); that part
  `i` begins where the parts before it end is shown for the least part for which
  it fails.
* `EventsStayInOrder`: the safety half of `RingDelivers`, for channels and events
  in any number. Received first and source last, the events in the ring are
  numbered without a gap (`Numbered`); only a wrapper that gave up leaves one.
* `AnswersAreOnesOwn`: the safety half of `RequestsSettle`. An answer to an old
  request could only be taken for the one that waits when as many requests lie
  between them as there are ids, and age and place in the line of any answer are
  bounded by the number of timeouts (`NoOlderThanTimeouts`). A request
  whose write fails stays in the writer's buffer and is sent with the next one, so
  it counts as one of them. The hypothesis that fewer requests fail unanswered
  than there are ids (256) is `ControlConstants`.
* `MonitorsStayExact`: `MonitorsExact`, for windows, queues and debounces of any
  size. The queue is the tail of what was recorded that prunings and the limit
  left (`EstInv`); the alarm's state tells since when the condition has held at
  every check (`AlarmInv`).
* `NoFrameIsLost`: `FramesSurvive`, for frames and streams of any length in any
  chunks. Buffer and wire together are at every moment a stream as it may have
  been sent, whose good frames are whole (`WellSent`); a good frame is delivered
  or in it (`AllDue`), never both (`DeliveredOnce`). Whatever the decoder skips
  begins no good frame, because a checksum is right for whole frames only.
* `SharesStayRebuilt`: `SharesRebuilt`, for words of any base and even number of
  digits, any version, mask, nonce and size of extranonce2: the header hashed, and
  for boards other than the Nano 3S that header with its nonce reversed.
  `HeaderInv` says how
  header and share came from the job; what is left is arithmetic, that the digits
  of `high * Byte^Half + low` are those of `low` followed by those of `high`.

The library's induction on natural numbers takes an operator, which the provers
cannot instantiate; where a proof needs induction, also over the recursive
functions of these modules, it takes the least counterexample (`NatMin`).

The assumptions on constants are the `ASSUME`s of the modules: capacities are
natural numbers, positive where the code allocates a channel of that size; the
operator's directives are those the API accepts; the CPU miner looks at
the clock at multiples of its looks at the commands, 10000 and 1000 hashes in
the code; the plugs are finitely many and none is named like a transport or the
end of the list; powers of the base of a word are positive and those of a sum
are products, which is arithmetic, but `^` means nothing to the provers; `None`
is none of the values it stands beside; heights of the pool fit four bytes, which
Bitcoin's reach in some 80000 years. A temperature field is wide enough for
128 degrees, as all the chips' are. `RampReachable` says that every frequency of
the ramp has a PLL setting; it holds for the code's own numbers, for which TLC
evaluates it, and not for all numbers.

**Only model-checked**:

* liveness, which is out of the prover's reach: `GateEventuallyOpens`,
  `ThreadProgresses`, `ChainComesBack`, `SourceProgresses`, `DeviceFollows`,
  `RingEnds`, `HotDieStops`, `CpuProgresses` and the liveness halves of
  `RequestsSettle` (`RequestsEnd`) and `RingDelivers` (`EventsArrive`).

Every safety invariant and action property of a passing run is proved.

## 5. Where code and text disagree

Shown by a run (quotes in `findings`):

1. `template_branch`: `fetch_template_std` passes the ids of the transactions to
   `coinbase_merkle_branch`, which takes the first for the coinbase; a block
   with transactions gets a wrong root.
2. `control_desync`: after one late answer every request reads the answer to the
   one before it and fails; the channel never recovers.
3. `resume_task`: a task that arrives while the operator has paused a Nano 3S is
   kept, by the comment to be applied on the resume (nano3s.rs:2228), but the
   resume sends clock and voltage only (:2031); the chain has no work until the
   next task.

Shown by a property that says exactly what the code does instead:

* BM13xx `update_task` and `go_idle` with a full share channel: thread and
  scheduler wait for each other for ever. `ThreadProgresses` excepts that state,
  `Deadlocked`. The CPU miner can do the same (`CpuCallsReturn` excepts it).
* Nano 3S: the comment on the ranges, "Inclusive voltage clamp applied to every
  commanded voltage in this mode: live tuning commands, ..." (nano3s.rs:313), and
  the API's (v0.rs:203), do not hold of the `tune:` arm, which sends and latches
  any value from 3000 to 4095 mV (:2130). `VoltageInModeRange` allows the
  operator's last raw voltage, and nothing else, outside the range.
* Nano 3S: a pause that outlives the miner cannot be ended by `resume` alone;
  `ChainComesBack` excepts it (`left`).
* Backplane: the daemon's end may drop `run` while it creates, registers or stops
  a board (daemon.rs:101), and that board stays on; so does one whose serial
  number a later board takes (backplane.rs:197). `NoBoardLeftOn` says that there
  are no others.
* Control channel: "Send a raw packet and wait for response" has a timeout for the
  response only (channel.rs:63); the write before it (:59) holds the mutex for as
  long as the device does not read. `RequestsEnd` excepts it.
* Shares: `share_to_submit_params` and nano-pool swap the nonce of every board
  (stratum_v1.rs:403, main.rs:1120), as the Nano 3S needs it (nano3s.rs:765). The
  comment at stratum_v1.rs:399 says that this lands on the bytes our own hash
  verification expects, the test at :997 expects the nonce as it is.
  `OtherSharesRebuilt` says that the nonce of the other boards arrives reversed.
* Peripherals: `linear11::from_float` flips the sign of a value whose mantissa
  rounds up to 1024, and wraps what is beyond its range; `FormatsRoundTrip` says
  by how much. The typed variant has an unsigned mantissa and makes negative
  values 0.
* Estimator: its comment says that the rate is `total_work / window_duration`
  (hashrate_estimator.rs:23); the code divides by the span of the samples (the
  module's own comment at :8 does say so), and `EstimateIsOfWindow` follows the
  code.

Shown by an instance of `Scheduler` that is no longer kept as a run:

* A thread that ends while another registers is never noticed;
  `last_thread_count` is overwritten by the registration (scheduler.rs:694,
  :784).

Seen while modelling, without a run:

* Scheduler: the disconnect check broadcasts a partial hashrate although the
  gate is shut (scheduler.rs:795; the gate's purpose at :1058), so
  `SourcesToldCurrentRate` is stated past the gate. ClearJobs leaves the threads
  hashing the void job; `go_idle` has no caller (:499, messages.rs:139). The
  task table grows under a long run of UpdateJob: an ended share channel is
  dropped, its entry is not (:488; modelled by `PollShareEnd`).
* BM13xx: `go_idle` does not stop the chip (thread.rs:775, hash_thread.rs:222),
  and removal has no priority, since the `select!` is not biased (:637). A task
  whose write to the chip failed is refused, yet stays current and is rolled
  (:695); its closed channel blocks nothing (`RemovalEndsThread`).
* Nano 3S: the stock trip of 120 W is inactive without a target (nano3s.rs:2356,
  :260), and a target may be accepted above the trip (:339, :330); a failed
  power reading counts as 0 W and raises the voltage (:2374, :1100); the control
  file loses directives written before the last one was read or while it is
  being truncated (:1269, api/v0.rs:167); a resume followed by a pause within
  one RTOS tick leaves the chain running (main.c:1856, :1848), which is why
  `ChainFollows` speaks of a worker that has not paused; a resume from
  `go_idle` leaves the clock at 100 MHz (nano3s.rs:2236, :1978), which is why
  `nano3s_follow` does not idle; the override is not on flash (:1998, :2136);
  the step that avoids 3600 mV does so off the 26 mV grid (:2387, :553); a mode
  switch latches what a failed send did not deliver (:2077), which is why
  `nano3s_follow` has sends succeed; the worker sends shares with `blocking_send`
  (:2316), so a full channel holds up commands, status and safety trip, and for
  good while the scheduler waits for this worker's answer.
* Stratum v1: refused credentials after an early notify end the source without
  ClearJobs; a set_difficulty before the protocol state exists is lost
  (stratum_v1.rs:320), which is why `poolDiff` counts from the subscription; a
  dropped `read_line` loses part of a line (connection.rs:89);
  client.reconnect inside a request is swallowed (client.rs:182).
* Stratum v2: the backoff neither resets nor drains commands; the throttle may
  drop a share that solves a block (stratum_v2.rs:116); the pool reports a
  cumulative count of accepted shares that the device adds up (:166).
* nano-pool: past jobs are cleared before the job of the old tip is pushed
  (main.rs:779); vardiff changes `current_diff` without a SetTarget (:1396); an
  unchanged template skips the pause of the loop (:748); the branch is reversed
  to display order on the standard path; a block is submitted with a transaction
  count of 1; heights whose top byte is 0x80 or more are pushed without the byte
  that keeps them positive; jobs broadcast before the channel opened are
  forwarded after it.
* Wire protocol: `Ok(None)` after a noise byte leaves a whole frame in the buffer
  until more bytes come (protocol.rs:1161); 1 Mbaud is not decoded to itself, and
  the core register is written and read in different byte orders, both excepted
  by `RegistersRoundTrip`; a custom rate may read back as a named one of the same
  value, and nothing sets one; the mask of a difficulty of 2^32 or more would
  shift a u32 by 32 (:344), but the only one the program sets is about 232
  (thread.rs:626); 141 of the quarter-megahertz frequencies between 50
  and 800 MHz have no PLL setting, the first 436.5, and `calculate_pll` then
  falls back to its default without a word. The BM13xx rolls its whole version
  region whatever mask the pool allows (thread.rs:288).
* Backplane: a USB disconnect shuts down the first board of the map, "For
  single-board setups this works fine." (backplane.rs:257); a transport that ends without completing keeps the
  scheduler's gate closed (:130).
* Bitaxe: a factory that fails after the voltage came on leaves it on; a thread
  inside `initialize_chip` may release reset after the shutdown; repeated
  bring-ups restart DIODE_SETTLE, which is why `HotDieStops` asks for a settled
  diode.
* Estimator: `settled_hashrate` asks whether it is settled before it prunes, and
  returns 0 after a silence.
* Serial: the port is never closed, and `set_baud_rate` has no caller yet.

## 6. Not modelled

* Numbers: 256-bit integers and floating point as such; the algorithms on them
  are modelled over short words.
* Text: JSON, Noise, checksums, log lines, telemetry.
* Shutdown inside scheduler, sources and threads, beyond `Daemon`.
* I/O: udev, LEDs, displays, flashing tools, the node's RPC.
* Views: API answers, status logging, dashboards, CLI, TUI. They change nothing
  the modelled parts read.
* rtos_core stages 1 to 5 and its drivers: register sequences run once per boot.
* Vendored code (lvgl, doom).

## 7. Plan

Done: the models and runs of section 2 and 3; the proofs of section 4.

Next: the parts section 6 leaves out.
