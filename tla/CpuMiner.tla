------------------------------ MODULE CpuMiner ------------------------------
(***************************************************************************)
(* A CPU hash thread: the scheduler's handle (cpu_miner/thread.rs) and the *)
(* mining loop in a thread of its own (cpu_miner/hasher.rs).  The loop     *)
(* looks at the clock and at its commands only every so many hashes, and   *)
(* blocks while a task's share channel is full.  A cycle of work and sleep *)
(* takes a second, so that each one moves ntime.                           *)
(*                                                                         *)
(* Only the time since the task or its ntime changed is told apart.        *)
(***************************************************************************)
EXTENDS Naturals, Sequences, FiniteSets

CONSTANTS
    CmdEvery, ClockEvery, \* hashes between looks at the commands (1000) and the clock (10000)
    NonceSpace,  \* nonces (2^32)
    CpuShareCap, \* shares a task's channel holds (32)
    MaxCpuTasks  \* bound: tasks the scheduler hands out

ASSUME CpuConstants ==
    /\ {CmdEvery, ClockEvery, CpuShareCap} \subseteq Nat \ {0} /\ ClockEvery % CmdEvery = 0
    /\ NonceSpace \in Nat /\ NonceSpace >= ClockEvery /\ MaxCpuTasks \in Nat

VARIABLES
    hasher,     \* the loop: "top", "drain", "hash", "send", "sleep" or "exited"
    cpuCmds,    \* the command channel: [kind, task]
    cpuCall,    \* the call the scheduler awaits the answer of, or "none"
    cpuShut,    \* the shutdown flag
    cpuTask, cpuRoot, \* current_task, and the task cached_merkle_root is of; 0 for None
    cpuNonce, cpuHashes, \* nonce, and hashes_computed modulo ClockEvery
    cpuGiven,   \* tasks handed out so far
    cpuOpen, cpuShares, \* tasks whose channel has its receiver, shares in the channels
    cpuTried, cpuTwice, \* history: nonces since task or ntime changed; one was tried twice
    cpuBack     \* history: tasks handed back to the scheduler

cpuVars == <<hasher, cpuCmds, cpuCall, cpuShut, cpuTask, cpuRoot, cpuNonce, cpuHashes, cpuGiven,
             cpuOpen, cpuShares, cpuTried, cpuTwice, cpuBack>>

CpuInit ==
    /\ hasher = "top" /\ cpuCmds = <<>> /\ cpuCall = "none" /\ cpuShut = FALSE
    /\ cpuTask = 0 /\ cpuRoot = 0 /\ cpuNonce = 0 /\ cpuHashes = 0 /\ cpuGiven = 0
    /\ cpuOpen = {} /\ cpuShares = [t \in 1..MaxCpuTasks |-> 0]
    /\ cpuTried = {} /\ cpuTwice = FALSE /\ cpuBack = {}

-----------------------------------------------------------------------------
(* The scheduler.  While it awaits an answer it reads no shares.           *)

CpuCommand(kind, task) == [kind |-> kind, task |-> task]

\* update_task and replace_task; a replaced task's receiver is dropped first.
CpuNewTask(kind) ==
    /\ cpuCall = "none" /\ ~cpuShut /\ cpuGiven < MaxCpuTasks
    /\ cpuGiven' = cpuGiven + 1
    /\ cpuCmds' = Append(cpuCmds, CpuCommand(kind, cpuGiven'))
    /\ cpuCall' = kind
    /\ cpuOpen' = (IF kind = "replace" THEN {} ELSE cpuOpen) \cup {cpuGiven'}
    /\ UNCHANGED <<hasher, cpuShut, cpuTask, cpuRoot, cpuNonce, cpuHashes, cpuShares, cpuTried,
                   cpuTwice, cpuBack>>

CpuGoIdle ==
    /\ cpuCall = "none" /\ ~cpuShut /\ cpuTask # 0
    /\ cpuCmds' = Append(cpuCmds, CpuCommand("idle", 0)) /\ cpuCall' = "idle"
    /\ UNCHANGED <<hasher, cpuShut, cpuTask, cpuRoot, cpuNonce, cpuHashes, cpuGiven, cpuOpen,
                   cpuShares, cpuTried, cpuTwice, cpuBack>>

CpuReadShare(t) ==
    /\ cpuCall = "none" /\ t \in cpuOpen /\ cpuShares[t] > 0
    /\ cpuShares' = [cpuShares EXCEPT ![t] = @ - 1]
    /\ UNCHANGED <<hasher, cpuCmds, cpuCall, cpuShut, cpuTask, cpuRoot, cpuNonce, cpuHashes,
                   cpuGiven, cpuOpen, cpuTried, cpuTwice, cpuBack>>

\* The handle is dropped, and the receivers with it.
CpuDropped ==
    /\ cpuCall = "none" /\ ~cpuShut
    /\ cpuShut' = TRUE /\ cpuCmds' = Append(cpuCmds, CpuCommand("shutdown", 0)) /\ cpuOpen' = {}
    /\ UNCHANGED <<hasher, cpuCall, cpuTask, cpuRoot, cpuNonce, cpuHashes, cpuGiven, cpuShares,
                   cpuTried, cpuTwice, cpuBack>>

-----------------------------------------------------------------------------
(* The loop.                                                               *)

TaskAfter(c) == IF c.kind = "idle" THEN 0 ELSE c.task

RootKept(c) == IF cpuRoot # 0 THEN {cpuRoot} ELSE {c.task, 0}    \* mutant: not recomputed

\* compute_merkle_root fails for a task without an extranonce2.
RootsFor(c) == IF c.kind = "idle" THEN {0} ELSE {c.task, 0}

Answered(c) == "none"

\* A command is handled and answered; shutdown ends the loop.
HandleCommand(after) ==
    LET c == Head(cpuCmds)
    IN  /\ cpuCmds' = Tail(cpuCmds)
        /\ IF c.kind = "shutdown"
           THEN hasher' = "exited" /\ UNCHANGED <<cpuTask, cpuRoot, cpuNonce, cpuTried, cpuBack, cpuCall>>
           ELSE /\ hasher' = after /\ cpuCall' = Answered(c)
                /\ cpuBack' = cpuBack \cup ({cpuTask} \ {0})
                /\ cpuTask' = TaskAfter(c) /\ cpuRoot' \in RootsFor(c)
                /\ IF c.kind = "idle" THEN UNCHANGED <<cpuNonce, cpuTried>>
                   ELSE cpuNonce' = 0 /\ cpuTried' = {}

\* The flag is looked at, then the commands are drained.
LoopTop ==
    /\ hasher = "top" /\ hasher' = IF cpuShut THEN "exited" ELSE "drain"
    /\ UNCHANGED <<cpuCmds, cpuCall, cpuTask, cpuRoot, cpuNonce, cpuHashes, cpuTried, cpuBack, cpuTwice, cpuShares>>

Drain ==
    /\ hasher = "drain" /\ UNCHANGED <<cpuHashes, cpuTwice, cpuShares>>
    /\ \/ cpuCmds # <<>> /\ HandleCommand("drain")
       \/ /\ cpuCmds = <<>> /\ hasher' = IF cpuTask # 0 THEN "hash" ELSE "top"
          /\ UNCHANGED <<cpuCmds, cpuCall, cpuTask, cpuRoot, cpuNonce, cpuTried, cpuBack>>

LooksAtClock == cpuHashes = 0
LooksAtCommands == cpuHashes % CmdEvery = 0 /\ cpuCmds # <<>>

\* The work time is over, at the latest when the nonces are used up.
WorkOver ==
    /\ hasher = "hash" /\ LooksAtClock /\ hasher' = "sleep"
    /\ UNCHANGED <<cpuCmds, cpuCall, cpuTask, cpuRoot, cpuNonce, cpuHashes, cpuTried, cpuBack, cpuTwice, cpuShares>>

SeesFlag ==
    /\ hasher = "hash" /\ LooksAtClock /\ cpuShut /\ hasher' = "exited"
    /\ UNCHANGED <<cpuCmds, cpuCall, cpuTask, cpuRoot, cpuNonce, cpuHashes, cpuTried, cpuBack, cpuTwice, cpuShares>>

\* A command that meets the loop at work ends the cycle.
Interrupt ==
    /\ hasher = "hash" /\ LooksAtCommands /\ ~(LooksAtClock /\ cpuShut)
    /\ HandleCommand("sleep") /\ UNCHANGED <<cpuHashes, cpuTwice, cpuShares>>

NextHash == cpuNonce' = (cpuNonce + 1) % NonceSpace /\ cpuHashes' = (cpuHashes + 1) % ClockEvery

\* A nonce is tried, if the root is known, and may be a share.
TryNonce ==
    /\ hasher = "hash" /\ ~LooksAtCommands
    /\ ~(LooksAtClock /\ (cpuShut \/ Cardinality(cpuTried) + ClockEvery > NonceSpace))
    /\ IF cpuRoot = 0 THEN UNCHANGED <<cpuTried, cpuTwice, hasher>> /\ NextHash
       ELSE /\ cpuTwice' = (cpuTwice \/ cpuNonce \in cpuTried) /\ cpuTried' = cpuTried \cup {cpuNonce}
            /\ \/ UNCHANGED hasher /\ NextHash
               \/ hasher' = "send" /\ UNCHANGED <<cpuNonce, cpuHashes>>
    /\ UNCHANGED <<cpuCmds, cpuCall, cpuTask, cpuRoot, cpuBack, cpuShares>>

FullUnaware == cpuShares[cpuTask] = CpuShareCap    \* mutant: a closed channel is full too

ChannelFull == cpuTask \in cpuOpen /\ cpuShares[cpuTask] = CpuShareCap

\* blocking_send: waits for room, or drops the share with its receiver.
BlockingSend ==
    /\ hasher = "send" /\ ~ChannelFull /\ hasher' = "hash" /\ NextHash
    /\ cpuShares' = IF cpuTask \in cpuOpen THEN [cpuShares EXCEPT ![cpuTask] = @ + 1] ELSE cpuShares
    /\ UNCHANGED <<cpuCmds, cpuCall, cpuTask, cpuRoot, cpuTried, cpuTwice, cpuBack>>

RollTime == cpuTried' = {}

\* The cycle ends; hashes_computed is set back every few of them.
SleepEnds ==
    /\ hasher = "sleep" /\ hasher' = "top"
    /\ cpuHashes' \in {cpuHashes, 0}
    /\ IF cpuTask # 0 THEN RollTime ELSE UNCHANGED cpuTried
    /\ UNCHANGED <<cpuCmds, cpuCall, cpuTask, cpuRoot, cpuNonce, cpuTwice, cpuBack, cpuShares>>

MiningLoop ==
    /\ LoopTop \/ Drain \/ WorkOver \/ SeesFlag \/ Interrupt \/ TryNonce \/ BlockingSend \/ SleepEnds
    /\ UNCHANGED <<cpuShut, cpuGiven, cpuOpen>>

CpuNext ==
    \/ CpuNewTask("update") \/ CpuNewTask("replace") \/ CpuGoIdle \/ CpuDropped
    \/ \E t \in 1..MaxCpuTasks : CpuReadShare(t)
    \/ MiningLoop

CpuSpec == CpuInit /\ [][CpuNext]_cpuVars

-----------------------------------------------------------------------------
(* Properties.                                                             *)

\* A share is of the task it is sent for: the cached root never outlives a
\* change of task, whichever of the two loops took it (hasher.rs:166).
SharesOfCurrentTask == hasher = "send" => cpuRoot = cpuTask

\* No nonce is tried twice for a task and an ntime, although the nonce runs on
\* over cycles and wraps (hasher.rs:176).
HashesOnce == ~cpuTwice

\* Every task the loop has taken comes back once, when the next command is
\* answered, and is not worked on any more (thread.rs:135).
TasksHandedBack ==
    /\ cpuTask \notin cpuBack
    /\ hasher # "exited" => 1..cpuGiven \subseteq
          cpuBack \cup {cpuTask} \cup {cpuCmds[i].task : i \in DOMAIN cpuCmds}

\* Calls are answered, unless the loop is blocked on a full channel that the
\* scheduler, inside its call, does not read (hasher.rs:119, hasher.rs:173).
CpuCallsReturn == (cpuCall # "none") ~> (cpuCall = "none" \/ (hasher = "send" /\ ChannelFull))

\* A dropped handle ends the thread, also one blocked on a share (thread.rs:103).
DropEndsLoop == cpuShut ~> (hasher = "exited")

\* Task, root and nonce belong together in every order of commands and hashes
\* (hasher.rs:90).
CpuWorkIsCurrent == SharesOfCurrentTask /\ HashesOnce /\ TasksHandedBack

\* Neither a call nor the drop of the handle hangs on the loop (hasher.rs:178).
CpuProgresses == CpuCallsReturn /\ DropEndsLoop
=============================================================================
