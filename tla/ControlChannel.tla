--------------------------- MODULE ControlChannel ---------------------------
(***************************************************************************)
(* The bitaxe-raw control channel (mgmt_protocol/bitaxe_raw): requests of  *)
(* the I2C, GPIO and LED drivers, one at a time behind a mutex, each with  *)
(* an 8-bit id.  A request is written without a time limit and waits a     *)
(* second for its answer.  The device answers in order, perhaps late,      *)
(* perhaps never, and may stop reading.                                    *)
(***************************************************************************)
EXTENDS Integers, Sequences

CONSTANTS
    Ids,        \* number of packet ids (256)
    DeviceRoom, \* requests a device holds, fewer than there are ids
    MaxTimeouts \* bound: requests that fail though they may be answered yet

ASSUME ControlConstants == Ids \in Nat /\ DeviceRoom \in 1..(Ids - 1) /\ MaxTimeouts \in 0..(Ids - 1)

VARIABLES
    nextReq,    \* next_id, and one bit of history above it
    pending,    \* the request that holds the mutex, <<>> if none
    outgoing,   \* requests in the writer's buffer
    devQueue,   \* requests the device has yet to answer
    hung,       \* the device has stopped reading
    incoming,   \* responses on their way or in the read buffer
    rebooting,  \* the request in hand wants no reply
    lastResult, \* history: the outcome of the last request
    timeouts    \* history: timeouts and failed writes so far

ctrlVars == <<nextReq, pending, outgoing, devQueue, hung, incoming, rebooting, lastResult, timeouts>>

\* The ids wrap; twice as many numbers tell a request from an older one of the
\* same id.
IdOf(n) == n % Ids

CtrlInit ==
    /\ nextReq = 0 /\ pending = <<>> /\ outgoing = <<>> /\ devQueue = <<>> /\ incoming = <<>>
    /\ hung = FALSE /\ rebooting = FALSE /\ lastResult = "none" /\ timeouts = 0

Locks == pending = <<>> /\ lastResult # "rebooted"

\* send_packet and send_packet_no_reply up to the write; a board reboots, the
\* last thing it is told.
SendPacket ==
    /\ Locks
    /\ pending' = <<nextReq>> /\ nextReq' = (nextReq + 1) % (2 * Ids)
    /\ outgoing' = Append(outgoing, nextReq) /\ rebooting' \in BOOLEAN
    /\ UNCHANGED <<devQueue, hung, incoming, lastResult, timeouts>>

\* writer.send, the mutex held, until the buffer is empty.
Writing == pending # <<>> /\ outgoing # <<>>

\* A device that is full loses the request, and another may be lost as well.
DeviceTakes(n) ==
    \/ /\ Len(devQueue) + Len(incoming) < DeviceRoom /\ ~hung
       /\ devQueue' = Append(devQueue, n)
    \/ /\ Len(devQueue) + Len(incoming) >= DeviceRoom \/ timeouts < MaxTimeouts
       /\ UNCHANGED devQueue

Write ==
    /\ Writing
    /\ outgoing' = Tail(outgoing)
    /\ IF rebooting /\ outgoing' = <<>>
       THEN pending' = <<>> /\ devQueue' = <<>> /\ lastResult' = "rebooted"
       ELSE DeviceTakes(Head(outgoing)) /\ UNCHANGED <<pending, lastResult>>
    /\ UNCHANGED <<nextReq, hung, incoming, rebooting, timeouts>>

\* What was not written stays in the buffer.
WriteFails ==
    /\ Writing /\ timeouts < MaxTimeouts
    /\ pending' = <<>> /\ lastResult' = "unsent" /\ timeouts' = timeouts + 1
    /\ UNCHANGED <<nextReq, outgoing, devQueue, hung, incoming, rebooting>>

\* For good: one that reads again was only slow.
DeviceHangs ==
    /\ ~hung /\ hung' = TRUE
    /\ UNCHANGED <<nextReq, pending, outgoing, devQueue, incoming, rebooting, lastResult, timeouts>>

\* ControlCodec::decode, parse_v0 and parse_v1: an id and data, or an error code.
DevAnswer(n, status) == [n |-> n, id |-> IdOf(n), status |-> status]

DeviceAnswers ==
    /\ devQueue # <<>>
    /\ \E s \in {"ok", "error", "short"} : incoming' = Append(incoming, DevAnswer(Head(devQueue), s))
    /\ devQueue' = Tail(devQueue)
    /\ UNCHANGED <<nextReq, pending, outgoing, hung, rebooting, lastResult, timeouts>>

Matching(r, n) == r.id = IdOf(n)

\* The outcome of a response: the id, then the status, then the length the
\* driver expects.
Outcome(r, n) ==
    IF ~Matching(r, n) THEN "mismatch"
    ELSE IF r.status = "ok" THEN (IF r.n = n THEN "ok" ELSE "other") ELSE "failed"

\* The answer is waited for once the request is written.
Waiting == pending # <<>> /\ outgoing = <<>>

\* One response is read, whichever it answers.
Receive ==
    /\ Waiting /\ incoming # <<>>
    /\ lastResult' = Outcome(Head(incoming), pending[1])
    /\ incoming' = Tail(incoming) /\ pending' = <<>>
    /\ UNCHANGED <<nextReq, outgoing, devQueue, hung, rebooting, timeouts>>

NeverExpires == FALSE                              \* mutant: no timeout

Expires == Waiting /\ incoming = <<>> /\ (timeouts < MaxTimeouts \/ devQueue = <<>>)

RequestTimesOut ==
    /\ Expires
    /\ lastResult' = "timeout" /\ pending' = <<>>
    /\ timeouts' = IF timeouts < MaxTimeouts THEN timeouts + 1 ELSE timeouts
    /\ UNCHANGED <<nextReq, outgoing, devQueue, hung, incoming, rebooting>>

CtrlNext ==
    \/ SendPacket \/ Write \/ WriteFails \/ DeviceHangs \/ DeviceAnswers \/ Receive
    \/ RequestTimesOut

CtrlSpec == CtrlInit /\ [][CtrlNext]_ctrlVars

-----------------------------------------------------------------------------
(* Properties.                                                             *)

\* However late the responses come, however often a write fails and however
\* the ids wrap, no driver takes the answer to another request for its own
\* (channel.rs:67).
OwnAnswer == lastResult # "other"

\* Every request releases the mutex, also when the device loses it or answers
\* late; only the write has no time limit, so a device that stops reading while
\* a request is being written keeps the mutex from all others (channel.rs:59).
RequestsEnd == (pending # <<>>) ~> (pending = <<>> \/ (hung /\ Writing))

\* Once a request has timed out, and the device goes on reading and answers
\* every request it gets, some later request has an outcome again
\* (channel.rs:62).
RecoversFromTimeout == (lastResult = "timeout") ~> (hung \/ lastResult \in {"ok", "failed", "rebooted"})

\* Every request ends, with its own answer or an error, unless its write blocks
\* (channel.rs:59, :63).
RequestsSettle == []OwnAnswer /\ RequestsEnd
=============================================================================
