------------------------------ MODULE Backplane ------------------------------
(***************************************************************************)
(* Discovery and life of boards: the USB monitor (transport/usb.rs), the   *)
(* match of a device with a board type (board/pattern.rs) and the          *)
(* backplane that creates boards, registers their threads with the         *)
(* scheduler and shuts them down (backplane.rs).                           *)
(*                                                                         *)
(* A plug is one stay of a device on the bus, with an id of its own.       *)
(***************************************************************************)
EXTENDS Integers, Sequences, SequencesExt, FiniteSets

CONSTANTS
    Plugs,      \* stays of USB devices
    SerialOf,   \* serial number of the device of a plug
    IsBoard,    \* plugs of devices that match a board type
    Transports  \* sets of transports a daemon may be configured with

ASSUME BackplaneConstants ==
    /\ IsFiniteSet(Plugs) /\ IsBoard \subseteq Plugs
    /\ Plugs \cap {"complete", "cpu", "nano3s"} = {}
    /\ Transports \subseteq SUBSET {"usb", "cpu", "nano3s"}

VARIABLES
    config,     \* transports of this daemon, with the board created at start
    plugged,    \* plugs on the bus
    gone,       \* plugs that have ended
    hot,        \* the hotplug stream
    monitor,    \* the USB monitor: "list", "enumerate", "watch" or "gone"
    listing,    \* devices still to be reported of the initial list
    known,      \* known_devices
    usb, cpu,   \* event channels of the transports
    completed,  \* transports that have completed their enumeration
    boards,     \* the backplane's map from board id to board
    bp,         \* run() of the backplane: "start", "first", "run", "exited"
    work,       \* the board run() is in the middle of, and how far it is
    regs,       \* history: what was sent to the scheduler
    initial,    \* history: boards of the initial list
    created,    \* history: boards a factory has made
    off, lost,  \* history: boards shut down; boards replaced in the map
    cut,        \* history: the board the daemon's end cut run() off at
    patterns,   \* a registry of board types, and
    device      \* a device to find one for

busVars == <<plugged, gone, hot>>
monitorVars == <<monitor, listing, known>>
matchVars == <<patterns, device>>
\* The backplane's own, with its history, and all of it.
planeVars == <<completed, boards, bp, work, regs, created, off, lost, cut>>
backVars == <<config, busVars, monitorVars, usb, cpu, planeVars, initial>>

Idle == [step |-> "idle"]

BackInit ==
    /\ config \in Transports
    /\ plugged \in SUBSET Plugs /\ gone = {} /\ hot = <<>>
    /\ monitor = (IF "usb" \in config THEN "list" ELSE "gone")
    /\ listing = <<>> /\ known = {}
    /\ usb = <<>>
    /\ cpu = (IF "cpu" \in config THEN <<"cpu", "complete">> ELSE <<>>)
    /\ completed = {} /\ boards = <<>> /\ bp = "start" /\ work = Idle
    /\ regs = <<>> /\ initial = {} /\ created = {} /\ off = {} /\ lost = {} /\ cut = {}

-----------------------------------------------------------------------------
(* The bus.                                                                *)

BusEvent(type, p) == [type |-> type, p |-> p]

Watched(e) == hot' = Append(hot, e)

\* Nobody looks at the bus any more.
Unobserved == monitor = "gone" \/ bp = "exited"

Plug(p) ==
    /\ p \notin plugged \cup gone /\ ~Unobserved
    /\ plugged' = plugged \cup {p} /\ Watched(BusEvent("on", p))
    /\ UNCHANGED <<config, gone, monitorVars, usb, cpu, planeVars, initial>>

Unplug(p) ==
    /\ p \in plugged /\ ~Unobserved
    /\ plugged' = plugged \ {p} /\ gone' = gone \cup {p} /\ Watched(BusEvent("off", p))
    /\ UNCHANGED <<config, monitorVars, usb, cpu, planeVars, initial>>

-----------------------------------------------------------------------------
(* monitor: the watch exists before the list is made.                      *)

backRest == <<config, busVars, cpu, planeVars>>

ListDevices ==
    /\ monitor = "list"
    /\ \/ monitor' = "enumerate" /\ listing' = SetToSeq(plugged) /\ initial' = plugged \cap IsBoard
       \/ monitor' = "gone" /\ UNCHANGED <<listing, initial>>
    /\ UNCHANGED <<backRest, known, usb>>

Enumerate ==
    /\ monitor = "enumerate"
    /\ IF listing = <<>>
       THEN /\ usb' = Append(usb, BusEvent("complete", {})) /\ monitor' = "watch"
            /\ UNCHANGED <<listing, known>>
       ELSE /\ usb' = Append(usb, BusEvent("on", Head(listing)))
            /\ known' = known \cup {Head(listing)} /\ listing' = Tail(listing)
            /\ UNCHANGED monitor
    /\ UNCHANGED <<backRest, initial>>

ReportAgain(e) == TRUE                             \* mutant: no deduplication

\* A device listed already, or gone before it was known, is not reported.
Reported(e) == (e.type = "on") = (e.p \notin known)

WatchHotplug ==
    /\ monitor = "watch" /\ hot # <<>>
    /\ hot' = Tail(hot)
    /\ LET e == Head(hot)
       IN  IF Reported(e)
           THEN /\ known' = IF e.type = "on" THEN known \cup {e.p} ELSE known \ {e.p}
                /\ usb' = Append(usb, e)
           ELSE UNCHANGED <<known, usb>>
    /\ UNCHANGED <<config, plugged, gone, monitor, listing, cpu, planeVars, initial>>

-----------------------------------------------------------------------------
(* Board types: the most specific pattern that matches.                    *)

\* A pattern has a matcher per field: any value, a set of words a string
\* contains, or exactly one string.
Fits(matcher, string) ==
    \/ matcher.how = "any"
    \/ matcher.how = "contains" /\ matcher.words \subseteq string
    \/ matcher.how = "exact" /\ matcher.words = string

Matches(pattern, dev) == \A f \in DOMAIN pattern : Fits(pattern[f], dev[f])

Score(how) == CASE how = "any" -> 0 [] how = "contains" -> 10 [] how = "exact" -> 20

MatcherScore(how) == Score(how)

Specificity(pattern) ==
    MatcherScore(pattern["manufacturer"].how) + MatcherScore(pattern["product"].how)

\* find_descriptor: max_by_key keeps the last of equals.
FindDescriptor(ps, dev) ==
    LET fit  == {i \in DOMAIN ps : Matches(ps[i], dev)}
        best == {i \in fit : \A j \in fit : Specificity(ps[i]) >= Specificity(ps[j])}
    IN  IF fit = {} THEN 0 ELSE CHOOSE i \in best : \A j \in best : i >= j

\* Two patterns over two strings of up to two words.
Strings == {{1}, {1, 2}}

Matchers == {[how |-> "any", words |-> {}]} \cup [how : {"contains", "exact"}, words : Strings]

Fields == {"manufacturer", "product"}

MatchInit == patterns \in [1..2 -> [Fields -> Matchers]] /\ device \in [Fields -> Strings]

-----------------------------------------------------------------------------
(* The backplane.  Creating, registering and stopping a board wait, and    *)
(* run() may be dropped wherever it waits.                                 *)

Doing(step, b) == [step |-> step, b |-> b]

\* The key of a board in the map: a device's serial number, or a name.
BoardId(b) == IF b \in Plugs THEN SerialOf[b] ELSE b

\* run() up to its loop: the board that has no transport.
BackStarts ==
    /\ bp = "start" /\ bp' = "first"
    /\ work' = IF "nano3s" \in config THEN Doing("create", "nano3s") ELSE Idle
    /\ UNCHANGED <<config, busVars, monitorVars, usb, cpu, completed, boards, regs, initial,
                   created, off, lost, cut>>

SendComplete == regs' = Append(regs, "complete")

EnterLoop ==
    /\ bp = "first" /\ work = Idle /\ bp' = "run"
    /\ IF config \cap {"usb", "cpu"} = {} THEN SendComplete ELSE UNCHANGED regs
    /\ UNCHANGED <<config, busVars, monitorVars, usb, cpu, completed, boards, work, initial,
                   created, off, lost, cut>>

boardRest == <<config, busVars, monitorVars, usb, cpu, completed, bp, initial, cut>>

\* create_fn: the factory may fail, as it does for a device that has gone.
CreateBoard ==
    /\ work.step = "create"
    /\ \/ work' = Doing("register", work.b) /\ created' = created \cup {work.b}
       \/ work' = Idle /\ UNCHANGED created
    /\ UNCHANGED <<boardRest, boards, regs, off, lost>>

\* A board under the same id is replaced, its shutdown with it.
KeepBoard(b) ==
    /\ lost' = IF BoardId(b) \in DOMAIN boards THEN lost \cup {boards[BoardId(b)]} ELSE lost
    /\ boards' = [id \in DOMAIN boards \cup {BoardId(b)} |-> IF id = BoardId(b) THEN b ELSE boards[id]]
    /\ work' = Idle

\* start_board: the board is kept once its threads are registered.  Only the CPU
\* miner has more than one; run() may wait for room between them.
StartBoard ==
    /\ work.step = "register"
    /\ regs' = Append(regs, work.b)
    /\ \/ KeepBoard(work.b)
       \/ work.b = "cpu" /\ work' = Doing("keep", work.b) /\ UNCHANGED <<boards, lost>>
    /\ UNCHANGED <<boardRest, created, off>>

RestRegistered ==
    /\ work.step = "keep"
    /\ KeepBoard(work.b)
    /\ UNCHANGED <<boardRest, regs, created, off>>

\* A device of no board type is ignored.
UsbConnected(p) ==
    /\ work' = IF p \in IsBoard THEN Doing("create", p) ELSE Idle
    /\ UNCHANGED <<regs, boards>>

\* Whichever device went, the first board of the map is taken out and stopped.
UsbDisconnected ==
    /\ \/ \E id \in DOMAIN boards :
            /\ boards' = [i \in DOMAIN boards \ {id} |-> boards[i]]
            /\ work' = Doing("stop", boards[id])
       \/ DOMAIN boards = {} /\ UNCHANGED <<boards, work>>
    /\ UNCHANGED regs

\* board.shutdown() has ended.
ShutDown ==
    /\ work.step = "stop"
    /\ work' = Idle /\ off' = off \cup {work.b}
    /\ UNCHANGED <<boardRest, boards, regs, created, lost>>

LastToComplete(t) == completed \cup {t} = config \ {"nano3s"}

Completes(t) ==
    /\ completed' = completed \cup {t}
    /\ IF t \notin completed /\ LastToComplete(t) THEN SendComplete ELSE UNCHANGED regs
    /\ UNCHANGED <<boards, work>>

InLoop == bp = "run" /\ work = Idle

HandleUsb ==
    /\ InLoop /\ usb # <<>>
    /\ usb' = Tail(usb)
    /\ LET e == Head(usb)
       IN  IF e.type = "complete" THEN Completes("usb")
           ELSE /\ IF e.type = "on" THEN UsbConnected(e.p) ELSE UsbDisconnected
                /\ UNCHANGED completed
    /\ UNCHANGED <<config, busVars, monitorVars, cpu, bp, initial, created, off, lost, cut>>

HandleCpu ==
    /\ InLoop /\ cpu # <<>>
    /\ cpu' = Tail(cpu)
    /\ IF Head(cpu) = "complete" THEN Completes("cpu")
       ELSE work' = Doing("create", "cpu") /\ UNCHANGED <<regs, boards, completed>>
    /\ UNCHANGED <<config, busVars, monitorVars, usb, bp, initial, created, off, lost, cut>>

StopBoards == Range(boards)

\* shutdown_all_boards, after run().
Exits ==
    /\ bp' = "exited" /\ work' = Idle
    /\ boards' = <<>> /\ off' = off \cup StopBoards
    /\ UNCHANGED <<config, busVars, monitorVars, usb, cpu, completed, regs, initial, created, lost>>

\* Every stream has ended.
StreamsEnd ==
    /\ InLoop /\ monitor = "gone" /\ usb = <<>> /\ cpu = <<>>
    /\ Exits /\ UNCHANGED cut

\* The daemon drops run(), in the middle of a board too: whatever that board
\* is in the middle of ends there.
DaemonEnds ==
    /\ bp # "exited"
    /\ cut' = IF work = Idle THEN cut ELSE {work.b}
    /\ Exits

BoardSteps == CreateBoard \/ StartBoard \/ RestRegistered \/ ShutDown

BackNext ==
    \/ \E p \in Plugs : Plug(p) \/ Unplug(p)
    \/ ListDevices \/ Enumerate \/ WatchHotplug
    \/ BackStarts \/ EnterLoop \/ HandleUsb \/ HandleCpu \/ BoardSteps
    \/ StreamsEnd \/ DaemonEnds

\* The registry and the device to match are inputs.
BackSpec == BackInit /\ MatchInit /\ [][BackNext /\ UNCHANGED matchVars]_<<backVars, matchVars>>

-----------------------------------------------------------------------------
(* Properties.                                                             *)

\* The scheduler is told once that enumeration is complete, behind the threads
\* of every board that was there at start and could be created
\* (backplane.rs:121).
CompletionComesLast ==
    LET at == {i \in DOMAIN regs : regs[i] = "complete"}
    IN  /\ Cardinality(at) <= 1
        /\ \A i \in at, b \in ToSet(regs) \cap (initial \cup {"cpu"}) : \E k \in 1..i : regs[k] = b

\* However plugging races the initial list, the monitor ends up knowing the
\* devices that are there, and a stay of a device starts at most one board
\* (usb.rs:196).
EachPlugOnce ==
    /\ (monitor = "watch" /\ hot = <<>>) => known = plugged
    /\ \A i, k \in DOMAIN regs : regs[i] = regs[k] => i = k

\* When the backplane has stopped, every board a factory made has been shut
\* down.  The exceptions are exact: the one board that the daemon's end found
\* run() creating, registering or stopping (daemon.rs:101), and a board whose
\* entry a later one with its serial number took (backplane.rs:197).
NoBoardLeftOn ==
    /\ bp = "exited" => created \subseteq off \cup lost \cup cut
    /\ \A b \in lost : \E c \in ToSet(regs) : c # b /\ BoardId(c) = BoardId(b)
    /\ \A a, b \in cut : a = b
    /\ cut # {} => bp = "exited"

\* A device gets the board type that says most about it: of two patterns that
\* match, not the one that asks less in some field and no more in any
\* (pattern.rs:248).
MostSpecificWins ==
    LET d == FindDescriptor(patterns, device)
        rank(i, f) == Score(patterns[i][f].how)
    IN  d # 0 => \A i \in DOMAIN patterns :
                    ( /\ Matches(patterns[i], device)
                      /\ \A f \in DOMAIN device : rank(i, f) >= rank(d, f) )
                    => \A f \in DOMAIN device : rank(i, f) = rank(d, f)

\* The backplane loses no board and invents none, from the plug to the
\* shutdown (backplane.rs:127, :197, usb.rs:196, daemon.rs:101).
BoardsAccountedFor == CompletionComesLast /\ EachPlugOnce /\ NoBoardLeftOn /\ MostSpecificWins
=============================================================================
