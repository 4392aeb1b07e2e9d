----------------------------- MODULE BenchProofs -----------------------------
(***************************************************************************)
(* Proofs about the smaller components: backplane and USB monitor, ranges  *)
(* of extranonce2, the ring of the daemon's tasks, the control channel,    *)
(* estimator and alarm, the decoder of the BM13xx protocol and the headers *)
(* of shares.  A proof by induction takes the least counterexample, as in  *)
(* FormatProofs.                                                           *)
(***************************************************************************)
EXTENDS Backplane, ShareHeader, Daemon, ControlChannel, Monitors, FormatProofs

-----------------------------------------------------------------------------
(* Queues: what is in them, once, and in which order.                      *)

\* Nothing is in q twice.
Once(q) == \A i, k \in DOMAIN q : q[i] = q[k] => i = k

\* Every a in q is ahead of every b.
Precedes(q, a, b) == \A i, k \in DOMAIN q : (q[i] = a /\ q[k] = b) => i < k

\* a is in q at most once.
AtMostOnce(q, a) == \A i, k \in DOMAIN q : (q[i] = a /\ q[k] = a) => i = k

\* A queue with one more element.
LEMMA AppendQueue ==
    ASSUME NEW S, NEW q \in Seq(S), NEW x \in S
    PROVE  /\ Append(q, x) \in Seq(S)
           /\ DOMAIN Append(q, x) = DOMAIN q \cup {Len(q) + 1}
           /\ Append(q, x)[Len(q) + 1] = x
           /\ \A i \in DOMAIN q : Append(q, x)[i] = q[i] /\ i < Len(q) + 1 /\ i \in Nat
           /\ Len(q) + 1 \in Nat
  <1>1. Append(q, x) \in Seq(S) /\ Len(Append(q, x)) = Len(q) + 1 /\ Len(q) \in Nat
    OBVIOUS
  <1>2. DOMAIN Append(q, x) = 1..(Len(q) + 1) /\ DOMAIN q = 1..Len(q)
    BY <1>1
  <1>3. \A i \in 1..Len(q) : Append(q, x)[i] = q[i] /\ i < Len(q) + 1 /\ i \in Nat
    BY <1>1
  <1>4. Append(q, x)[Len(q) + 1] = x
    BY <1>1
  <1>5. DOMAIN Append(q, x) = DOMAIN q \cup {Len(q) + 1}
    BY <1>1, <1>2
  <1> QED BY <1>1, <1>2, <1>3, <1>4, <1>5

\* A queue without its first element.
LEMMA TailQueue ==
    ASSUME NEW S, NEW q \in Seq(S), q # <<>>
    PROVE  /\ Tail(q) \in Seq(S)
           /\ Head(q) = q[1] /\ Head(q) \in S /\ 1 \in DOMAIN q
           /\ \A i \in DOMAIN Tail(q) : i + 1 \in DOMAIN q /\ Tail(q)[i] = q[i + 1] /\ i \in Nat \ {0}
           /\ \A i \in DOMAIN q : i # 1 => /\ i - 1 \in DOMAIN Tail(q) /\ Tail(q)[i - 1] = q[i]
                                          /\ i \in Nat \ {0}
  <1>1. Tail(q) \in Seq(S) /\ Len(Tail(q)) = Len(q) - 1 /\ Len(q) \in Nat \ {0}
    OBVIOUS
  <1>2. DOMAIN Tail(q) = 1..(Len(q) - 1) /\ DOMAIN q = 1..Len(q)
    BY <1>1
  <1>3. \A i \in 1..(Len(q) - 1) : i + 1 \in 1..Len(q) /\ Tail(q)[i] = q[i + 1]
    BY <1>1
  <1>4. \A i \in 1..Len(q) : i # 1 => i - 1 \in 1..(Len(q) - 1)
    BY <1>1
  <1>5. Head(q) = q[1] /\ 1 \in 1..Len(q) /\ q[1] \in S
    BY <1>1
  <1>6. \A i \in 1..Len(q) : i # 1 => Tail(q)[i - 1] = q[i] /\ i \in Nat \ {0}
    <2> TAKE i \in 1..Len(q)
    <2> HAVE i # 1
    <2>1. PICK k \in 1..(Len(q) - 1) : k = i - 1
      BY <1>4
    <2>2. k + 1 = i
      BY <2>1, <1>1
    <2> QED BY <1>3, <2>1, <2>2
  <1>7. \A i \in 1..(Len(q) - 1) : i \in Nat \ {0}
    BY <1>1
  <1> QED BY <1>1, <1>2, <1>3, <1>4, <1>5, <1>6, <1>7

\* Appending adds one element.
LEMMA AppendSet ==
    ASSUME NEW S, NEW q \in Seq(S), NEW x \in S
    PROVE  Append(q, x) \in Seq(S) /\ ToSet(Append(q, x)) = ToSet(q) \cup {x}
  <1> DEFINE r == Append(q, x)
  <1>1. /\ r \in Seq(S) /\ DOMAIN r = DOMAIN q \cup {Len(q) + 1} /\ r[Len(q) + 1] = x
        /\ \A i \in DOMAIN q : r[i] = q[i]
    BY AppendQueue
  <1> HIDE DEF r
  <1>2. ToSet(r) = ToSet(q) \cup {x}
    BY <1>1 DEF ToSet
  <1> QED BY <1>1, <1>2 DEF r

\* The head and the rest make the queue.
LEMMA TailSet ==
    ASSUME NEW S, NEW q \in Seq(S), q # <<>>
    PROVE  /\ Tail(q) \in Seq(S) /\ Head(q) \in S
           /\ ToSet(q) = ToSet(Tail(q)) \cup {Head(q)}
  <1> DEFINE t == Tail(q)
             h == Head(q)
  <1>1. /\ t \in Seq(S) /\ h = q[1] /\ h \in S /\ 1 \in DOMAIN q
        /\ \A i \in DOMAIN t : i + 1 \in DOMAIN q /\ t[i] = q[i + 1]
        /\ \A i \in DOMAIN q : i # 1 => (i - 1 \in DOMAIN t /\ t[i - 1] = q[i])
    BY TailQueue
  <1> HIDE DEF t, h
  <1>2. ToSet(t) \cup {h} \subseteq ToSet(q)
    BY <1>1 DEF ToSet
  <1>3. ToSet(q) \subseteq ToSet(t) \cup {h}
    BY <1>1 DEF ToSet
  <1> QED BY <1>1, <1>2, <1>3 DEF t, h

\* Nothing is in an empty queue.
LEMMA EmptySet == ToSet(<<>>) = {}
  BY DEF ToSet

\* A new element is in the queue once.
LEMMA OnceAppend ==
    ASSUME NEW S, NEW q \in Seq(S), NEW x \in S, Once(q), x \notin ToSet(q)
    PROVE  Once(Append(q, x))
  <1> DEFINE r == Append(q, x)
  <1>1. /\ DOMAIN r = DOMAIN q \cup {Len(q) + 1} /\ r[Len(q) + 1] = x
        /\ \A i \in DOMAIN q : r[i] = q[i]
    BY AppendQueue
  <1>2. \A i \in DOMAIN q : q[i] # x
    BY DEF ToSet
  <1> HIDE DEF r
  <1>3. Once(r)
    BY <1>1, <1>2 DEF Once
  <1> QED BY <1>3 DEF r

\* The head is gone from a queue in which nothing is twice.
LEMMA OnceTail ==
    ASSUME NEW S, NEW q \in Seq(S), q # <<>>, Once(q)
    PROVE  Once(Tail(q)) /\ Head(q) \notin ToSet(Tail(q))
  <1> DEFINE t == Tail(q)
             h == Head(q)
  <1>1. /\ h = q[1] /\ 1 \in DOMAIN q
        /\ \A i \in DOMAIN t : i + 1 \in DOMAIN q /\ t[i] = q[i + 1] /\ i \in Nat \ {0}
    BY TailQueue
  <1> HIDE DEF t, h
  <1>2. \A i, k \in DOMAIN t : t[i] = t[k] => i = k
    <2> TAKE i, k \in DOMAIN t
    <2> HAVE t[i] = t[k]
    <2>1. i + 1 = k + 1
      BY <1>1 DEF Once
    <2> QED BY <1>1, <2>1
  <1>3. \A i \in DOMAIN t : t[i] # h
    <2> TAKE i \in DOMAIN t
    <2>1. i + 1 # 1
      BY <1>1
    <2> QED BY <1>1, <2>1 DEF Once
  <1> QED BY <1>2, <1>3 DEF Once, ToSet, t, h

\* The same for one element.
LEMMA AtMostOnceAppend ==
    ASSUME NEW S, NEW q \in Seq(S), NEW x \in S, NEW a, AtMostOnce(q, a), x # a \/ a \notin ToSet(q)
    PROVE  AtMostOnce(Append(q, x), a)
  <1> DEFINE r == Append(q, x)
  <1>1. /\ DOMAIN r = DOMAIN q \cup {Len(q) + 1} /\ r[Len(q) + 1] = x
        /\ \A i \in DOMAIN q : r[i] = q[i]
    BY AppendQueue
  <1>2. a \notin ToSet(q) => \A i \in DOMAIN q : q[i] # a
    BY DEF ToSet
  <1> HIDE DEF r
  <1>3. AtMostOnce(r, a)
    BY <1>1, <1>2 DEF AtMostOnce
  <1> QED BY <1>3 DEF r

LEMMA AtMostOnceTail ==
    ASSUME NEW S, NEW q \in Seq(S), q # <<>>, NEW a, AtMostOnce(q, a)
    PROVE  AtMostOnce(Tail(q), a) /\ (Head(q) = a => a \notin ToSet(Tail(q)))
  <1> DEFINE t == Tail(q)
             h == Head(q)
  <1>1. /\ h = q[1] /\ 1 \in DOMAIN q
        /\ \A i \in DOMAIN t : i + 1 \in DOMAIN q /\ t[i] = q[i + 1] /\ i \in Nat \ {0}
    BY TailQueue
  <1> HIDE DEF t, h
  <1>2. \A i, k \in DOMAIN t : (t[i] = a /\ t[k] = a) => i = k
    <2> TAKE i, k \in DOMAIN t
    <2> HAVE t[i] = a /\ t[k] = a
    <2>1. i + 1 = k + 1
      BY <1>1 DEF AtMostOnce
    <2> QED BY <1>1, <2>1
  <1>3. h = a => \A i \in DOMAIN t : t[i] # a
    <2> HAVE h = a
    <2> TAKE i \in DOMAIN t
    <2>1. i + 1 # 1
      BY <1>1
    <2> QED BY <1>1, <2>1 DEF AtMostOnce
  <1> QED BY <1>2, <1>3 DEF AtMostOnce, ToSet, t, h

\* An order in a queue stands when neither is added, or the second, or the
\* first while the second is not there.
LEMMA PrecedesAppend ==
    ASSUME NEW S, NEW q \in Seq(S), NEW x \in S, NEW a, NEW b, a # b, Precedes(q, a, b),
           x # a \/ b \notin ToSet(q)
    PROVE  Precedes(Append(q, x), a, b)
  <1> DEFINE r == Append(q, x)
             n == Len(q) + 1
  <1>1. /\ DOMAIN r = DOMAIN q \cup {n} /\ r[n] = x
        /\ \A i \in DOMAIN q : r[i] = q[i] /\ i < n
    BY AppendQueue
  <1>2. b \notin ToSet(q) => \A i \in DOMAIN q : q[i] # b
    BY DEF ToSet
  <1> HIDE DEF r, n
  <1>3. Precedes(r, a, b)
    BY <1>1, <1>2 DEF Precedes
  <1> QED BY <1>3 DEF r

LEMMA PrecedesTail ==
    ASSUME NEW S, NEW q \in Seq(S), q # <<>>, NEW a, NEW b, a # b, Precedes(q, a, b)
    PROVE  Precedes(Tail(q), a, b) /\ (Head(q) = b => a \notin ToSet(q))
  <1> DEFINE t == Tail(q)
             h == Head(q)
  <1>1. /\ h = q[1] /\ 1 \in DOMAIN q
        /\ \A i \in DOMAIN t : i + 1 \in DOMAIN q /\ t[i] = q[i + 1] /\ i \in Nat \ {0}
    BY TailQueue
  <1>a. \A i \in DOMAIN q : i \in Nat \ {0}
    BY TailQueue
  <1> HIDE DEF t, h
  <1>2. \A i, k \in DOMAIN t : (t[i] = a /\ t[k] = b) => i < k
    <2> TAKE i, k \in DOMAIN t
    <2> HAVE t[i] = a /\ t[k] = b
    <2>1. i + 1 < k + 1
      BY <1>1 DEF Precedes
    <2> QED BY <1>1, <2>1
  <1>3. h = b => \A i \in DOMAIN q : q[i] # a
    <2> HAVE h = b
    <2> TAKE i \in DOMAIN q
    <2>1. ~(i < 1)
      BY <1>a
    <2> QED BY <1>1, <2>1 DEF Precedes
  <1> QED BY <1>2, <1>3 DEF Precedes, ToSet, t, h

-----------------------------------------------------------------------------
(* The backplane: an inductive invariant.                                  *)

On(p) == BusEvent("on", p)
Off(p) == BusEvent("off", p)
Complete == BusEvent("complete", {})

BusEvents == {On(p) : p \in Plugs} \cup {Off(p) : p \in Plugs}
UsbEvents == BusEvents \cup {Complete}
Registrations == Plugs \cup {"complete", "cpu", "nano3s"}

Doings == {Doing(s, b) : s \in {"create", "register", "keep", "stop"}, b \in Plugs \cup {"cpu", "nano3s"}}

\* Boards run() has begun to start, those the scheduler knows of included.
Starting == IF work.step \in {"create", "register"} THEN {work.b} ELSE {}
Started  == ToSet(regs) \cup Starting

\* A board a factory made, or run() stops, that is not in the map.
InHand == IF work.step \in {"register", "keep", "stop"} THEN {work.b} ELSE {}

BackTypes ==
    /\ config \subseteq {"usb", "cpu", "nano3s"}
    /\ plugged \subseteq Plugs /\ gone \subseteq Plugs /\ known \subseteq Plugs /\ initial \subseteq Plugs
    /\ hot \in Seq(BusEvents) /\ listing \in Seq(Plugs) /\ usb \in Seq(UsbEvents)
    /\ cpu \in {<<>>, <<"complete">>, <<"cpu", "complete">>}
    /\ monitor \in {"list", "enumerate", "watch", "gone"}
    /\ bp \in {"start", "first", "run", "exited"}
    /\ work \in {Idle} \cup Doings
    /\ completed \subseteq {"usb", "cpu"}
    /\ regs \in Seq(Registrations)

\* The hotplug stream has each end of a stay at most once, the start ahead of
\* the end, and what the bus has seen.
StreamOrder ==
    /\ plugged \cap gone = {}
    /\ Once(hot)
    /\ \A p \in Plugs : Precedes(hot, On(p), Off(p))
    /\ \A p \in Plugs : On(p) \in ToSet(hot) => p \in plugged \/ Off(p) \in ToSet(hot)
    /\ \A p \in Plugs : Off(p) \in ToSet(hot) => p \in gone

Unlisted == monitor \in {"list", "gone"}

KnownPlugs == known \cup ToSet(listing)

\* What the monitor knows or has listed, brought up to date with the stream,
\* is what is on the bus.
KnowsBus ==
    /\ Unlisted => known = {} /\ listing = <<>> /\ usb = <<>> /\ initial = {}
    /\ monitor = "watch" => listing = <<>>
    /\ ~Unlisted => \A p \in plugged : p \in KnownPlugs \/ On(p) \in ToSet(hot)
    /\ \A p \in KnownPlugs : p \in plugged \/ Off(p) \in ToSet(hot)
    /\ Once(listing)
    /\ ToSet(listing) \cap known = {}

\* The stay p is over, and the monitor will not hear of its start again.
Past(p) == monitor = "watch" /\ p \in gone /\ On(p) \notin ToSet(hot)

\* The start of a stay is reported once: it is in the channel or has become a
\* board, never both, and then the monitor knows the stay or it is past.
ReportedOnce ==
    /\ \A p \in Plugs : (On(p) \in ToSet(usb) \/ p \in Started) => (p \in known \/ Past(p))
    /\ \A p \in Plugs : AtMostOnce(usb, On(p))
    /\ \A p \in Plugs : On(p) \in ToSet(usb) => p \notin Started

\* The boards of the initial list are in the channel ahead of its completion.
InitialFirst ==
    /\ \A p \in initial : p \in KnownPlugs \/ Past(p)
    /\ \A p \in initial : Precedes(usb, On(p), Complete)
    /\ Complete \in ToSet(usb) => monitor = "watch"
    /\ "usb" \in completed => monitor = "watch" /\ \A p \in initial : On(p) \notin ToSet(usb)
    /\ "usb" \notin config => monitor = "gone"
    /\ "usb" \in completed => "usb" \in config

\* So is the CPU miner's.
CpuFirst ==
    /\ cpu # <<>> => "cpu" \in config /\ "cpu" \notin completed
    /\ cpu = <<"cpu", "complete">> => "cpu" \notin Started
    /\ "cpu" \in completed => "cpu" \in config

\* What the scheduler was told, and is about to be told.
Registered ==
    /\ bp = "start" => regs = <<>> /\ completed = {} /\ work = Idle
    /\ bp = "first" => Started \subseteq {"nano3s"} /\ completed = {}
    /\ Once(regs)
    /\ "complete" \in ToSet(regs) => completed = config \ {"nano3s"}
    /\ \A b \in initial \cup {"cpu"} : Precedes(regs, b, "complete")
    /\ \A b \in Starting : b \notin ToSet(regs)
    /\ \A b \in Starting : b \in initial \cup {"cpu"} => "complete" \notin ToSet(regs)

\* Where the boards are.
Held ==
    /\ work # Idle => bp \in {"first", "run"}
    /\ bp = "exited" => Range(boards) = {}
    /\ Range(boards) \subseteq ToSet(regs) /\ "complete" \notin Range(boards)
    /\ \A id \in DOMAIN boards : BoardId(boards[id]) = id
    /\ work.step = "keep" => work.b \in ToSet(regs) /\ work.b \notin Range(boards)
    /\ created \subseteq Range(boards) \cup off \cup lost \cup cut \cup InHand
    /\ \A b \in lost : \E c \in ToSet(regs) : c # b /\ BoardId(c) = BoardId(b)
    /\ \A a, b \in cut : a = b
    /\ cut # {} => bp = "exited"

BackInv == /\ BackTypes /\ StreamOrder /\ KnowsBus /\ ReportedOnce /\ InitialFirst /\ CpuFirst
           /\ Registered /\ Held

-----------------------------------------------------------------------------
\* Events differ when their kinds or their plugs do.
LEMMA EventsDiffer ==
    /\ \A p, r : On(p) # Off(r) /\ On(p) # Complete /\ Off(p) # Complete
    /\ \A p, r : On(p) = On(r) => p = r
    /\ \A p, r : Off(p) = Off(r) => p = r
    /\ \A p : On(p).type = "on" /\ On(p).p = p /\ Off(p).type = "off" /\ Off(p).p = p
    /\ Complete.type = "complete"
  BY DEF On, Off, Complete, BusEvent

\* What an event of the bus is.
LEMMA BusEventKinds ==
    ASSUME NEW e \in BusEvents
    PROVE  /\ e.type = "on" => e = On(e.p) /\ e.p \in Plugs
           /\ e.type # "on" => e = Off(e.p) /\ e.p \in Plugs
           /\ e # Complete /\ e.type # "complete" /\ e \in UsbEvents
  BY EventsDiffer DEF BusEvents, UsbEvents

\* What an event in the channel of the USB transport is.
LEMMA UsbEventKinds ==
    ASSUME NEW e \in UsbEvents
    PROVE  /\ e.type = "on" => e = On(e.p) /\ e.p \in Plugs
           /\ e.type = "complete" => e = Complete
           /\ (e.type # "on" /\ e.type # "complete") => e = Off(e.p) /\ e.p \in Plugs
  BY EventsDiffer DEF BusEvents, UsbEvents

\* The enumeration of a finite set has each element once.
LEMMA Enumeration ==
    ASSUME NEW S, IsFiniteSet(S)
    PROVE  /\ SetToSeq(S) \in Seq(S)
           /\ ToSet(SetToSeq(S)) = S
           /\ Once(SetToSeq(S))
  <1> DEFINE n == Cardinality(S)
  <1>1. PICK f : f \in Bijection(1..n, S)
    BY FS_CardinalityType DEF ExistsBijection
  <1>2. f \in [1..n -> S] /\ IsInjective(f)
    BY <1>1 DEF Bijection, Injection, IsInjective
  <1>3. PICK s : s = SetToSeq(S)
    OBVIOUS
  <1>4. s \in [1..n -> S] /\ IsInjective(s)
    BY <1>2, <1>3 DEF SetToSeq
  <1>5. n \in Nat
    BY FS_CardinalityType
  <1> HIDE DEF n
  <1>6. s \in Injection(1..n, S)
    BY <1>4 DEF Injection, IsInjective
  <1>7. Cardinality(1..n) = n /\ IsFiniteSet(1..n)
    BY <1>5, FS_Interval
  <1>8. s \in Surjection(1..n, S)
    BY <1>6, <1>7, FS_Injection DEF n
  <1>9. \A x \in S : \E i \in 1..n : s[i] = x
    BY <1>8 DEF Surjection
  <1>10. s \in Seq(S) /\ DOMAIN s = 1..n
    BY <1>4, <1>5
  <1>11. ToSet(s) = S
    BY <1>4, <1>9 DEF ToSet
  <1>12. Once(s)
    BY <1>4 DEF Once, IsInjective
  <1> QED BY <1>3, <1>10, <1>11, <1>12

LEMMA EmptyQueues ==
    /\ \A S : <<>> \in Seq(S)
    /\ Once(<<>>)
    /\ \A a, b : Precedes(<<>>, a, b)
    /\ \A a : AtMostOnce(<<>>, a)
    /\ ToSet(<<>>) = {}
  <1>1. \A S : <<>> \in Seq(S)
    OBVIOUS
  <1>2. DOMAIN <<>> = {}
    OBVIOUS
  <1> QED BY <1>1, <1>2 DEF Once, Precedes, AtMostOnce, ToSet

LEMMA BackInitInv == BackInit => BackInv
  <1> SUFFICES ASSUME BackInit PROVE BackInv
    OBVIOUS
  <1>1. BackTypes
    BY BackplaneConstants, EmptyQueues DEF BackInit, BackTypes
  <1>2. StreamOrder
    BY EmptyQueues DEF BackInit, StreamOrder
  <1>3. KnowsBus
    BY EmptyQueues DEF BackInit, KnowsBus, KnownPlugs, Unlisted
  <1>0. ToSet(<<>>) = {} /\ Range(<<>>) = {} /\ Starting = {} /\ Started = {} /\ InHand = {}
    BY EmptyQueues DEF BackInit, Starting, Started, InHand, Idle, Range
  <1>4. ReportedOnce
    BY <1>0, EmptyQueues DEF BackInit, ReportedOnce
  <1>5. InitialFirst
    BY EmptyQueues DEF BackInit, InitialFirst
  <1>6. CpuFirst
    BY <1>0 DEF BackInit, CpuFirst
  <1>7. Registered
    BY <1>0, EmptyQueues DEF BackInit, Registered
  <1>8. Held
    <2>1. work = Idle /\ work.step = "idle" /\ DOMAIN <<>> = {}
      BY DEF BackInit, Idle
    <2> QED BY <1>0, <2>1 DEF BackInit, Held
  <1> QED BY <1>1, <1>2, <1>3, <1>4, <1>5, <1>6, <1>7, <1>8 DEF BackInv

\* What only the backplane's own state tells stays with it.
LEMMA PlaneStays ==
    ASSUME BackInv, UNCHANGED planeVars
    PROVE  /\ UNCHANGED <<completed, boards, bp, work, regs, created, off, lost, cut, Starting, Started>>
           /\ Held'
           /\ UNCHANGED <<config, initial>> => Registered'
           /\ UNCHANGED <<config, cpu>> => CpuFirst'
  <1>1. UNCHANGED <<completed, boards, bp, work, regs, created, off, lost, cut>>
    BY DEF planeVars
  <1>2. UNCHANGED <<Starting, Started, InHand>>
    BY <1>1 DEF Starting, Started, InHand
  <1>3. Held'
    BY <1>1, <1>2 DEF BackInv, Held
  <1>4. UNCHANGED <<config, initial>> => Registered'
    BY <1>1, <1>2 DEF BackInv, Registered
  <1>5. UNCHANGED <<config, cpu>> => CpuFirst'
    BY <1>1, <1>2 DEF BackInv, CpuFirst
  <1> QED BY <1>1, <1>2, <1>3, <1>4, <1>5

\* A device is plugged in.
LEMMA PlugInv == ASSUME BackInv, NEW p \in Plugs, Plug(p) PROVE BackInv'
  <1> USE DEF BackInv
  <1>1. On(p) \in BusEvents /\ hot \in Seq(BusEvents) /\ hot' = Append(hot, On(p))
    BY DEF Plug, Watched, BackTypes, BusEvents, On
  <1>2. hot' \in Seq(BusEvents) /\ ToSet(hot') = ToSet(hot) \cup {On(p)}
    BY <1>1, AppendSet
  <1>3. On(p) \notin ToSet(hot) /\ Off(p) \notin ToSet(hot) /\ p \notin plugged /\ p \notin gone
    BY DEF Plug, StreamOrder
  <1>4. Once(hot')
    BY <1>1, <1>3, OnceAppend DEF StreamOrder
  <1>5. \A r \in Plugs : Precedes(hot', On(r), Off(r))
    <2> TAKE r \in Plugs
    <2>1. Precedes(hot, On(r), Off(r)) /\ On(r) # Off(r) /\ (On(p) # On(r) \/ Off(r) \notin ToSet(hot))
      BY <1>3, EventsDiffer DEF StreamOrder
    <2> QED BY <1>1, <2>1, PrecedesAppend
  <1>a. /\ UNCHANGED <<completed, boards, bp, work, regs, created, off, lost, cut, Starting, Started>>
        /\ Held' /\ Registered' /\ CpuFirst'
    BY PlaneStays DEF Plug
  <1>6. BackTypes'
    BY <1>a, <1>2 DEF Plug, BackTypes, monitorVars
  <1>7. StreamOrder'
    BY <1>2, <1>3, <1>4, <1>5, EventsDiffer DEF Plug, StreamOrder
  <1>8. KnowsBus'
    BY <1>2, EventsDiffer DEF Plug, KnowsBus, KnownPlugs, Unlisted, monitorVars
  <1>9. ReportedOnce'
    BY <1>2, <1>3, <1>a, EventsDiffer DEF Plug, ReportedOnce, Past, monitorVars
  <1>10. InitialFirst'
    BY <1>2, <1>3, <1>a, EventsDiffer DEF Plug, InitialFirst, KnownPlugs, Past, monitorVars
  <1> QED BY <1>a, <1>6, <1>7, <1>8, <1>9, <1>10

\* A device is unplugged.
LEMMA UnplugInv == ASSUME BackInv, NEW p \in Plugs, Unplug(p) PROVE BackInv'
  <1> USE DEF BackInv
  <1>1. Off(p) \in BusEvents /\ hot \in Seq(BusEvents) /\ hot' = Append(hot, Off(p))
    BY DEF Unplug, Watched, BackTypes, BusEvents, Off
  <1>2. hot' \in Seq(BusEvents) /\ ToSet(hot') = ToSet(hot) \cup {Off(p)}
    BY <1>1, AppendSet
  <1>3. Off(p) \notin ToSet(hot) /\ p \in plugged /\ p \notin gone
    BY DEF Unplug, StreamOrder
  <1>4. Once(hot')
    BY <1>1, <1>3, OnceAppend DEF StreamOrder
  <1>5. \A r \in Plugs : Precedes(hot', On(r), Off(r))
    <2> TAKE r \in Plugs
    <2>1. Precedes(hot, On(r), Off(r)) /\ On(r) # Off(r) /\ Off(p) # On(r)
      BY EventsDiffer DEF StreamOrder
    <2> QED BY <1>1, <2>1, PrecedesAppend
  <1>a. /\ UNCHANGED <<completed, boards, bp, work, regs, created, off, lost, cut, Starting, Started>>
        /\ Held' /\ Registered' /\ CpuFirst'
    BY PlaneStays DEF Unplug
  <1>6. BackTypes'
    BY <1>a, <1>2 DEF Unplug, BackTypes, monitorVars
  <1>7. StreamOrder'
    BY <1>2, <1>3, <1>4, <1>5, EventsDiffer DEF Unplug, StreamOrder
  <1>8. KnowsBus'
    BY <1>2, EventsDiffer DEF Unplug, KnowsBus, KnownPlugs, Unlisted, monitorVars
  <1>9. ReportedOnce'
    BY <1>2, <1>3, <1>a, EventsDiffer DEF Unplug, ReportedOnce, Past, monitorVars
  <1>10. InitialFirst'
    BY <1>2, <1>3, <1>a, EventsDiffer DEF Unplug, InitialFirst, KnownPlugs, Past, monitorVars
  <1> QED BY <1>a, <1>6, <1>7, <1>8, <1>9, <1>10

\* The monitor lists the bus; the watch, and so the stream, is there already.
LEMMA ListDevicesInv == ASSUME BackInv, ListDevices PROVE BackInv'
  <1> USE DEF BackInv
  <1>a. /\ monitor = "list" /\ known = {} /\ listing = <<>> /\ usb = <<>> /\ initial = {}
        /\ Unlisted /\ "usb" \in config /\ "usb" \notin completed
    BY DEF ListDevices, KnowsBus, Unlisted, InitialFirst
  <1>b. /\ UNCHANGED <<config, plugged, gone, hot, cpu, known, usb, completed, bp, work, regs>>
        /\ UNCHANGED <<Starting, Started>> /\ Held' /\ CpuFirst' /\ (UNCHANGED initial => Registered')
    BY PlaneStays DEF ListDevices, backRest, busVars
  <1>c. \A r \in Plugs : r \notin Started
    BY <1>a DEF ReportedOnce, Past
  <1>d. "complete" \notin ToSet(regs)
    BY <1>a DEF Registered
  <1>e. StreamOrder' /\ CpuFirst' /\ Held'
    BY <1>b DEF StreamOrder
  <1>1. CASE monitor' = "gone" /\ UNCHANGED <<listing, initial>>
    <2>1. BackTypes'
      BY <1>1, <1>b DEF BackTypes
    <2>2. KnowsBus'
      BY <1>1, <1>a, <1>b, EmptyQueues DEF KnowsBus, KnownPlugs, Unlisted
    <2>3. ReportedOnce'
      BY <1>1, <1>a, <1>b, <1>c, EmptyQueues DEF ReportedOnce
    <2>4. InitialFirst'
      BY <1>1, <1>a, <1>b, EmptyQueues DEF InitialFirst
    <2> QED BY <1>1, <1>b, <1>e, <2>1, <2>2, <2>3, <2>4
  <1>2. CASE monitor' = "enumerate" /\ listing' = SetToSeq(plugged) /\ initial' = plugged \cap IsBoard
    <2>0. IsFiniteSet(plugged)
      BY BackplaneConstants, FS_Subset DEF BackTypes
    <2>a. listing' \in Seq(plugged) /\ ToSet(listing') = plugged /\ Once(listing')
      BY <1>2, <2>0, Enumeration
    <2>b. listing' \in Seq(Plugs)
      BY <2>a DEF BackTypes
    <2>1. BackTypes'
      BY <1>2, <1>b, <2>b DEF BackTypes
    <2>2. KnowsBus'
      BY <1>2, <1>a, <1>b, <2>a DEF KnowsBus, KnownPlugs, Unlisted
    <2>3. ReportedOnce'
      BY <1>2, <1>a, <1>b, <1>c, EmptyQueues DEF ReportedOnce
    <2>4. InitialFirst'
      BY <1>2, <1>a, <1>b, <2>a, EmptyQueues DEF InitialFirst, KnownPlugs
    <2>5. \A b : Precedes(regs, b, "complete")
      BY <1>d DEF Precedes, ToSet
    <2>6. Registered'
      BY <1>2, <1>b, <1>c, <1>d, <2>5 DEF Registered, Started
    <2> QED BY <1>e, <2>1, <2>2, <2>3, <2>4, <2>6
  <1> QED BY <1>1, <1>2 DEF ListDevices

\* A listed device is reported, or the list is complete.
LEMMA EnumerateInv == ASSUME BackInv, Enumerate PROVE BackInv'
  <1> USE DEF BackInv
  <1>a. monitor = "enumerate" /\ ~Unlisted /\ \A r : ~Past(r)
    BY DEF Enumerate, Unlisted, Past
  <1>b. /\ UNCHANGED <<config, plugged, gone, hot, cpu, initial, completed, bp, work, regs>>
        /\ UNCHANGED <<Starting, Started>> /\ Held' /\ CpuFirst' /\ Registered'
    BY PlaneStays DEF Enumerate, backRest, busVars
  <1>c. "usb" \notin completed /\ Complete \notin ToSet(usb)
    BY <1>a DEF InitialFirst
  <1>d. StreamOrder' /\ CpuFirst' /\ Registered' /\ Held'
    BY <1>b DEF StreamOrder
  <1>u. usb \in Seq(UsbEvents)
    BY DEF BackTypes
  <1>1. CASE /\ listing = <<>> /\ usb' = Append(usb, Complete) /\ monitor' = "watch"
             /\ UNCHANGED <<listing, known>>
    <2>1. usb' \in Seq(UsbEvents) /\ ToSet(usb') = ToSet(usb) \cup {Complete}
      BY <1>1, <1>u, AppendSet DEF UsbEvents
    <2>2. \A r \in Plugs : AtMostOnce(usb', On(r))
      <3> TAKE r \in Plugs
      <3>1. AtMostOnce(usb, On(r)) /\ Complete # On(r) /\ Complete \in UsbEvents
        BY EventsDiffer DEF ReportedOnce, UsbEvents
      <3> QED BY <1>1, <1>u, <3>1, AtMostOnceAppend
    <2>3. \A r \in initial : Precedes(usb', On(r), Complete)
      <3> TAKE r \in initial
      <3>1. Precedes(usb, On(r), Complete) /\ Complete # On(r) /\ Complete \in UsbEvents
        BY EventsDiffer DEF InitialFirst, UsbEvents
      <3> QED BY <1>1, <1>u, <3>1, PrecedesAppend
    <2>4. BackTypes'
      BY <1>1, <1>b, <2>1 DEF BackTypes
    <2>5. KnowsBus'
      BY <1>1, <1>a, <1>b DEF KnowsBus, KnownPlugs, Unlisted
    <2>6. ReportedOnce'
      BY <1>1, <1>a, <1>b, <2>1, <2>2, EventsDiffer DEF ReportedOnce
    <2>7. InitialFirst'
      BY <1>1, <1>a, <1>b, <1>c, <2>3 DEF InitialFirst, KnownPlugs
    <2> QED BY <1>d, <2>4, <2>5, <2>6, <2>7
  <1>2. CASE /\ listing # <<>> /\ usb' = Append(usb, On(Head(listing)))
             /\ known' = known \cup {Head(listing)} /\ listing' = Tail(listing)
             /\ UNCHANGED monitor
    <2>1. PICK h : h = Head(listing)
      OBVIOUS
    <2>2. /\ h \in Plugs /\ listing' \in Seq(Plugs) /\ ToSet(listing) = ToSet(listing') \cup {h}
          /\ Once(listing') /\ h \notin ToSet(listing') /\ h \notin known
      BY <1>2, <2>1, TailSet, OnceTail DEF BackTypes, KnowsBus
    <2>3. On(h) \in UsbEvents /\ usb' = Append(usb, On(h)) /\ known' = known \cup {h}
      BY <1>2, <2>1, <2>2 DEF UsbEvents, BusEvents
    <2>4. usb' \in Seq(UsbEvents) /\ ToSet(usb') = ToSet(usb) \cup {On(h)}
      BY <1>u, <2>3, AppendSet
    <2>5. h \notin Started /\ On(h) \notin ToSet(usb)
      BY <1>a, <2>2 DEF ReportedOnce
    <2>6. \A r \in Plugs : AtMostOnce(usb', On(r))
      <3> TAKE r \in Plugs
      <3>1. AtMostOnce(usb, On(r)) /\ (On(h) # On(r) \/ On(r) \notin ToSet(usb))
        BY <2>5, EventsDiffer DEF ReportedOnce
      <3> QED BY <1>u, <2>3, <3>1, AtMostOnceAppend
    <2>7. \A r \in initial : Precedes(usb', On(r), Complete)
      <3> TAKE r \in initial
      <3>1. Precedes(usb, On(r), Complete) /\ On(r) # Complete
        BY EventsDiffer DEF InitialFirst
      <3> QED BY <1>c, <1>u, <2>3, <3>1, PrecedesAppend
    <2>8. BackTypes'
      BY <1>2, <1>b, <2>2, <2>3, <2>4 DEF BackTypes
    <2>9. KnowsBus'
      BY <1>2, <1>a, <1>b, <2>2, <2>3 DEF KnowsBus, KnownPlugs, Unlisted
    <2>10. ReportedOnce'
      BY <1>2, <1>a, <1>b, <2>3, <2>4, <2>5, <2>6, EventsDiffer DEF ReportedOnce
    <2>11. InitialFirst'
      BY <1>2, <1>a, <1>b, <1>c, <2>2, <2>3, <2>4, <2>7, EventsDiffer DEF InitialFirst, KnownPlugs
    <2> QED BY <1>d, <2>8, <2>9, <2>10, <2>11
  <1> QED BY <1>1, <1>2 DEF Enumerate, On, Complete

\* An event of the stream is reported, or is no news.
LEMMA WatchHotplugInv == ASSUME BackInv, WatchHotplug PROVE BackInv'
  <1> USE DEF BackInv
  <1>a. monitor = "watch" /\ ~Unlisted /\ hot # <<>> /\ listing = <<>> /\ KnownPlugs = known
    BY EmptyQueues DEF WatchHotplug, Unlisted, KnowsBus, KnownPlugs
  <1>b. /\ UNCHANGED <<config, plugged, gone, monitor, listing, cpu, initial, completed, bp, work, regs>>
        /\ UNCHANGED <<Starting, Started>> /\ Held' /\ CpuFirst' /\ Registered'
        /\ hot' = Tail(hot)
    BY PlaneStays DEF WatchHotplug
  <1>c. KnownPlugs' = known'
    BY <1>a, <1>b, EmptyQueues DEF KnownPlugs
  <1>t. hot \in Seq(BusEvents) /\ usb \in Seq(UsbEvents)
    BY DEF BackTypes
  <1>1. PICK e : e = Head(hot)
    OBVIOUS
  <1>2. /\ e \in BusEvents /\ hot' \in Seq(BusEvents) /\ ToSet(hot) = ToSet(hot') \cup {e}
        /\ Once(hot') /\ e \notin ToSet(hot')
    BY <1>1, <1>a, <1>b, <1>t, TailSet, OnceTail DEF StreamOrder
  <1>3. \A r \in Plugs : Precedes(hot', On(r), Off(r)) /\ (e = Off(r) => On(r) \notin ToSet(hot))
    <2> TAKE r \in Plugs
    <2>1. Precedes(hot, On(r), Off(r)) /\ On(r) # Off(r)
      BY EventsDiffer DEF StreamOrder
    <2> QED BY <1>1, <1>a, <1>b, <1>t, <2>1, PrecedesTail
  <1>4. StreamOrder'
    BY <1>b, <1>2, <1>3, EventsDiffer DEF StreamOrder
  <1>5. CpuFirst' /\ Registered' /\ Held'
    BY <1>b
  <1>6. \A r : Past(r) => Past(r)'
    BY <1>b, <1>2 DEF Past
  <1>7. /\ Reported(e) => /\ known' = IF e.type = "on" THEN known \cup {e.p} ELSE known \ {e.p}
                          /\ usb' = Append(usb, e)
        /\ ~Reported(e) => UNCHANGED <<known, usb>>
    BY <1>1 DEF WatchHotplug
  <1>8. CASE Reported(e) /\ e.type = "on"
    <2>1. PICK p \in Plugs : p = e.p /\ e = On(p)
      BY <1>2, <1>8, BusEventKinds
    <2>2. p \notin known /\ known' = known \cup {p} /\ usb' = Append(usb, On(p)) /\ On(p) \in UsbEvents
      BY <1>2, <1>7, <1>8, <2>1, BusEventKinds DEF Reported
    <2>3. On(p) \in ToSet(hot) /\ On(p) \notin ToSet(hot') /\ ~Past(p)
      BY <1>2, <2>1 DEF Past
    <2>4. p \in plugged \/ Off(p) \in ToSet(hot')
      BY <1>2, <2>1, <2>3, EventsDiffer DEF StreamOrder
    <2>5. p \notin Started /\ On(p) \notin ToSet(usb) /\ p \notin initial
      BY <1>a, <2>2, <2>3 DEF ReportedOnce, InitialFirst
    <2>6. usb' \in Seq(UsbEvents) /\ ToSet(usb') = ToSet(usb) \cup {On(p)}
      BY <1>t, <2>2, AppendSet
    <2>7. \A r \in Plugs : AtMostOnce(usb', On(r))
      <3> TAKE r \in Plugs
      <3>1. AtMostOnce(usb, On(r)) /\ (On(p) # On(r) \/ On(r) \notin ToSet(usb))
        BY <2>5, EventsDiffer DEF ReportedOnce
      <3> QED BY <1>t, <2>2, <3>1, AtMostOnceAppend
    <2>8. \A r \in initial : Precedes(usb', On(r), Complete)
      <3> TAKE r \in initial
      <3>1. Precedes(usb, On(r), Complete) /\ On(r) # Complete /\ On(p) # On(r)
        BY <2>5, EventsDiffer DEF InitialFirst
      <3> QED BY <1>t, <2>2, <3>1, PrecedesAppend
    <2>9. BackTypes'
      BY <1>b, <1>2, <2>2, <2>6 DEF BackTypes
    <2>10. KnowsBus'
      BY <1>a, <1>b, <1>c, <1>2, <2>1, <2>2, <2>4, EmptyQueues, EventsDiffer DEF KnowsBus, Unlisted
    <2>11. ReportedOnce'
      BY <1>b, <1>6, <2>2, <2>5, <2>6, <2>7, EventsDiffer DEF ReportedOnce
    <2>12. InitialFirst'
      BY <1>a, <1>b, <1>c, <1>6, <2>2, <2>5, <2>6, <2>8, EventsDiffer DEF InitialFirst
    <2> QED BY <1>4, <1>5, <2>9, <2>10, <2>11, <2>12
  <1>9. CASE Reported(e) /\ e.type # "on"
    <2>1. PICK p \in Plugs : p = e.p /\ e = Off(p)
      BY <1>2, <1>9, BusEventKinds
    <2>2. p \in known /\ known' = known \ {p} /\ usb' = Append(usb, Off(p)) /\ Off(p) \in UsbEvents
      BY <1>2, <1>7, <1>9, <2>1, BusEventKinds DEF Reported
    <2>3. On(p) \notin ToSet(hot) /\ p \in gone /\ p \notin plugged
      BY <1>2, <1>3, <2>1 DEF StreamOrder
    <2>4. Past(p)'
      BY <1>a, <1>b, <1>2, <2>3 DEF Past
    <2>6. usb' \in Seq(UsbEvents) /\ ToSet(usb') = ToSet(usb) \cup {Off(p)}
      BY <1>t, <2>2, AppendSet
    <2>7. \A r \in Plugs : AtMostOnce(usb', On(r))
      <3> TAKE r \in Plugs
      <3>1. AtMostOnce(usb, On(r)) /\ Off(p) # On(r)
        BY EventsDiffer DEF ReportedOnce
      <3> QED BY <1>t, <2>2, <3>1, AtMostOnceAppend
    <2>8. \A r \in initial : Precedes(usb', On(r), Complete)
      <3> TAKE r \in initial
      <3>1. Precedes(usb, On(r), Complete) /\ On(r) # Complete /\ Off(p) # On(r)
        BY EventsDiffer DEF InitialFirst
      <3> QED BY <1>t, <2>2, <3>1, PrecedesAppend
    <2>9. BackTypes'
      BY <1>b, <1>2, <2>2, <2>6 DEF BackTypes
    <2>10. KnowsBus'
      BY <1>a, <1>b, <1>c, <1>2, <2>1, <2>2, <2>3, EmptyQueues, EventsDiffer DEF KnowsBus, Unlisted
    <2>11. ReportedOnce'
      BY <1>b, <1>6, <2>2, <2>4, <2>6, <2>7, EventsDiffer DEF ReportedOnce
    <2>12. InitialFirst'
      BY <1>a, <1>b, <1>c, <1>6, <2>2, <2>4, <2>6, <2>8, EventsDiffer DEF InitialFirst
    <2> QED BY <1>4, <1>5, <2>9, <2>10, <2>11, <2>12
  <1>10. CASE ~Reported(e)
    <2>1. UNCHANGED <<known, usb>>
      BY <1>7, <1>10
    <2>2. PICK p \in Plugs : (e = On(p) /\ p \in known) \/ (e = Off(p) /\ p \notin known)
      BY <1>2, <1>10, BusEventKinds DEF Reported
    <2>3. BackTypes'
      BY <1>b, <1>2, <2>1 DEF BackTypes
    <2>4. KnowsBus'
      BY <1>a, <1>b, <1>c, <1>2, <2>1, <2>2, EmptyQueues, EventsDiffer DEF KnowsBus, Unlisted
    <2>5. ReportedOnce'
      BY <1>b, <1>6, <2>1 DEF ReportedOnce
    <2>6. InitialFirst'
      BY <1>a, <1>b, <1>c, <1>6, <2>1 DEF InitialFirst
    <2> QED BY <1>4, <1>5, <2>3, <2>4, <2>5, <2>6
  <1> QED BY <1>8, <1>9, <1>10

\* What run() is in the middle of tells what it has begun and what it holds.
LEMMA WorkKinds ==
    /\ Idle.step = "idle"
    /\ \A s, b : Doing(s, b).step = s /\ Doing(s, b).b = b /\ Doing(s, b) # Idle
    /\ work = Idle => Starting = {} /\ Started = ToSet(regs) /\ InHand = {}
  <1>1. /\ Idle.step = "idle"
        /\ \A s, b : Doing(s, b).step = s /\ Doing(s, b).b = b
    BY DEF Idle, Doing
  <1>2. \A s, b : Doing(s, b) # Idle
    <2> SUFFICES ASSUME NEW s, NEW b, [step |-> s, b |-> b] = [step |-> "idle"] PROVE FALSE
      BY DEF Idle, Doing
    <2>1. DOMAIN [step |-> s, b |-> b] = {"step", "b"} /\ DOMAIN [step |-> "idle"] = {"step"}
      OBVIOUS
    <2> QED BY <2>1
  <1>3. work = Idle => Starting = {} /\ Started = ToSet(regs) /\ InHand = {}
    BY <1>1 DEF Starting, Started, InHand
  <1> QED BY <1>1, <1>2, <1>3

\* A board run() is in the middle of.
LEMMA WorkIsDoing ==
    ASSUME BackTypes, work # Idle
    PROVE  /\ work.b \in Plugs \cup {"cpu", "nano3s"} /\ work = Doing(work.step, work.b)
           /\ work.step \in {"create", "register", "keep", "stop"}
  BY WorkKinds DEF BackTypes, Doings

\* The bus, its monitor and the channels stay while the backplane works.
LEMMA BusStays ==
    ASSUME BackInv, UNCHANGED <<plugged, gone, hot, monitor, listing, known, usb, config, initial, completed>>
    PROVE  StreamOrder' /\ KnowsBus' /\ InitialFirst' /\ (\A p : Past(p)' = Past(p))
  <1>1. \A p : Past(p)' = Past(p)
    BY DEF Past
  <1>2. StreamOrder' /\ KnowsBus'
    BY DEF BackInv, StreamOrder, KnowsBus, KnownPlugs, Unlisted
  <1>3. InitialFirst'
    BY <1>1 DEF BackInv, InitialFirst, KnownPlugs
  <1> QED BY <1>1, <1>2, <1>3

\* run() up to its loop.
LEMMA BackStartsInv == ASSUME BackInv, BackStarts PROVE BackInv'
  <1> USE DEF BackInv
  <1>a. /\ UNCHANGED <<config, plugged, gone, hot, monitor, listing, known, usb, cpu, completed, boards,
                       regs, initial, created, off, lost, cut>>
        /\ bp = "start" /\ bp' = "first" /\ regs = <<>> /\ completed = {} /\ work = Idle
    BY DEF BackStarts, Registered, busVars, monitorVars
  <1>1. work' = Idle \/ work' = Doing("create", "nano3s")
    BY DEF BackStarts
  <1>2. Starting' \subseteq {"nano3s"} /\ InHand' = {} /\ Started' = Starting' /\ ToSet(regs) = {}
        /\ work'.step # "keep"
    BY <1>1, <1>a, WorkKinds, EmptyQueues DEF Starting, Started, InHand
  <1>3. InHand = {}
    BY <1>a, WorkKinds
  <1>4. BackTypes'
    BY <1>1, <1>a DEF BackTypes, Doings
  <1>5. StreamOrder' /\ KnowsBus' /\ InitialFirst' /\ (\A p : Past(p)' = Past(p))
    BY <1>a, BusStays
  <1>6. ReportedOnce'
    BY <1>a, <1>2, <1>5, BackplaneConstants DEF ReportedOnce
  <1>7. CpuFirst'
    BY <1>a, <1>2 DEF CpuFirst
  <1>8. Registered'
    BY <1>a, <1>2 DEF Registered
  <1>9. Held'
    BY <1>a, <1>2, <1>3 DEF Held
  <1> QED BY <1>4, <1>5, <1>6, <1>7, <1>8, <1>9

\* Completion is told once, when every transport has completed.
LEMMA SendCompleteInv ==
    ASSUME BackInv, SendComplete, work = Idle, "complete" \notin ToSet(regs)
    PROVE  /\ regs' \in Seq(Registrations) /\ ToSet(regs') = ToSet(regs) \cup {"complete"}
           /\ Once(regs') /\ \A b \in initial \cup {"cpu"} : Precedes(regs', b, "complete")
  <1> USE DEF BackInv
  <1>1. regs \in Seq(Registrations) /\ regs' = Append(regs, "complete") /\ "complete" \in Registrations
    BY DEF BackTypes, SendComplete, Registrations
  <1>2. regs' \in Seq(Registrations) /\ ToSet(regs') = ToSet(regs) \cup {"complete"}
    BY <1>1, AppendSet
  <1>3. Once(regs')
    BY <1>1, OnceAppend DEF Registered
  <1>4. \A b \in initial \cup {"cpu"} : Precedes(regs', b, "complete")
    <2> TAKE b \in initial \cup {"cpu"}
    <2>1. Precedes(regs, b, "complete") /\ b # "complete"
      BY BackplaneConstants DEF Registered, BackTypes
    <2> QED BY <1>1, <2>1, PrecedesAppend
  <1> QED BY <1>2, <1>3, <1>4

\* What the backplane holds stays when it only tells the scheduler more.
LEMMA HeldStays ==
    ASSUME BackInv, ToSet(regs) \subseteq ToSet(regs'), work' = Idle \/ work'.step = "create", work = Idle,
           bp' \in {"first", "run"}, bp # "exited", UNCHANGED <<boards, created, off, lost, cut>>
    PROVE  Held'
  <1>1. InHand = {} /\ InHand' = {} /\ work'.step # "keep"
    BY WorkKinds DEF InHand
  <1> QED BY <1>1 DEF BackInv, Held

\* Entering the loop.
LEMMA EnterLoopInv == ASSUME BackInv, EnterLoop PROVE BackInv'
  <1> USE DEF BackInv
  <1>a. /\ UNCHANGED <<config, plugged, gone, hot, monitor, listing, known, usb, cpu, completed, boards, work,
                       initial, created, off, lost, cut>>
        /\ bp = "first" /\ bp' = "run" /\ work = Idle /\ completed = {}
    BY DEF EnterLoop, Registered, busVars, monitorVars
  <1>1. Starting = {} /\ Starting' = {} /\ Started = ToSet(regs) /\ Started' = ToSet(regs')
    BY <1>a, WorkKinds DEF Starting, Started
  <1>2. ToSet(regs) \subseteq {"nano3s"}
    BY <1>a, <1>1 DEF Registered
  <1>3. /\ regs' \in Seq(Registrations) /\ ToSet(regs) \subseteq ToSet(regs')
        /\ ToSet(regs') \subseteq {"nano3s", "complete"}
        /\ Once(regs') /\ \A b \in initial \cup {"cpu"} : Precedes(regs', b, "complete")
        /\ "complete" \in ToSet(regs') => completed = config \ {"nano3s"}
    <2>1. CASE config \cap {"usb", "cpu"} = {}
      <3>1. SendComplete
        BY <2>1 DEF EnterLoop
      <3>2. config \ {"nano3s"} = {}
        BY <2>1 DEF BackTypes
      <3> QED BY <1>a, <1>2, <3>1, <3>2, SendCompleteInv
    <2>2. CASE config \cap {"usb", "cpu"} # {}
      BY <1>2, <2>2 DEF EnterLoop, BackTypes, Registered
    <2> QED BY <2>1, <2>2
  <1>4. BackTypes'
    BY <1>a, <1>3 DEF BackTypes
  <1>5. StreamOrder' /\ KnowsBus' /\ InitialFirst' /\ (\A p : Past(p)' = Past(p))
    BY <1>a, BusStays
  <1>6. ReportedOnce'
    BY <1>a, <1>1, <1>3, <1>5, BackplaneConstants DEF ReportedOnce
  <1>7. CpuFirst'
    BY <1>a, <1>1, <1>3 DEF CpuFirst
  <1>8. Registered'
    BY <1>a, <1>1, <1>3 DEF Registered
  <1>9. Held'
    BY <1>a, <1>3, HeldStays
  <1> QED BY <1>4, <1>5, <1>6, <1>7, <1>8, <1>9

\* The factory makes the board, or fails.
LEMMA CreateBoardInv == ASSUME BackInv, CreateBoard PROVE BackInv'
  <1> USE DEF BackInv
  <1>a. /\ UNCHANGED <<config, plugged, gone, hot, monitor, listing, known, usb, cpu, completed, boards, bp,
                       regs, initial, off, lost, cut>>
        /\ work.step = "create" /\ work # Idle
    BY WorkKinds DEF CreateBoard, boardRest, busVars, monitorVars
  <1>1. work.b \in Plugs \cup {"cpu", "nano3s"}
    BY <1>a, WorkIsDoing
  <1>2. Starting = {work.b} /\ InHand = {}
    BY <1>a DEF Starting, InHand
  <1>3. \/ work' = Doing("register", work.b) /\ created' = created \cup {work.b}
        \/ work' = Idle /\ created' = created
    BY DEF CreateBoard
  <1>4. Starting' \subseteq Starting /\ Started' \subseteq Started /\ work'.step # "keep"
        /\ created' \subseteq created \cup InHand'
    BY <1>a, <1>2, <1>3, WorkKinds DEF Starting, Started, InHand
  <1>5. BackTypes'
    BY <1>a, <1>1, <1>3 DEF BackTypes, Doings
  <1>6. StreamOrder' /\ KnowsBus' /\ InitialFirst' /\ (\A p : Past(p)' = Past(p))
    BY <1>a, BusStays
  <1>7. ReportedOnce'
    BY <1>a, <1>4, <1>6 DEF ReportedOnce
  <1>8. CpuFirst'
    BY <1>a, <1>4 DEF CpuFirst
  <1>9. Registered'
    BY <1>a, <1>4 DEF Registered, Held
  <1>10. Held'
    BY <1>a, <1>2, <1>4 DEF Held
  <1> QED BY <1>5, <1>6, <1>7, <1>8, <1>9, <1>10

\* A board is kept; one under its id is replaced.
LEMMA KeepBoardInv ==
    ASSUME NEW b, KeepBoard(b), b \notin Range(boards), \A id \in DOMAIN boards : BoardId(boards[id]) = id
    PROVE  /\ Range(boards') \subseteq Range(boards) \cup {b}
           /\ Range(boards) \cup {b} \cup lost \subseteq Range(boards') \cup lost'
           /\ \A id \in DOMAIN boards' : BoardId(boards'[id]) = id
           /\ \A c \in lost' \ lost : c # b /\ BoardId(c) = BoardId(b)
           /\ work' = Idle
  <1>0. PICK k : k = BoardId(b)
    OBVIOUS
  <1>a. /\ boards' = [id \in DOMAIN boards \cup {k} |-> IF id = k THEN b ELSE boards[id]]
        /\ lost' = (IF k \in DOMAIN boards THEN lost \cup {boards[k]} ELSE lost)
        /\ work' = Idle
    BY <1>0 DEF KeepBoard
  <1>b. /\ DOMAIN boards' = DOMAIN boards \cup {k} /\ boards'[k] = b
        /\ \A i \in DOMAIN boards : i # k => boards'[i] = boards[i]
    BY <1>a
  <1>1. /\ DOMAIN boards' = DOMAIN boards \cup {BoardId(b)} /\ boards'[BoardId(b)] = b
        /\ \A i \in DOMAIN boards : i # BoardId(b) => boards'[i] = boards[i]
        /\ lost' = (IF BoardId(b) \in DOMAIN boards THEN lost \cup {boards[BoardId(b)]} ELSE lost)
        /\ work' = Idle
    BY <1>0, <1>a, <1>b, Zenon
  <1>2. Range(boards') \subseteq Range(boards) \cup {b}
    BY <1>1 DEF Range
  <1>3. Range(boards) \cup {b} \cup lost \subseteq Range(boards') \cup lost'
    BY <1>1 DEF Range
  <1>4. \A id \in DOMAIN boards' : BoardId(boards'[id]) = id
    BY <1>1
  <1>5. \A c \in lost' \ lost : c # b /\ BoardId(c) = BoardId(b)
    BY <1>1 DEF Range
  <1> QED BY <1>1, <1>2, <1>3, <1>4, <1>5

\* The threads of a board are registered.
LEMMA StartBoardInv == ASSUME BackInv, StartBoard PROVE BackInv'
  <1> USE DEF BackInv
  <1>a. /\ UNCHANGED <<config, plugged, gone, hot, monitor, listing, known, usb, cpu, completed, bp,
                       initial, created, off, cut>>
        /\ work.step = "register" /\ work # Idle
    BY WorkKinds DEF StartBoard, boardRest, busVars, monitorVars
  <1>1. PICK b \in Plugs \cup {"cpu", "nano3s"} : b = work.b
    BY <1>a, WorkIsDoing
  <1>2. Starting = {b} /\ Started = ToSet(regs) \cup {b} /\ InHand = {b}
    BY <1>a, <1>1 DEF Starting, Started, InHand
  <1>3. b \notin ToSet(regs) /\ b # "complete" /\ (b \in initial \cup {"cpu"} => "complete" \notin ToSet(regs))
    BY <1>2, BackplaneConstants DEF Registered
  <1>4. regs \in Seq(Registrations) /\ regs' = Append(regs, b) /\ b \in Registrations
    BY <1>1 DEF BackTypes, StartBoard, Registrations
  <1>5. regs' \in Seq(Registrations) /\ ToSet(regs') = ToSet(regs) \cup {b} /\ Once(regs')
    BY <1>3, <1>4, AppendSet, OnceAppend DEF Registered
  <1>6. \A c \in initial \cup {"cpu"} : Precedes(regs', c, "complete")
    <2> TAKE c \in initial \cup {"cpu"}
    <2>1. Precedes(regs, c, "complete") /\ c # "complete"
      BY BackplaneConstants DEF Registered, BackTypes
    <2>2. b # c \/ "complete" \notin ToSet(regs)
      BY <1>3
    <2> QED BY <1>4, <2>1, <2>2, PrecedesAppend
  <1>7. b \notin Range(boards)
    BY <1>3 DEF Held
  <1>8. \/ KeepBoard(b)
        \/ work' = Doing("keep", b) /\ UNCHANGED <<boards, lost>>
    BY <1>1 DEF StartBoard
  <1>9. work' = Idle \/ work' = Doing("keep", b)
    BY <1>8 DEF KeepBoard
  <1>10. Starting' = {} /\ Started' = Started /\ (work' = Doing("keep", b) => InHand' = {b})
    BY <1>2, <1>5, <1>9, WorkKinds DEF Starting, Started, InHand
  <1>11. BackTypes'
    BY <1>a, <1>5, <1>9 DEF BackTypes, Doings
  <1>12. StreamOrder' /\ KnowsBus' /\ InitialFirst' /\ (\A p : Past(p)' = Past(p))
    BY <1>a, BusStays
  <1>13. ReportedOnce'
    BY <1>a, <1>10, <1>12 DEF ReportedOnce
  <1>14. CpuFirst'
    BY <1>a, <1>10 DEF CpuFirst
  <1>15. Registered'
    BY <1>a, <1>3, <1>5, <1>6, <1>10 DEF Registered, Held
  <1>16. Held'
    <2>1. CASE KeepBoard(b)
      <3>1. /\ Range(boards') \subseteq Range(boards) \cup {b}
            /\ Range(boards) \cup {b} \cup lost \subseteq Range(boards') \cup lost'
            /\ \A id \in DOMAIN boards' : BoardId(boards'[id]) = id
            /\ \A c \in lost' \ lost : c # b /\ BoardId(c) = BoardId(b)
            /\ work' = Idle /\ work'.step # "keep" /\ b # "complete"
        BY <1>3, <1>7, <2>1, KeepBoardInv, WorkKinds DEF Held
      <3>2. \A c \in lost' : \E d \in ToSet(regs') : d # c /\ BoardId(d) = BoardId(c)
        BY <1>5, <3>1 DEF Held
      <3>3. created' \subseteq Range(boards') \cup off' \cup lost' \cup cut' \cup InHand'
        BY <1>a, <1>2, <3>1 DEF Held
      <3>4. bp # "exited"
        BY <1>a DEF Held
      <3> QED BY <1>a, <1>5, <3>1, <3>2, <3>3, <3>4 DEF Held
    <2>2. CASE work' = Doing("keep", b) /\ UNCHANGED <<boards, lost>>
      <3>1. work'.step = "keep" /\ work'.b = b
        BY <2>2, WorkKinds
      <3> QED BY <1>a, <1>2, <1>5, <1>7, <1>10, <2>2, <3>1 DEF Held
    <2> QED BY <1>8, <2>1, <2>2
  <1> QED BY <1>11, <1>12, <1>13, <1>14, <1>15, <1>16

\* A board with more threads is kept.
LEMMA RestRegisteredInv == ASSUME BackInv, RestRegistered PROVE BackInv'
  <1> USE DEF BackInv
  <1>a. /\ UNCHANGED <<config, plugged, gone, hot, monitor, listing, known, usb, cpu, completed, bp,
                       regs, initial, created, off, cut>>
        /\ work.step = "keep" /\ work # Idle /\ KeepBoard(work.b)
    BY WorkKinds DEF RestRegistered, boardRest, busVars, monitorVars
  <1>1. Starting = {} /\ InHand = {work.b} /\ Started = ToSet(regs)
        /\ work.b \in ToSet(regs) /\ work.b \notin Range(boards) /\ work.b # "complete"
    BY <1>a, WorkIsDoing, BackplaneConstants DEF Starting, Started, InHand, Held
  <1>2. /\ Range(boards') \subseteq Range(boards) \cup {work.b}
        /\ Range(boards) \cup {work.b} \cup lost \subseteq Range(boards') \cup lost'
        /\ \A id \in DOMAIN boards' : BoardId(boards'[id]) = id
        /\ \A c \in lost' \ lost : c # work.b /\ BoardId(c) = BoardId(work.b)
        /\ work' = Idle
    BY <1>a, <1>1, KeepBoardInv DEF Held
  <1>3. Starting' = {} /\ Started' = Started /\ work'.step # "keep"
    BY <1>a, <1>1, <1>2, WorkKinds DEF Starting, Started
  <1>4. BackTypes'
    BY <1>a, <1>2 DEF BackTypes
  <1>5. StreamOrder' /\ KnowsBus' /\ InitialFirst' /\ (\A p : Past(p)' = Past(p))
    BY <1>a, BusStays
  <1>6. ReportedOnce' /\ CpuFirst'
    BY <1>a, <1>3, <1>5 DEF ReportedOnce, CpuFirst
  <1>7. bp # "exited" /\ bp # "start"
    BY <1>a DEF Held
  <1>8. Registered'
    BY <1>a, <1>1, <1>3, <1>7 DEF Registered
  <1>9. \A c \in lost' : \E d \in ToSet(regs') : d # c /\ BoardId(d) = BoardId(c)
    BY <1>a, <1>1, <1>2 DEF Held
  <1>10. created' \subseteq Range(boards') \cup off' \cup lost' \cup cut' \cup InHand'
    BY <1>a, <1>1, <1>2 DEF Held
  <1>11. Held'
    BY <1>a, <1>1, <1>2, <1>3, <1>7, <1>9, <1>10 DEF Held
  <1> QED BY <1>4, <1>5, <1>6, <1>8, <1>11

\* A board has been stopped.
LEMMA ShutDownInv == ASSUME BackInv, ShutDown PROVE BackInv'
  <1> USE DEF BackInv
  <1>a. /\ UNCHANGED <<config, plugged, gone, hot, monitor, listing, known, usb, cpu, completed, boards, bp,
                       regs, initial, created, lost, cut>>
        /\ work.step = "stop" /\ work # Idle /\ work' = Idle /\ off' = off \cup {work.b}
    BY WorkKinds DEF ShutDown, boardRest, busVars, monitorVars
  <1>1. Starting = {} /\ InHand = {work.b} /\ Started = ToSet(regs)
    BY <1>a DEF Starting, Started, InHand
  <1>2. Starting' = {} /\ Started' = Started /\ work'.step # "keep"
    BY <1>a, <1>1, WorkKinds DEF Starting, Started
  <1>3. BackTypes'
    BY <1>a DEF BackTypes
  <1>4. StreamOrder' /\ KnowsBus' /\ InitialFirst' /\ (\A p : Past(p)' = Past(p))
    BY <1>a, BusStays
  <1>5. ReportedOnce' /\ CpuFirst'
    BY <1>a, <1>2, <1>4 DEF ReportedOnce, CpuFirst
  <1>6. Registered'
    BY <1>a, <1>1, <1>2 DEF Registered
  <1>7. Held'
    BY <1>a, <1>1, <1>2 DEF Held
  <1> QED BY <1>3, <1>4, <1>5, <1>6, <1>7

\* The last transport to complete lets the scheduler know, once.
LEMMA CompletesInv ==
    ASSUME BackInv, NEW t \in {"usb", "cpu"}, t \in config, Completes(t), InLoop,
           UNCHANGED <<bp, config, initial, created, off, lost, cut>>
    PROVE  /\ regs' \in Seq(Registrations) /\ ToSet(regs') \ {"complete"} = ToSet(regs) \ {"complete"}
           /\ completed' = completed \cup {t} /\ Registered' /\ Held' /\ work' = Idle
  <1> USE DEF BackInv
  <1>a. completed' = completed \cup {t} /\ UNCHANGED <<boards, work>> /\ work = Idle /\ bp = "run"
    BY DEF Completes, InLoop
  <1>b. Starting' = {}
    BY <1>a, WorkKinds DEF Starting
  <1>1. CASE t \notin completed /\ LastToComplete(t)
    <2>1. SendComplete /\ "complete" \notin ToSet(regs)
      BY <1>1 DEF Completes, Registered
    <2>2. /\ regs' \in Seq(Registrations) /\ ToSet(regs') = ToSet(regs) \cup {"complete"} /\ Once(regs')
          /\ \A c \in initial \cup {"cpu"} : Precedes(regs', c, "complete")
      BY <1>a, <2>1, SendCompleteInv
    <2>3. completed' = config' \ {"nano3s"}
      BY <1>1, <1>a DEF LastToComplete
    <2>4. Registered'
      BY <1>a, <1>b, <2>2, <2>3 DEF Registered
    <2>5. Held'
      BY <1>a, <2>2, HeldStays
    <2> QED BY <1>a, <2>2, <2>4, <2>5
  <1>2. CASE ~(t \notin completed /\ LastToComplete(t))
    <2>1. regs' = regs
      BY <1>2 DEF Completes
    <2>2. "complete" \in ToSet(regs) => t \in completed
      BY DEF Registered
    <2>3. Registered'
      BY <1>a, <1>b, <2>1, <2>2 DEF Registered
    <2>4. Held'
      BY <1>a, <2>1, HeldStays
    <2> QED BY <1>a, <2>1, <2>3, <2>4 DEF BackTypes
  <1> QED BY <1>1, <1>2

\* An event of the USB transport.
LEMMA HandleUsbInv == ASSUME BackInv, HandleUsb PROVE BackInv'
  <1> USE DEF BackInv
  <1>a. /\ UNCHANGED <<config, plugged, gone, hot, monitor, listing, known, cpu, bp, initial>>
        /\ UNCHANGED <<created, off, lost, cut>>
        /\ bp = "run" /\ work = Idle /\ InLoop /\ usb # <<>> /\ usb' = Tail(usb)
    BY DEF HandleUsb, InLoop, busVars, monitorVars
  <1>t. usb \in Seq(UsbEvents)
    BY DEF BackTypes
  <1>b. ~Unlisted /\ "usb" \in config
    BY <1>a DEF KnowsBus, InitialFirst, Unlisted
  <1>c. Starting = {} /\ Started = ToSet(regs) /\ InHand = {}
    BY <1>a, WorkKinds
  <1>1. PICK e : e = Head(usb)
    OBVIOUS
  <1>2. e \in UsbEvents /\ usb' \in Seq(UsbEvents) /\ ToSet(usb) = ToSet(usb') \cup {e}
    BY <1>1, <1>a, <1>t, TailSet
  <1>3. \A r \in Plugs : AtMostOnce(usb', On(r)) /\ (e = On(r) => On(r) \notin ToSet(usb'))
    <2> TAKE r \in Plugs
    <2>1. AtMostOnce(usb, On(r))
      BY DEF ReportedOnce
    <2> QED BY <1>1, <1>a, <1>t, <2>1, AtMostOnceTail
  <1>4. \A r \in initial : Precedes(usb', On(r), Complete) /\ (e = Complete => On(r) \notin ToSet(usb))
    <2> TAKE r \in initial
    <2>1. Precedes(usb, On(r), Complete) /\ On(r) # Complete
      BY EventsDiffer DEF InitialFirst
    <2> QED BY <1>1, <1>a, <1>t, <2>1, PrecedesTail
  <1>5. StreamOrder' /\ KnowsBus'
    BY <1>a, <1>b DEF StreamOrder, KnowsBus, KnownPlugs, Unlisted
  <1>p. \A r : Past(r)' = Past(r)
    BY <1>a DEF Past
  <1>6. CASE e.type = "complete"
    <2>1. e = Complete /\ Completes("usb")
      BY <1>1, <1>2, <1>6, UsbEventKinds DEF HandleUsb
    <2>2. /\ regs' \in Seq(Registrations) /\ ToSet(regs') \ {"complete"} = ToSet(regs) \ {"complete"}
          /\ completed' = completed \cup {"usb"} /\ Registered' /\ Held' /\ work' = Idle
      BY <1>a, <1>b, <2>1, CompletesInv
    <2>3. \A r \in Plugs \cup {"cpu"} : r \in Started' <=> r \in Started
      BY <1>c, <2>2, WorkKinds, BackplaneConstants DEF Started, Starting
    <2>4. BackTypes'
      BY <1>a, <1>2, <2>2 DEF BackTypes
    <2>5. ReportedOnce'
      BY <1>a, <1>p, <1>2, <1>3, <2>3 DEF ReportedOnce
    <2>6. InitialFirst'
      BY <1>a, <1>b, <1>p, <1>2, <1>4, <2>1, <2>2 DEF InitialFirst, KnownPlugs
    <2>7. CpuFirst'
      BY <1>a, <2>2, <2>3 DEF CpuFirst
    <2> QED BY <1>5, <2>2, <2>4, <2>5, <2>6, <2>7
  <1>7. CASE e.type = "on"
    <2>1. PICK p \in Plugs : p = e.p /\ e = On(p)
      BY <1>2, <1>7, UsbEventKinds
    <2>2. /\ work' = (IF p \in IsBoard THEN Doing("create", p) ELSE Idle)
          /\ UNCHANGED <<regs, boards, completed>>
      BY <1>1, <1>7, <2>1 DEF HandleUsb, UsbConnected
    <2>3. /\ On(p) \in ToSet(usb) /\ On(p) \notin ToSet(usb') /\ p \notin ToSet(regs)
          /\ p \in known \/ Past(p)
      BY <1>2, <1>3, <1>c, <2>1 DEF ReportedOnce
    <2>4. "complete" \in ToSet(regs) => p \notin initial \cup {"cpu"}
      BY <1>b, <2>3, BackplaneConstants DEF Registered, InitialFirst
    <2>5. InitialFirst'
      BY <1>a, <1>p, <1>2, <1>4, <2>2 DEF InitialFirst, KnownPlugs
    <2>6. Starting' \subseteq {p} /\ Started' \subseteq Started \cup {p}
          /\ (work' = Idle \/ work'.step = "create")
      BY <1>c, <2>2, WorkKinds DEF Starting, Started
    <2>7. BackTypes'
      BY <1>a, <1>2, <2>2 DEF BackTypes, Doings
    <2>8. ReportedOnce'
      BY <1>a, <1>p, <1>2, <1>3, <2>3, <2>6 DEF ReportedOnce
    <2>9. CpuFirst'
      BY <1>a, <2>2, <2>6, BackplaneConstants DEF CpuFirst
    <2>10. Registered'
      BY <1>a, <2>2, <2>3, <2>4, <2>6 DEF Registered
    <2>11. Held'
      BY <1>a, <2>2, <2>6, HeldStays
    <2> QED BY <1>5, <2>5, <2>7, <2>8, <2>9, <2>10, <2>11
  <1>8. CASE e.type # "on" /\ e.type # "complete"
    <2>1. UsbDisconnected /\ UNCHANGED <<regs, completed>>
      BY <1>1, <1>8 DEF HandleUsb, UsbDisconnected
    <2>2. CASE DOMAIN boards = {} /\ UNCHANGED <<boards, work>>
      <3>1. BackTypes' /\ UNCHANGED <<Starting, Started>>
        BY <1>a, <1>2, <2>1, <2>2 DEF BackTypes, Starting, Started
      <3>2. ReportedOnce' /\ InitialFirst'
        BY <1>a, <1>p, <1>2, <1>3, <1>4, <2>1, <3>1 DEF ReportedOnce, InitialFirst, KnownPlugs
      <3>3. CpuFirst' /\ Registered'
        BY <1>a, <2>1, <2>2, <3>1 DEF CpuFirst, Registered
      <3>4. Held'
        BY <1>a, <2>1, <2>2, HeldStays
      <3> QED BY <1>5, <3>1, <3>2, <3>3, <3>4
    <2>3. ASSUME NEW id \in DOMAIN boards,
                 boards' = [i \in DOMAIN boards \ {id} |-> boards[i]], work' = Doing("stop", boards[id])
          PROVE  BackInv'
      <3>1. /\ DOMAIN boards' = DOMAIN boards \ {id}
            /\ \A i \in DOMAIN boards \ {id} : boards'[i] = boards[i]
        BY <2>3
      <3>2. Range(boards') \subseteq Range(boards) /\ Range(boards) \subseteq Range(boards') \cup {boards[id]}
        BY <3>1 DEF Range
      <3>3. /\ work'.step = "stop" /\ work'.b = boards[id] /\ Starting' = {} /\ Started' = Started
            /\ InHand' = {boards[id]}
        BY <1>c, <2>1, <2>3, WorkKinds DEF Starting, Started, InHand
      <3>4. boards[id] \in Plugs \cup {"cpu", "nano3s"}
        <4>1. boards[id] \in ToSet(regs)
          BY DEF Held, Range
        <4>2. boards[id] \in Registrations
          BY <4>1 DEF BackTypes, ToSet
        <4>3. boards[id] # "complete"
          BY DEF Held, Range
        <4> QED BY <4>2, <4>3 DEF Registrations
      <3>5. BackTypes'
        BY <1>a, <1>2, <2>1, <2>3, <3>4 DEF BackTypes, Doings
      <3>6. ReportedOnce' /\ InitialFirst'
        BY <1>a, <1>p, <1>2, <1>3, <1>4, <2>1, <3>3 DEF ReportedOnce, InitialFirst, KnownPlugs
      <3>7. CpuFirst' /\ Registered'
        BY <1>a, <2>1, <3>3 DEF CpuFirst, Registered
      <3>8. Held'
        BY <1>a, <1>c, <2>1, <3>1, <3>2, <3>3 DEF Held
      <3> QED BY <1>5, <3>5, <3>6, <3>7, <3>8
    <2> QED BY <2>1, <2>2, <2>3 DEF UsbDisconnected
  <1> QED BY <1>6, <1>7, <1>8

\* An event of the CPU miner's transport.
LEMMA HandleCpuInv == ASSUME BackInv, HandleCpu PROVE BackInv'
  <1> USE DEF BackInv
  <1>a. /\ UNCHANGED <<config, plugged, gone, hot, monitor, listing, known, usb, bp, initial>>
        /\ UNCHANGED <<created, off, lost, cut>>
        /\ bp = "run" /\ work = Idle /\ InLoop /\ cpu # <<>> /\ cpu' = Tail(cpu)
    BY DEF HandleCpu, InLoop, busVars, monitorVars
  <1>b. "cpu" \in config /\ "cpu" \notin completed
    BY <1>a DEF CpuFirst
  <1>c. "complete" \notin ToSet(regs)
    BY <1>b DEF Registered
  <1>d. Starting = {} /\ Started = ToSet(regs) /\ InHand = {}
    BY <1>a, WorkKinds
  <1>5. StreamOrder' /\ KnowsBus'
    BY <1>a DEF StreamOrder, KnowsBus, KnownPlugs, Unlisted
  <1>1. CASE cpu = <<"cpu", "complete">>
    <2>1. Head(cpu) = "cpu" /\ cpu' = <<"complete">> /\ cpu' # cpu
      BY <1>1, <1>a
    <2>2. work' = Doing("create", "cpu") /\ UNCHANGED <<regs, boards, completed>>
      BY <2>1 DEF HandleCpu
    <2>3. "cpu" \notin ToSet(regs)
      BY <1>1, <1>d DEF CpuFirst
    <2>a. work'.step = "create" /\ work'.b = "cpu" /\ ToSet(regs)' = ToSet(regs)
      BY <2>2, WorkKinds
    <2>b. Starting' = {"cpu"}
      BY <2>a DEF Starting
    <2>4. Starting' = {"cpu"} /\ Started' = ToSet(regs) \cup {"cpu"} /\ work'.step = "create"
      BY <2>a, <2>b, Zenon DEF Started
    <2>c. work' \in {Idle} \cup Doings
      BY <2>2 DEF Doings
    <2>5. BackTypes'
      BY <1>a, <2>1, <2>2, <2>c DEF BackTypes
    <2>6. ReportedOnce'
      BY <1>a, <1>d, <2>4, BackplaneConstants DEF ReportedOnce, Past
    <2>7. InitialFirst'
      BY <1>a, <2>2 DEF InitialFirst, KnownPlugs, Past
    <2>8. CpuFirst'
      BY <1>1, <1>a, <1>b, <2>1, <2>2 DEF CpuFirst
    <2>9. Registered'
      BY <1>a, <1>c, <2>2, <2>3, <2>4 DEF Registered
    <2>10. Held'
      BY <1>a, <2>2, <2>4, HeldStays
    <2> QED BY <1>5, <2>5, <2>6, <2>7, <2>8, <2>9, <2>10
  <1>2. CASE cpu = <<"complete">>
    <2>1. Head(cpu) = "complete" /\ cpu' = <<>>
      BY <1>2, <1>a
    <2>2. Completes("cpu")
      BY <2>1 DEF HandleCpu
    <2>3. /\ regs' \in Seq(Registrations) /\ ToSet(regs') \ {"complete"} = ToSet(regs) \ {"complete"}
          /\ completed' = completed \cup {"cpu"} /\ Registered' /\ Held' /\ work' = Idle
      BY <1>a, <1>b, <2>2, CompletesInv
    <2>4. \A r \in Plugs \cup {"cpu"} : r \in Started' <=> r \in Started
      BY <1>d, <2>3, WorkKinds, BackplaneConstants DEF Started, Starting
    <2>5. BackTypes'
      BY <1>a, <2>1, <2>3 DEF BackTypes
    <2>6. ReportedOnce'
      BY <1>a, <2>4 DEF ReportedOnce, Past
    <2>7. InitialFirst'
      BY <1>a, <2>3 DEF InitialFirst, KnownPlugs, Past
    <2>8. CpuFirst'
      BY <1>a, <1>b, <2>1, <2>3 DEF CpuFirst
    <2> QED BY <1>5, <2>3, <2>5, <2>6, <2>7, <2>8
  <1> QED BY <1>a, <1>1, <1>2 DEF BackTypes

\* The backplane shuts the boards down that it has.
LEMMA BoardsExitInv ==
    ASSUME BackInv, Exits, \A a, b \in cut' : a = b,
           cut \cup InHand \subseteq cut'
    PROVE  BackInv'
  <1> USE DEF BackInv
  <1>a. /\ UNCHANGED <<config, plugged, gone, hot, monitor, listing, known, usb, cpu, completed, regs,
                       initial, created, lost>>
        /\ bp' = "exited" /\ work' = Idle /\ off' = off \cup Range(boards) /\ boards' = <<>>
    BY DEF Exits, StopBoards, busVars, monitorVars
  <1>1. Range(<<>>) = {} /\ DOMAIN <<>> = {}
    BY DEF Range
  <1>2. Starting' = {} /\ Started' \subseteq Started /\ InHand' = {} /\ work'.step # "keep"
    BY <1>a, WorkKinds DEF Starting, Started, InHand
  <1>3. BackTypes'
    BY <1>a DEF BackTypes
  <1>4. StreamOrder' /\ KnowsBus' /\ InitialFirst' /\ (\A p : Past(p)' = Past(p))
    BY <1>a, BusStays
  <1>5. ReportedOnce' /\ CpuFirst'
    BY <1>a, <1>2, <1>4 DEF ReportedOnce, CpuFirst
  <1>6. Registered'
    BY <1>a, <1>2 DEF Registered
  <1>7. created' \subseteq Range(boards') \cup off' \cup lost' \cup cut' \cup InHand'
    BY <1>a DEF Held
  <1>8. Held'
    BY <1>a, <1>1, <1>2, <1>7 DEF Held
  <1> QED BY <1>3, <1>4, <1>5, <1>6, <1>8

\* The backplane ends by itself, or is cut off.
LEMMA BackEndsInv == ASSUME BackInv, StreamsEnd \/ DaemonEnds PROVE BackInv'
  <1>1. CASE StreamsEnd
    <2>1. cut' = cut /\ Exits /\ InHand = {}
      BY <1>1, WorkKinds DEF StreamsEnd, InLoop
    <2> QED BY <2>1, BoardsExitInv DEF BackInv, Held
  <1>2. CASE DaemonEnds
    <2>1. cut = {} /\ Exits /\ cut' = IF work = Idle THEN cut ELSE {work.b}
      BY <1>2 DEF DaemonEnds, BackInv, Held
    <2>2. InHand \subseteq cut' /\ \A a, b \in cut' : a = b
      BY <2>1, WorkKinds DEF InHand
    <2> QED BY <2>1, <2>2, BoardsExitInv
  <1> QED BY <1>1, <1>2

LEMMA BackStep == BackInv /\ [BackNext]_backVars => BackInv'
  <1> SUFFICES ASSUME BackInv, [BackNext]_backVars PROVE BackInv'
    OBVIOUS
  <1>1. CASE BackNext
    <2>1. CASE \E p \in Plugs : Plug(p) \/ Unplug(p)
      BY <2>1, PlugInv, UnplugInv
    <2>2. CASE ListDevices \/ Enumerate \/ WatchHotplug
      BY <2>2, ListDevicesInv, EnumerateInv, WatchHotplugInv
    <2>3. CASE BackStarts \/ EnterLoop \/ HandleUsb \/ HandleCpu
      BY <2>3, BackStartsInv, EnterLoopInv, HandleUsbInv, HandleCpuInv
    <2>4. CASE BoardSteps
      BY <2>4, CreateBoardInv, StartBoardInv, RestRegisteredInv, ShutDownInv DEF BoardSteps
    <2>5. CASE StreamsEnd \/ DaemonEnds
      BY <2>5, BackEndsInv
    <2> QED BY <1>1, <2>1, <2>2, <2>3, <2>4, <2>5 DEF BackNext
  <1>2. CASE UNCHANGED backVars
    <2>1. UNCHANGED <<config, plugged, gone, hot, monitor, listing, known, usb, cpu, initial>>
          /\ UNCHANGED planeVars
      BY <1>2 DEF backVars, busVars, monitorVars
    <2>2. UNCHANGED <<completed, boards, bp, work, regs, Starting, Started>> /\ Held' /\ Registered' /\ CpuFirst'
      BY <2>1, PlaneStays
    <2>3. StreamOrder' /\ KnowsBus' /\ InitialFirst' /\ (\A p : Past(p)' = Past(p))
      BY <2>1, <2>2, BusStays
    <2>4. BackTypes' /\ ReportedOnce'
      BY <2>1, <2>2, <2>3 DEF BackInv, BackTypes, ReportedOnce
    <2> QED BY <2>2, <2>3, <2>4 DEF BackInv
  <1> QED BY <1>1, <1>2

-----------------------------------------------------------------------------
(* The match of a device with a board type.                                *)

\* What find_descriptor finds matches, and nothing that matches scores more,
\* however many board types are registered.
LEMMA FoundScoresMost ==
    ASSUME NEW n \in Nat, NEW ps \in [1..n -> [Fields -> Matchers]], NEW dev,
           FindDescriptor(ps, dev) # 0
    PROVE  /\ FindDescriptor(ps, dev) \in 1..n
           /\ \A i \in 1..n : Matches(ps[i], dev)
                 => Specificity(ps[FindDescriptor(ps, dev)]) >= Specificity(ps[i])
  <1> DEFINE fit  == {i \in DOMAIN ps : Matches(ps[i], dev)}
             best == {i \in fit : \A j \in fit : Specificity(ps[i]) >= Specificity(ps[j])}
             d    == CHOOSE i \in best : \A j \in best : i >= j
  <1>1. FindDescriptor(ps, dev) = IF fit = {} THEN 0 ELSE d
    BY DEF FindDescriptor
  <1>2. fit # {} /\ FindDescriptor(ps, dev) = d
    BY <1>1
  <1>3. fit \subseteq 1..n
    OBVIOUS
  <1>4. \A i \in 1..n : Specificity(ps[i]) \in 0..40
    <2> TAKE i \in 1..n
    <2>1. ps[i]["manufacturer"] \in Matchers /\ ps[i]["product"] \in Matchers
      BY DEF Fields
    <2>2. \A m \in Matchers : MatcherScore(m.how) \in {0, 10, 20}
      BY DEF Matchers, MatcherScore, Score
    <2>3. PICK a \in {0, 10, 20} : a = MatcherScore(ps[i]["manufacturer"].how)
      BY <2>1, <2>2
    <2>4. PICK b \in {0, 10, 20} : b = MatcherScore(ps[i]["product"].how)
      BY <2>1, <2>2
    <2>5. Specificity(ps[i]) = a + b
      BY <2>3, <2>4 DEF Specificity
    <2> QED BY <2>5
  <1>5. \A i \in fit : Matches(ps[i], dev)
    OBVIOUS
  <1>6. \A i \in 1..n : Matches(ps[i], dev) => i \in fit
    OBVIOUS
  <1>7. best = {i \in fit : \A j \in fit : Specificity(ps[i]) >= Specificity(ps[j])}
    OBVIOUS
  <1> HIDE DEF fit
  <1>8. best # {}
    <2> DEFINE W == {40 - Specificity(ps[i]) : i \in fit}
    <2>0. \A i \in fit : 40 - Specificity(ps[i]) \in Nat
      <3> TAKE i \in fit
      <3>1. PICK a \in 0..40 : a = Specificity(ps[i])
        BY <1>3, <1>4
      <3>2. 40 - a \in Nat
        OBVIOUS
      <3> QED BY <3>1, <3>2
    <2>1. W \subseteq Nat /\ W # {}
      BY <2>0, <1>2, Zenon
    <2>2. PICK w \in W : \A y \in W : w <= y
      BY <2>1, NatMin
    <2>3. PICK i \in fit : w = 40 - Specificity(ps[i])
      BY <2>2
    <2>4. \A j \in fit : Specificity(ps[i]) >= Specificity(ps[j])
      <3> TAKE j \in fit
      <3>1. 40 - Specificity(ps[i]) <= 40 - Specificity(ps[j])
        BY <2>2, <2>3
      <3>2. PICK a \in 0..40 : a = Specificity(ps[i])
        BY <1>3, <1>4
      <3>3. PICK b \in 0..40 : b = Specificity(ps[j])
        BY <1>3, <1>4
      <3> QED BY <3>1, <3>2, <3>3
    <2> QED BY <2>4, <1>7
  <1>9. best \subseteq 1..n /\ best \subseteq fit
    BY <1>3, <1>7
  <1> HIDE DEF best
  <1>10. \E i \in best : \A j \in best : i >= j
    <2> DEFINE W == {n - i : i \in best}
    <2>0. \A i \in best : n - i \in Nat
      BY <1>9
    <2>1. W \subseteq Nat /\ W # {}
      BY <2>0, <1>8, Zenon
    <2>2. PICK w \in W : \A y \in W : w <= y
      BY <2>1, NatMin
    <2>3. PICK i \in best : w = n - i
      BY <2>2
    <2>4. \A j \in best : i >= j
      <3> TAKE j \in best
      <3>1. n - i <= n - j
        BY <2>2, <2>3
      <3> QED BY <1>9, <3>1
    <2> QED BY <2>4
  <1>11. d \in best
    BY <1>10
  <1> HIDE DEF d
  <1>12. d \in fit /\ \A j \in fit : Specificity(ps[d]) >= Specificity(ps[j])
    BY <1>7, <1>11
  <1> QED BY <1>2, <1>3, <1>6, <1>12

\* So nothing that matches asks as much in every field and more in one.
LEMMA FoundIsMostSpecific ==
    ASSUME NEW n \in Nat, NEW ps \in [1..n -> [Fields -> Matchers]], NEW dev,
           FindDescriptor(ps, dev) # 0,
           NEW i \in 1..n, Matches(ps[i], dev),
           \A f \in Fields : Score(ps[i][f].how) >= Score(ps[FindDescriptor(ps, dev)][f].how)
    PROVE  \A f \in Fields : Score(ps[i][f].how) = Score(ps[FindDescriptor(ps, dev)][f].how)
  <1>1. PICK d : d = FindDescriptor(ps, dev)
    OBVIOUS
  <1>2. d \in 1..n /\ Specificity(ps[d]) >= Specificity(ps[i])
    BY <1>1, FoundScoresMost
  <1> DEFINE score(k, f) == Score(ps[k][f].how)
  <1>3. \A k \in 1..n, f \in Fields : score(k, f) \in Nat
    <2> TAKE k \in 1..n, f \in Fields
    <2>1. ps[k][f] \in Matchers
      OBVIOUS
    <2> QED BY <2>1 DEF Matchers, Score
  <1>4. \A k \in 1..n : Specificity(ps[k]) = score(k, "manufacturer") + score(k, "product")
    BY DEF Specificity, MatcherScore
  <1>5. \A f \in Fields : score(i, f) >= score(d, f)
    BY <1>1
  <1>6. "manufacturer" \in Fields /\ "product" \in Fields
        /\ \A f \in Fields : f = "manufacturer" \/ f = "product"
    BY DEF Fields
  <1> HIDE DEF score
  <1>7. score(i, "manufacturer") = score(d, "manufacturer") /\ score(i, "product") = score(d, "product")
    BY <1>2, <1>3, <1>4, <1>5, <1>6, SMTT(30)
  <1> QED BY <1>1, <1>6, <1>7 DEF score

-----------------------------------------------------------------------------
\* No board is lost or invented, on any number of devices with any serial
\* numbers, whichever transports are configured and however plugging races
\* the list: completion is told once and behind the boards of the start, a stay
\* becomes at most one board, the monitor ends up knowing the bus, and no board
\* is left running (backplane.rs:127, usb.rs:196).
THEOREM BoardsStayAccountedFor == BackSpec => []BoardsAccountedFor
  <1> DEFINE Inv == BackInv /\ MatchInit
             Next == BackNext /\ UNCHANGED matchVars
             v == <<backVars, matchVars>>
  <1>1. BackInit /\ MatchInit => Inv
    BY BackInitInv
  <1>2. Inv /\ [Next]_v => Inv'
    <2> SUFFICES ASSUME Inv, [Next]_v PROVE Inv'
      OBVIOUS
    <2>1. [BackNext]_backVars /\ UNCHANGED matchVars
      OBVIOUS
    <2>2. BackInv'
      BY <2>1, BackStep
    <2>3. MatchInit'
      BY <2>1 DEF MatchInit, matchVars
    <2> QED BY <2>2, <2>3
  <1>3. Inv => BoardsAccountedFor
    <2> SUFFICES ASSUME Inv PROVE BoardsAccountedFor
      OBVIOUS
    <2>1. CompletionComesLast
      <3> DEFINE at == {i \in DOMAIN regs : regs[i] = "complete"}
      <3>0. \A i, k \in DOMAIN regs : regs[i] = regs[k] => i = k
        BY DEF BackInv, Registered, Once
      <3>1. at = {} \/ \E i : at = {i}
        BY <3>0
      <3>2. Cardinality(at) <= 1
        <4>1. Cardinality({}) = 0 /\ \A i : Cardinality({i}) = 1
          BY FS_EmptySet, FS_Singleton
        <4>2. Cardinality(at) = 0 \/ Cardinality(at) = 1
          BY <3>1, <4>1
        <4> QED BY <4>2
      <3>3. ASSUME NEW i \in at, NEW b \in ToSet(regs) \cap (initial \cup {"cpu"})
            PROVE  \E k \in 1..i : regs[k] = b
        <4>1. PICK k \in DOMAIN regs : regs[k] = b
          BY DEF ToSet
        <4>2. k < i
          BY <4>1 DEF BackInv, Registered, Precedes
        <4>3. regs \in Seq(Registrations)
          BY DEF BackInv, BackTypes
        <4>4. k \in 1..i
          BY <4>2, <4>3
        <4> QED BY <4>1, <4>4
      <3> HIDE DEF at
      <3> QED BY <3>2, <3>3 DEF CompletionComesLast, at
    <2>2. EachPlugOnce
      <3>1. ASSUME monitor = "watch", hot = <<>> PROVE known = plugged
        BY <3>1, EmptyQueues DEF BackInv, KnowsBus, KnownPlugs, Unlisted, BackTypes
      <3> QED BY <3>1 DEF EachPlugOnce, BackInv, Registered, Once
    <2>3. NoBoardLeftOn
      <3>1. Held
        BY DEF BackInv
      <3> QED BY <3>1, WorkKinds DEF NoBoardLeftOn, Held
    <2>4. MostSpecificWins
      <3>1. patterns \in [1..2 -> [Fields -> Matchers]] /\ DOMAIN device = Fields /\ DOMAIN patterns = 1..2
        BY DEF MatchInit
      <3>2. PICK d : d = FindDescriptor(patterns, device)
        OBVIOUS
      <3>3. \A i \in 1..2 : (d # 0 /\ Matches(patterns[i], device)
                             /\ \A f \in Fields : Score(patterns[i][f].how) >= Score(patterns[d][f].how))
               => \A f \in Fields : Score(patterns[i][f].how) = Score(patterns[d][f].how)
        <4> SUFFICES ASSUME NEW i \in 1..2, d # 0, Matches(patterns[i], device),
                            \A f \in Fields : Score(patterns[i][f].how) >= Score(patterns[d][f].how)
                     PROVE  \A f \in Fields : Score(patterns[i][f].how) = Score(patterns[d][f].how)
          OBVIOUS
        <4>1. 2 \in Nat /\ patterns \in [1..2 -> [Fields -> Matchers]]
          BY <3>1
        <4>2. FindDescriptor(patterns, device) # 0
          BY <3>2
        <4>3. \A f \in Fields :
                 Score(patterns[i][f].how) >= Score(patterns[FindDescriptor(patterns, device)][f].how)
          BY <3>2
        <4>4. \A f \in Fields :
                 Score(patterns[i][f].how) = Score(patterns[FindDescriptor(patterns, device)][f].how)
          BY <4>1, <4>2, <4>3, FoundIsMostSpecific
        <4> QED BY <3>2, <4>4
      <3> QED BY <3>1, <3>2, <3>3 DEF MostSpecificWins
    <2> QED BY <2>1, <2>2, <2>3, <2>4 DEF BoardsAccountedFor
  <1> QED BY <1>1, <1>2, <1>3, PTL DEF BackSpec

-----------------------------------------------------------------------------
(* Ranges of extranonce2 values.                                           *)

\* Values that a word holds.
Word == 0..WordMax

Ranges == {r \in [min : Word, max : Word, size : 1..MaxSize] : r.min <= r.max /\ r.max <= MaxForSize(r.size)}

LEMMA WordFacts ==
    /\ WordMax \in Nat
    /\ \A n \in Word : Wrap(n) = n
    /\ \A size \in 1..MaxSize : MaxForSize(size) \in Nat
  <1>1. MaxSize \in Nat \ {0} /\ \A size \in 0..MaxSize : Byte^size \in Nat \ {0}
    BY JobDataConstants
  <1>2. PICK B \in Nat \ {0} : B = Byte^MaxSize
    BY <1>1
  <1>3. WordMax = B - 1
    BY <1>2 DEF WordMax
  <1>4. WordMax \in Nat
    BY <1>3
  <1>5. \A n \in 0..(B - 1) : n % B = n
    OBVIOUS
  <1>6. \A n \in Word : Wrap(n) = n
    BY <1>3, <1>5 DEF Word, Wrap
  <1>7. \A size \in 1..MaxSize : MaxForSize(size) \in Nat
    <2> TAKE size \in 1..MaxSize
    <2>1. PICK b \in Nat \ {0} : b = Byte^size
      BY <1>1
    <2>2. b - 1 \in Nat
      OBVIOUS
    <2> QED BY <1>4, <2>1, <2>2 DEF MaxForSize
  <1> QED BY <1>4, <1>6, <1>7

\* What a valid range is.
LEMMA NewRangeIs ==
    ASSUME NEW min \in Nat, NEW max \in Nat, NEW size \in 1..MaxSize, min <= max, max <= MaxForSize(size)
    PROVE  /\ NewRange(min, max, size) = [min |-> min, max |-> max, size |-> size]
           /\ NewRange(min, max, size) # NoValue
  <1>1. ValidSize(size)
    BY JobDataConstants DEF ValidSize
  <1>2. NewRange(min, max, size) = [min |-> min, max |-> max, size |-> size]
    BY <1>1 DEF NewRange
  <1>3. [min |-> min, max |-> max, size |-> size] \in [min : Nat, max : Nat, size : Nat]
    BY JobDataConstants
  <1> QED BY <1>2, <1>3, JobDataConstants

\* Products grow with their factors.
LEMMA TimesGrows ==
    ASSUME NEW a \in Nat, NEW b \in Nat, NEW q \in Nat, a <= b
    PROVE  a * q <= b * q /\ a * q \in Nat /\ b * q \in Nat
  <1>1. PICK c \in Nat : b = a + c
    <2>1. b - a \in Nat /\ b = a + (b - a)
      OBVIOUS
    <2> QED BY <2>1
  <1>2. b * q = a * q + c * q
    BY <1>1
  <1>3. a * q \in Nat /\ c * q \in Nat
    OBVIOUS
  <1> QED BY <1>2, <1>3

\* Values in the first k of n chunks of a total.
ChunkSum(total, n, k) == k * (total \div n) + (IF k <= total % n THEN k ELSE total % n)

\* The chunks add up, each of the same size or one more.
LEMMA ChunksAddUp ==
    ASSUME NEW total \in Nat, NEW n \in Nat \ {0}, n <= total
    PROVE  /\ ChunkSum(total, n, 0) = 0 /\ ChunkSum(total, n, n) = total
           /\ \A k \in 0..n : ChunkSum(total, n, k) \in 0..total
           /\ \A k \in 1..n : /\ ChunkSum(total, n, k) = ChunkSum(total, n, k - 1) + ChunkSize(total, n, k)
                              /\ ChunkSize(total, n, k) \in Nat \ {0}
                              /\ ChunkSize(total, n, k) \in {total \div n, total \div n + 1}
           /\ \A j, k \in 0..n : j <= k => ChunkSum(total, n, j) <= ChunkSum(total, n, k)
           /\ total \div n \in Nat
  <1>1. PICK q \in Nat : q = total \div n
    OBVIOUS
  <1>2. PICK m \in 0..(n - 1) : m = total % n
    OBVIOUS
  <1>3. total = n * q + m
    BY <1>1, <1>2
  <1>4. q # 0
    <2> SUFFICES ASSUME q = 0 PROVE FALSE
      OBVIOUS
    <2>1. n * q = 0
      OBVIOUS
    <2> QED BY <1>3, <2>1
  <1> DEFINE sum(k) == k * q + (IF k <= m THEN k ELSE m)
             size(k) == q + (IF k <= m THEN 1 ELSE 0)
  <1>5. \A k : ChunkSum(total, n, k) = sum(k) /\ ChunkSize(total, n, k) = size(k)
    BY <1>1, <1>2 DEF ChunkSum, ChunkSize
  <1>6. sum(0) = 0
    OBVIOUS
  <1>7. sum(n) = total
    <2>1. n * q \in Nat
      OBVIOUS
    <2> QED BY <1>3, <2>1
  <1>8. \A k \in 1..n : sum(k) = sum(k - 1) + size(k) /\ size(k) \in Nat \ {0} /\ size(k) \in {q, q + 1}
    <2> TAKE k \in 1..n
    <2>1. PICK j \in Nat : j = k - 1 /\ k = j + 1
      OBVIOUS
    <2>2. k * q = j * q + q /\ j * q \in Nat
      BY <2>1
    <2>3. sum(k - 1) = j * q + (IF j <= m THEN j ELSE m)
      BY <2>1
    <2>4. PICK p \in Nat : p = j * q
      BY <2>2
    <2>5. sum(k) = p + q + (IF j + 1 <= m THEN j + 1 ELSE m)
      BY <2>1, <2>2, <2>4
    <2> QED BY <1>4, <2>1, <2>3, <2>4, <2>5
  <1>9. \A j, k \in 0..n : j <= k => sum(j) <= sum(k) /\ sum(j) \in Nat /\ sum(k) \in Nat
    <2> TAKE j, k \in 0..n
    <2> HAVE j <= k
    <2>1. j * q <= k * q /\ j * q \in Nat /\ k * q \in Nat
      BY TimesGrows
    <2>2. PICK a \in Nat : a = j * q
      BY <2>1
    <2>3. PICK b \in Nat : b = k * q
      BY <2>1
    <2> QED BY <2>1, <2>2, <2>3
  <1>10. \A k \in 0..n : sum(k) \in 0..total
    BY <1>7, <1>9
  <1> HIDE DEF sum, size
  <1> QED BY <1>1, <1>5, <1>6, <1>7, <1>8, <1>9, <1>10

\* A range holds one value more than the distance of its ends, but for the
\* whole space.
LEMMA LengthOfRange ==
    ASSUME NEW r \in Ranges
    PROVE  /\ RangeLen(r) \in Nat /\ r.min + RangeLen(r) <= r.max + 1
           /\ r.max - r.min # WordMax => r.min + RangeLen(r) = r.max + 1
           /\ r.max - r.min = WordMax => r.min = 0 /\ r.max = WordMax /\ RangeLen(r) = WordMax
           /\ r.min \in Nat /\ r.max \in Nat /\ r.min <= r.max /\ r.max <= WordMax
           /\ r.size \in 1..MaxSize /\ r.max <= MaxForSize(r.size) /\ MaxForSize(r.size) \in Nat
  <1>1. PICK a \in Nat : a = r.min
    BY DEF Ranges, Word
  <1>2. PICK b \in Nat : b = r.max
    BY WordFacts DEF Ranges, Word
  <1>3. a <= b /\ b <= WordMax /\ r.size \in 1..MaxSize /\ b <= MaxForSize(r.size)
    BY <1>1, <1>2, WordFacts DEF Ranges, Word
  <1>4. PICK w \in Nat : w = WordMax
    BY WordFacts
  <1>5. RangeLen(r) = IF b - a = w THEN w ELSE b - a + 1
    BY <1>1, <1>2, <1>4 DEF RangeLen
  <1>6. MaxForSize(r.size) \in Nat
    BY <1>3, WordFacts
  <1> QED BY <1>1, <1>2, <1>3, <1>4, <1>5, <1>6

\* The loop of split starts each chunk where the one before it ends, and none
\* of its sums wraps.
LEMMA SplitStartsAt ==
    ASSUME NEW r \in Ranges, NEW n \in Nat \ {0}, n <= RangeLen(r)
    PROVE  \A i \in 1..n : SplitStarts(r, n)[i] = r.min + ChunkSum(RangeLen(r), n, i - 1)
  <1> DEFINE total == RangeLen(r)
             sum(k) == ChunkSum(total, n, k)
             size(k) == ChunkSize(total, n, k)
             g == [i \in 1..n |-> r.min + sum(i - 1)]
             Body(f) == [i \in 1..n |-> IF i = 1 THEN r.min ELSE Wrap(f[i - 1] + size(i - 1))]
             s == SplitStarts(r, n)
  <1>1. /\ r.min \in Nat /\ total \in Nat /\ r.min + total <= WordMax + 1 /\ WordMax \in Nat
    <2>1. PICK a \in Nat : a = r.min
      BY LengthOfRange
    <2>2. PICK b \in Nat : b = r.max
      BY LengthOfRange
    <2> QED BY <2>1, <2>2, LengthOfRange, WordFacts
  <1>2. /\ sum(0) = 0 /\ sum(n) = total
        /\ \A k \in 0..n : sum(k) \in 0..total
        /\ \A k \in 1..n : sum(k) = sum(k - 1) + size(k) /\ size(k) \in Nat \ {0}
    BY <1>1, ChunksAddUp
  <1>3. s = CHOOSE f : f = Body(f)
    BY DEF SplitStarts
  <1> HIDE DEF total, sum, size, s
  \* Between the chunks there is no wrap.
  <1>4. \A i \in 1..n : i # 1 =>
            /\ i - 1 \in 1..n /\ i - 1 - 1 \in 0..n
            /\ Wrap((r.min + sum(i - 1 - 1)) + size(i - 1)) = r.min + sum(i - 1)
    <2> TAKE i \in 1..n
    <2> HAVE i # 1
    <2>1. PICK k \in 1..n : k = i - 1 /\ k < n
      OBVIOUS
    <2>2. sum(k) = sum(k - 1) + size(k) /\ size(k) \in Nat /\ size(k + 1) \in Nat \ {0}
          /\ sum(k) \in Nat /\ sum(k - 1) \in Nat /\ sum(k + 1) \in 0..total
          /\ sum(k + 1) = sum(k) + size(k + 1)
      <3>1. k \in 0..n /\ k - 1 \in 0..n /\ k + 1 \in 1..n /\ k + 1 \in 0..n /\ (k + 1) - 1 = k
        BY <2>1
      <3> QED BY <3>1, <1>1, <1>2
    <2>3. r.min + sum(k) \in 0..WordMax
      BY <1>1, <2>2
    <2>4. (r.min + sum(k - 1)) + size(k) = r.min + sum(k)
      BY <1>1, <2>2
    <2>5. Wrap(r.min + sum(k)) = r.min + sum(k)
      BY <2>3, WordFacts DEF Word
    <2> QED BY <2>1, <2>4, <2>5
  <1>5. g = Body(g)
    <2>1. \A i \in 1..n : g[i] = IF i = 1 THEN r.min ELSE Wrap(g[i - 1] + size(i - 1))
      <3> TAKE i \in 1..n
      <3>1. CASE i = 1
        <4>1. g[i] = r.min + sum(1 - 1)
          BY <3>1
        <4>2. g[i] = r.min
          BY <4>1, <1>1, <1>2
        <4> QED BY <3>1, <4>2
      <3>2. CASE i # 1
        <4>1. i - 1 \in 1..n
          BY <3>2
        <4>2. g[i - 1] = r.min + sum(i - 1 - 1) /\ g[i] = r.min + sum(i - 1)
          BY <4>1
        <4> HIDE DEF g
        <4> QED BY <3>2, <4>2, <1>4
      <3> QED BY <3>1, <3>2
    <2>2. Body(g) = [i \in 1..n |-> IF i = 1 THEN r.min ELSE Wrap(g[i - 1] + size(i - 1))]
      OBVIOUS
    <2>3. g = [i \in 1..n |-> g[i]]
      OBVIOUS
    <2> HIDE DEF g
    <2> QED BY <2>1, <2>2, <2>3
  <1>6. s = Body(s)
    <2> HIDE DEF g, Body
    <2> QED BY <1>3, <1>5
  <1>7. /\ \A i \in 1..n : s[i] = IF i = 1 THEN r.min ELSE Wrap(s[i - 1] + size(i - 1))
    <2> DEFINE h == Body(s)
    <2>1. \A i \in 1..n : h[i] = IF i = 1 THEN r.min ELSE Wrap(s[i - 1] + size(i - 1))
      OBVIOUS
    <2>2. s = h
      BY <1>6
    <2> HIDE DEF h
    <2> QED BY <2>1, <2>2
  <1>8. \A i \in 1..n : s[i] = r.min + sum(i - 1)
    <2> DEFINE bad == {i \in 1..n : s[i] # r.min + sum(i - 1)}
    <2> SUFFICES ASSUME bad # {} PROVE FALSE
      OBVIOUS
    <2>1. bad \subseteq Nat
      OBVIOUS
    <2>2. PICK i \in bad : \A j \in bad : i <= j
      BY <2>1, NatMin
    <2>3. i \in 1..n /\ s[i] # r.min + sum(i - 1)
      OBVIOUS
    <2>4. CASE i = 1
      <3>1. i - 1 = 0
        BY <2>4
      <3>2. s[i] = r.min
        BY <1>7, <2>3, <2>4
      <3> QED BY <3>1, <3>2, <2>3, <1>1, <1>2
    <2>5. CASE i # 1
      <3>1. i - 1 \in 1..n /\ ~(i <= i - 1)
        BY <2>3, <2>5
      <3>2. i - 1 \notin bad
        BY <2>2, <3>1
      <3>3. s[i - 1] = r.min + sum(i - 1 - 1)
        BY <3>1, <3>2
      <3>4. s[i] = Wrap(s[i - 1] + size(i - 1))
        BY <1>7, <2>3, <2>5
      <3>5. s[i] = r.min + sum(i - 1)
        BY <1>4, <2>3, <2>5, <3>3, <3>4
      <3> QED BY <2>3, <3>5
    <2> QED BY <2>4, <2>5
  <1> QED BY <1>8 DEF s, sum, total

\* The i-th of n chunks of a range, from Low to High.
Low(r, n, i) == r.min + ChunkSum(RangeLen(r), n, i - 1)
High(r, n, i) == Low(r, n, i + 1) - 1

\* The chunks follow one another from the start of the range, none empty, up to
\* what its length counts.
LEMMA ChunkBounds ==
    ASSUME NEW r \in Ranges, NEW n \in Nat \ {0}, n <= RangeLen(r)
    PROVE  /\ Low(r, n, 1) = r.min /\ Low(r, n, n + 1) = r.min + RangeLen(r)
           /\ \A i \in 1..n : /\ Low(r, n, i) \in Nat /\ High(r, n, i) \in Nat
                              /\ r.min <= Low(r, n, i) /\ Low(r, n, i) <= High(r, n, i)
                              /\ High(r, n, i) <= r.max /\ High(r, n, i) < r.min + RangeLen(r)
                              /\ High(r, n, i) = Low(r, n, i) + ChunkSize(RangeLen(r), n, i) - 1
           /\ \A i, j \in 1..n : i < j => High(r, n, i) < Low(r, n, j)
  <1> DEFINE sum(k) == ChunkSum(RangeLen(r), n, k)
             size(k) == ChunkSize(RangeLen(r), n, k)
  <1>1. PICK a \in Nat, t \in Nat : a = r.min /\ t = RangeLen(r) /\ a + t <= r.max + 1 /\ r.max \in Nat
    BY LengthOfRange
  <1>2. /\ sum(0) = 0 /\ sum(n) = t
        /\ \A k \in 0..n : sum(k) \in 0..t
        /\ \A k \in 1..n : sum(k) = sum(k - 1) + size(k) /\ size(k) \in Nat \ {0}
        /\ \A j, k \in 0..n : j <= k => sum(j) <= sum(k)
    <2>1. RangeLen(r) \in Nat
      BY <1>1
    <2>2. /\ sum(0) = 0 /\ sum(n) = RangeLen(r)
          /\ \A k \in 0..n : sum(k) \in 0..RangeLen(r)
      BY <2>1, ChunksAddUp
    <2>3. /\ \A k \in 1..n : sum(k) = sum(k - 1) + size(k) /\ size(k) \in Nat \ {0}
          /\ \A j, k \in 0..n : j <= k => sum(j) <= sum(k)
      BY <2>1, ChunksAddUp
    <2> HIDE DEF sum, size
    <2> QED BY <1>1, <2>2, <2>3
  <1>3. \A i : Low(r, n, i) = a + sum(i - 1)
    BY <1>1 DEF Low
  <1>4. \A i \in 1..n : High(r, n, i) = a + sum(i) - 1
    <2> TAKE i \in 1..n
    <2>1. (i + 1) - 1 = i
      OBVIOUS
    <2>2. Low(r, n, i + 1) = a + sum((i + 1) - 1)
      BY <1>3
    <2> HIDE DEF sum
    <2>3. sum((i + 1) - 1) = sum(i)
      BY <2>1
    <2>4. High(r, n, i) = Low(r, n, i + 1) - 1
      BY DEF High
    <2>5. PICK p \in 0..t : p = sum(i)
      <3>1. i \in 0..n
        OBVIOUS
      <3> QED BY <3>1, <1>2
    <2> QED BY <2>2, <2>3, <2>4, <2>5
  <1> HIDE DEF sum, size
  <1>5. Low(r, n, 1) = a /\ Low(r, n, n + 1) = a + t
    <2>1. 1 - 1 = 0 /\ (n + 1) - 1 = n
      OBVIOUS
    <2>2. Low(r, n, 1) = a + sum(0) /\ Low(r, n, n + 1) = a + sum(n)
      BY <1>3, <2>1
    <2> QED BY <1>2, <2>2
  <1>6. ASSUME NEW i \in 1..n
        PROVE  /\ Low(r, n, i) \in Nat /\ High(r, n, i) \in Nat
               /\ a <= Low(r, n, i) /\ Low(r, n, i) <= High(r, n, i)
               /\ High(r, n, i) <= r.max /\ High(r, n, i) < a + t
               /\ High(r, n, i) = Low(r, n, i) + size(i) - 1
    <2>1. i - 1 \in 0..n /\ i \in 0..n
      OBVIOUS
    <2>2. PICK x \in 0..t, y \in 0..t, z \in Nat \ {0} : x = sum(i - 1) /\ y = sum(i) /\ z = size(i) /\ y = x + z
      BY <1>2, <2>1
    <2>3. Low(r, n, i) = a + x /\ High(r, n, i) = a + y - 1
      BY <1>3, <1>4, <2>2
    <2> QED BY <1>1, <2>2, <2>3
  <1>7. ASSUME NEW i \in 1..n, NEW j \in 1..n, i < j
        PROVE  High(r, n, i) < Low(r, n, j)
    <2>1. i \in 0..n /\ j - 1 \in 0..n /\ i <= j - 1
      BY <1>7
    <2>2. PICK x \in 0..t, y \in 0..t : x = sum(i) /\ y = sum(j - 1) /\ x <= y
      BY <1>2, <2>1
    <2>3. High(r, n, i) = a + x - 1 /\ Low(r, n, j) = a + y
      BY <1>3, <1>4, <2>2
    <2> QED BY <2>2, <2>3
  <1> QED BY <1>1, <1>5, <1>6, <1>7 DEF size

\* What split returns, for any number of threads.
LEMMA SplitIs ==
    ASSUME NEW r \in Ranges, NEW n \in Nat \ {0, 1}, n <= RangeLen(r)
    PROVE  /\ DOMAIN Split(r, n) = 1..n
           /\ \A i \in 1..n : /\ Split(r, n)[i].min = Low(r, n, i) /\ Split(r, n)[i].max = High(r, n, i)
                              /\ Split(r, n)[i] # NoValue
  <1> DEFINE total == RangeLen(r)
             start == SplitStarts(r, n)
             part(i) == NewRange(start[i], Wrap(start[i] + ChunkSize(total, n, i) - 1), r.size)
  <1>1. total \in Nat /\ ~(n = 0) /\ ~(n > 1 /\ total < n) /\ ~(n = 1)
    BY LengthOfRange
  <1>2. Split(r, n) = [i \in 1..n |-> part(i)]
    BY <1>1 DEF Split
  <1>3. ASSUME NEW i \in 1..n
        PROVE  part(i) = [min |-> Low(r, n, i), max |-> High(r, n, i), size |-> r.size] /\ part(i) # NoValue
    <2>1. start[i] = Low(r, n, i)
      BY SplitStartsAt DEF Low
    <2>2. /\ Low(r, n, i) \in Nat /\ High(r, n, i) \in Nat /\ Low(r, n, i) <= High(r, n, i)
          /\ High(r, n, i) <= r.max
          /\ High(r, n, i) = Low(r, n, i) + ChunkSize(total, n, i) - 1
      BY ChunkBounds
    <2>3. r.max \in Nat /\ r.max <= WordMax /\ WordMax \in Nat /\ r.max <= MaxForSize(r.size)
          /\ MaxForSize(r.size) \in Nat /\ r.size \in 1..MaxSize
      BY LengthOfRange, WordFacts
    <2>4. High(r, n, i) \in Word /\ High(r, n, i) <= MaxForSize(r.size)
      BY <2>2, <2>3 DEF Word
    <2>5. Wrap(start[i] + ChunkSize(total, n, i) - 1) = High(r, n, i)
      BY <2>1, <2>2, <2>4, WordFacts
    <2>6. part(i) = NewRange(Low(r, n, i), High(r, n, i), r.size)
      BY <2>1, <2>5
    <2> HIDE DEF part
    <2> QED BY <2>2, <2>3, <2>4, <2>6, NewRangeIs
  <1> HIDE DEF part
  <1> QED BY <1>2, <1>3

\* The threads that split a range search every value of it once.
LEMMA SplitPartition ==
    ASSUME NEW r \in Ranges, NEW n \in Nat, range = r, ways = n
    PROVE  SplitPartitions
  <1> DEFINE vals(p) == p.min..p.max
             all == r.min..r.max
             missed == IF n > 1 /\ RangeLen(r) < Cardinality(all) THEN {WordMax} ELSE {}
             parts == Split(r, n)
             Goal == /\ \A i \in DOMAIN parts : parts[i] # NoValue
                     /\ UNION {vals(parts[i]) : i \in DOMAIN parts} = all \ missed
                     /\ \A i, j \in DOMAIN parts : i # j =>
                          /\ vals(parts[i]) \cap vals(parts[j]) = {}
                          /\ Cardinality(vals(parts[i])) - Cardinality(vals(parts[j])) \in -1..1
  <1>1. SUFFICES ASSUME parts # NoValue PROVE Goal
    BY DEF SplitPartitions
  <1>0. PICK a \in Nat, b \in Nat, t \in Nat :
            /\ a = r.min /\ b = r.max /\ t = RangeLen(r) /\ a <= b /\ b <= WordMax
            /\ b - a # WordMax => a + t = b + 1
            /\ b - a = WordMax => a = 0 /\ b = WordMax /\ t = WordMax
    BY LengthOfRange
  <1>2. n # 0 /\ ~(n > 1 /\ t < n)
    BY <1>0, <1>1 DEF Split
  <1>3. CASE n = 1
    <2>1. parts = <<r>>
      BY <1>2, <1>3 DEF Split
    <2>2. DOMAIN parts = {1} /\ parts[1] = r
      BY <2>1
    <2>3. r # NoValue
      <3>1. r \in [min : Nat, max : Nat, size : Nat]
        BY LengthOfRange, JobDataConstants, SMTT(30) DEF Ranges
      <3> QED BY <3>1, JobDataConstants
    <2>4. missed = {}
      BY <1>3
    <2>5. \A i \in DOMAIN parts : i = 1
      BY <2>2
    <2> HIDE DEF parts, missed
    <2> QED BY <2>2, <2>3, <2>4, <2>5
  <1>4. CASE n > 1
    <2>0. n \in Nat \ {0, 1} /\ n <= RangeLen(r)
      BY <1>0, <1>2, <1>4
    <2> DEFINE lo(i) == Low(r, n, i)
               hi(i) == High(r, n, i)
    <2>1. /\ DOMAIN parts = 1..n
          /\ \A i \in 1..n : vals(parts[i]) = lo(i)..hi(i) /\ parts[i] # NoValue
      BY <2>0, SplitIs
    <2>2. /\ lo(1) = a /\ lo(n + 1) = a + t
          /\ \A i \in 1..n : /\ lo(i) \in Nat /\ hi(i) \in Nat
                             /\ a <= lo(i) /\ lo(i) <= hi(i) /\ hi(i) <= b /\ hi(i) < a + t
                             /\ hi(i) = lo(i) + ChunkSize(t, n, i) - 1 /\ hi(i) = lo(i + 1) - 1
          /\ \A i, j \in 1..n : i < j => hi(i) < lo(j)
      BY <1>0, <2>0, ChunkBounds DEF High
    <2>3. PICK q \in Nat : \A i \in 1..n : ChunkSize(t, n, i) \in {q, q + 1}
      BY <1>0, <2>0, ChunksAddUp
    <2>4. all \ missed = a..(a + t - 1)
      <3>1. Cardinality(all) = b - a + 1
        <4>1. a \in Int /\ b \in Int /\ ~(a > b)
          BY <1>0
        <4>2. Cardinality(a..b) = b - a + 1
          BY <4>1, FS_Interval
        <4> QED BY <1>0, <4>2
      <3>2. CASE b - a # WordMax
        <4>1. a + t = b + 1
          BY <1>0, <3>2
        <4>2. missed = {}
          BY <1>0, <3>1, <4>1
        <4> QED BY <1>0, <4>1, <4>2
      <3>3. CASE b - a = WordMax
        <4>1. missed = {WordMax}
          BY <1>0, <1>4, <3>1, <3>3, WordFacts
        <4>2. all = 0..WordMax /\ a = 0 /\ t = WordMax /\ WordMax \in Nat
          BY <1>0, <3>3, WordFacts
        <4> HIDE DEF all, missed
        <4> QED BY <4>1, <4>2
      <3> QED BY <3>2, <3>3
    <2> HIDE DEF parts, lo, hi, all, missed, vals
    <2>5. UNION {vals(parts[i]) : i \in DOMAIN parts} = a..(a + t - 1)
      <3>1. ASSUME NEW i \in 1..n, NEW x \in lo(i)..hi(i) PROVE x \in a..(a + t - 1)
        BY <2>2
      <3>2. ASSUME NEW x \in a..(a + t - 1) PROVE \E i \in 1..n : x \in lo(i)..hi(i)
        <4> DEFINE above == {i \in 1..n : x <= hi(i)}
        <4>1. n \in above
          BY <2>0, <2>2
        <4>2. above \subseteq Nat
          OBVIOUS
        <4>3. PICK i \in above : \A j \in above : i <= j
          BY <4>1, <4>2, NatMin
        <4>4. lo(i) <= x
          <5>1. CASE i = 1
            BY <2>2, <5>1
          <5>2. CASE i # 1
            <6>1. PICK j \in 1..n : j = i - 1 /\ i = j + 1 /\ ~(i <= j)
              BY <5>2
            <6>2. ~(x <= hi(j))
              BY <4>3, <6>1
            <6>3. hi(j) = lo(i) - 1 /\ hi(j) \in Nat /\ lo(i) \in Nat
              BY <2>2, <6>1
            <6> QED BY <6>2, <6>3
          <5> QED BY <5>1, <5>2
        <4> QED BY <2>2, <4>4
      <3> QED BY <2>1, <3>1, <3>2
    <2>6. ASSUME NEW i \in 1..n, NEW j \in 1..n, i # j
          PROVE  /\ (lo(i)..hi(i)) \cap (lo(j)..hi(j)) = {}
                 /\ Cardinality(lo(i)..hi(i)) - Cardinality(lo(j)..hi(j)) \in -1..1
      <3>1. hi(i) < lo(j) \/ hi(j) < lo(i)
        BY <2>2, <2>6
      <3>2. ASSUME NEW k \in 1..n PROVE Cardinality(lo(k)..hi(k)) \in {q, q + 1}
        <4>0. PICK x \in Int, y \in Int : x = lo(k) /\ y = hi(k) /\ ~(x > y)
          BY <2>2
        <4>1. Cardinality(x..y) = y - x + 1
          BY <4>0, FS_Interval
        <4>2. PICK c \in {q, q + 1} : c = ChunkSize(t, n, k)
          BY <2>3
        <4>3. y = x + c - 1
          BY <2>2, <4>0, <4>2
        <4>4. Cardinality(x..y) = c
          BY <4>1, <4>3
        <4> QED BY <4>0, <4>4
      <3>3. PICK c \in {q, q + 1} : c = Cardinality(lo(i)..hi(i))
        BY <3>2
      <3>4. PICK d \in {q, q + 1} : d = Cardinality(lo(j)..hi(j))
        BY <3>2
      <3>5. (lo(i)..hi(i)) \cap (lo(j)..hi(j)) = {}
        BY <2>2, <3>1
      <3>6. c - d \in -1..1
        OBVIOUS
      <3>7. Cardinality(lo(i)..hi(i)) - Cardinality(lo(j)..hi(j)) \in -1..1
        BY <3>3, <3>4, <3>6
      <3> QED BY <3>5, <3>7
    <2> QED BY <2>1, <2>4, <2>5, <2>6
  <1> QED BY <1>2, <1>3, <1>4

\* Before the iterator wraps it is as far into its range as it has yielded values.
En2Inv ==
    /\ range \in Ranges /\ ways \in Nat /\ current \in Word /\ seen \in Seq(Word)
    /\ range.max < WordMax =>
          /\ current = range.min + Len(seen) /\ current <= range.max + 1
          /\ seen = [i \in 1..Len(seen) |-> range.min + i - 1]

LEMMA En2InitInv == En2Init => En2Inv
  <1> SUFFICES ASSUME En2Init PROVE En2Inv
    OBVIOUS
  <1>1. PICK min \in Word, max \in Word, size \in 0..(MaxSize + 1) : range = NewRange(min, max, size)
    BY DEF En2Init, Word
  <1>2. range # NoValue
    BY DEF En2Init
  <1>3. ValidSize(size) /\ min <= max /\ max <= MaxForSize(size)
    BY <1>1, <1>2 DEF NewRange
  <1>4. size \in 1..MaxSize
    BY <1>3, JobDataConstants DEF ValidSize
  <1>5. range = [min |-> min, max |-> max, size |-> size]
    BY <1>1, <1>3 DEF NewRange
  <1>6. range \in Ranges
    BY <1>3, <1>4, <1>5 DEF Ranges
  <1>7. ways \in Nat /\ current = range.min /\ seen = <<>> /\ Len(seen) = 0
    BY JobDataConstants DEF En2Init
  <1>8. range.min \in Nat /\ range.max \in Nat /\ range.min <= range.max /\ range.max <= WordMax
    BY <1>6, LengthOfRange
  <1>9. current \in Word /\ seen \in Seq(Word)
    BY <1>5, <1>7
  <1>10. current = range.min + Len(seen) /\ current <= range.max + 1
    BY <1>7, <1>8
  <1>11. seen = [i \in 1..Len(seen) |-> range.min + i - 1]
    <2>1. 1..Len(seen) = {}
      BY <1>7
    <2> QED BY <1>7, <2>1
  <1> QED BY <1>6, <1>7, <1>9, <1>10, <1>11 DEF En2Inv

LEMMA IterNextInv == ASSUME En2Inv, IterNext PROVE En2Inv'
  <1>1. /\ range \in Ranges /\ ways \in Nat /\ current \in Word /\ seen \in Seq(Word)
        /\ range' = range /\ ways' = ways
        /\ seen' = Append(seen, current) /\ current' = Wrap(current + 1) /\ ~(current > range.max)
    BY DEF En2Inv, IterNext, IterEnds
  <1>2. PICK w \in Nat : w = WordMax
    BY WordFacts
  <1>3. PICK c \in Nat : c = current /\ c <= w
    BY <1>1, <1>2 DEF Word
  <1>4. PICK lo \in Nat, hi \in Nat : lo = range.min /\ hi = range.max /\ lo <= hi /\ hi <= w
    BY <1>1, <1>2, LengthOfRange
  <1>5. current' \in Word
    <2>1. (c + 1) % (w + 1) \in 0..w
      OBVIOUS
    <2> QED BY <1>1, <1>2, <1>3, <2>1 DEF Wrap, Word
  <1>6. seen' \in Seq(Word) /\ Len(seen') = Len(seen) + 1 /\ Len(seen) \in Nat
    BY <1>1
  <1>7. ASSUME hi < w
        PROVE  /\ current' = range'.min + Len(seen') /\ current' <= range'.max + 1
               /\ seen' = [i \in 1..Len(seen') |-> range'.min + i - 1]
    <2>1. PICK n \in Nat : n = Len(seen)
      BY <1>6
    <2>2. c = lo + n /\ seen = [i \in 1..n |-> lo + i - 1]
      BY <1>2, <1>3, <1>4, <1>7, <2>1 DEF En2Inv
    <2>3. c <= hi
      BY <1>1, <1>3, <1>4
    <2>4. current' = c + 1
      <3>1. c + 1 \in Word
        BY <1>2, <1>7, <2>3 DEF Word
      <3> QED BY <1>1, <1>3, <3>1, WordFacts
    <2>5. Len(seen') = n + 1
      BY <1>6, <2>1
    <2>6. seen' = [i \in 1..(n + 1) |-> lo + i - 1]
      <3>1. \A i \in 1..n : seen[i] = lo + i - 1
        BY <2>2
      <3>2. \A i \in 1..(n + 1) : seen'[i] = IF i <= n THEN seen[i] ELSE c
        BY <1>1, <1>3, <2>1
      <3>3. \A i \in 1..(n + 1) : seen'[i] = lo + i - 1
        BY <2>2, <3>1, <3>2
      <3>4. seen' = [i \in 1..(n + 1) |-> seen'[i]]
        BY <1>6, <2>5
      <3> QED BY <3>3, <3>4
    <2>7. c + 1 = lo + (n + 1) /\ c + 1 <= hi + 1
      BY <2>2, <2>3
    <2> QED BY <1>1, <1>4, <2>4, <2>5, <2>6, <2>7
  <1> QED BY <1>1, <1>2, <1>4, <1>5, <1>6, <1>7 DEF En2Inv

LEMMA IterResetInv == ASSUME En2Inv, IterReset PROVE En2Inv'
  <1>1. /\ range \in Ranges /\ ways \in Nat /\ range' = range /\ ways' = ways
        /\ current' = range.min /\ seen' = <<>> /\ Len(seen') = 0
    BY DEF En2Inv, IterReset
  <1>2. range.min \in Nat /\ range.max \in Nat /\ range.min <= range.max /\ range.max <= WordMax
    BY <1>1, LengthOfRange
  <1>3. current' \in Word /\ seen' \in Seq(Word)
    BY <1>1, <1>2, WordFacts DEF Word
  <1>4. current' = range'.min + Len(seen') /\ current' <= range'.max + 1
    BY <1>1, <1>2
  <1>5. seen' = [i \in 1..Len(seen') |-> range'.min + i - 1]
    <2>1. 1..Len(seen') = {}
      BY <1>1
    <2> QED BY <1>1, <2>1
  <1> QED BY <1>1, <1>3, <1>4, <1>5 DEF En2Inv

\* A range split among threads is searched without a gap and without overlap,
\* and the iterator yields each of its values once, for words of any size,
\* ranges of any length and any number of threads (extranonce2.rs:186, 243).
THEOREM RangesStayExact == En2Spec => []RangesExact
  <1>1. En2Init => En2Inv
    BY En2InitInv
  <1>2. En2Inv /\ [En2Next]_rangeVars => En2Inv'
    <2>1. CASE IterNext
      BY <2>1, IterNextInv
    <2>2. CASE IterReset
      BY <2>2, IterResetInv
    <2>3. CASE UNCHANGED rangeVars
      BY <2>3 DEF rangeVars, En2Inv
    <2> QED BY <2>1, <2>2, <2>3 DEF En2Next
  <1>3. En2Inv => RangesExact
    <2> SUFFICES ASSUME En2Inv PROVE SplitPartitions /\ IteratorCovers
      BY DEF RangesExact
    <2>1. range \in Ranges /\ ways \in Nat
      BY DEF En2Inv
    <2>2. SplitPartitions
      BY <2>1, SplitPartition
    <2>3. ASSUME range.max < WordMax PROVE seen = [i \in 1..Len(seen) |-> range.min + i - 1]
      BY <2>3 DEF En2Inv
    <2>4. ASSUME range.max < WordMax, IterEnds PROVE Len(seen) = RangeLen(range)
      <3>1. PICK lo \in Nat, hi \in Nat, w \in Nat, t \in Nat :
                /\ lo = range.min /\ hi = range.max /\ w = WordMax /\ t = RangeLen(range)
                /\ hi - lo # w => lo + t = hi + 1
        BY <2>1, LengthOfRange, WordFacts
      <3>2. Len(seen) \in Nat
        BY DEF En2Inv
      <3>3. PICK n \in Nat : n = Len(seen)
        BY <3>2
      <3>4. lo + n <= hi + 1 /\ lo + n > hi /\ hi < w
        BY <2>4, <3>1, <3>3 DEF En2Inv, IterEnds
      <3>5. n = t
        BY <3>1, <3>4
      <3> QED BY <3>1, <3>3, <3>5
    <2> QED BY <2>2, <2>3, <2>4 DEF IteratorCovers
  <1> QED BY <1>1, <1>2, <1>3, PTL DEF En2Spec

-----------------------------------------------------------------------------
(* The ring of the daemon.                                                 *)

RingEvents == [n : Nat, kind : {"update", "clear"}, rate : Nat]
RingCmds == [kind : {"share"}, n : Nat] \cup [kind : {"rate"}, n : Nat, rate : Nat]
WrapMsgs == [to : {"sched"}, m : RingEvents] \cup [to : {"source"}, m : RingCmds]

RingTypes ==
    /\ wiring \in {"dummy", "direct", "forced"} /\ cancelled \in BOOLEAN
    /\ source \in {"run", "send", "exited"} /\ wrap \in {"run", "send", "exited"}
    /\ sched \in {"run", "send", "exited"}
    /\ inner \in Seq(RingEvents) /\ outer \in Seq(RingEvents) /\ received \in Seq(RingEvents)
    /\ innerCmd \in Seq(RingCmds) /\ outerCmd \in Seq(RingCmds)
    /\ source = "send" => srcMsg \in RingEvents
    /\ wrap = "send" => wrapMsg \in WrapMsgs
    /\ sched = "send" => schedMsg \in RingCmds
    /\ wrapRate \in Nat /\ emitted \in Nat /\ sent \in Nat

\* A direct source has no wrapper and no use for the inner channel.
WrapperOnlyIfForced == ~Forced => wrap = "exited" /\ inner = <<>>

\* The wrapper holds an event for the scheduler.
Carries == wrap = "send" /\ wrapMsg.to = "sched"

\* Events that have left the inner channel.
Forwarded == Len(received) + Len(outer) + (IF Carries THEN 1 ELSE 0)

\* The members of q are numbered without a gap, from the one after base on.
NumberedFrom(q, base) == \A i \in DOMAIN q : q[i].n = base + i

\* From the scheduler back to the source, the events are numbered without a
\* gap; a wrapper that gave up may have dropped one, and forwards no more.
Numbered ==
    /\ NumberedFrom(received, 0) /\ NumberedFrom(outer, Len(received))
    /\ Carries => wrapMsg.m.n = Len(received) + Len(outer) + 1
    /\ (Forced => wrap # "exited") =>
          /\ NumberedFrom(inner, Forwarded)
          /\ source = "send" => srcMsg.n = Forwarded + Len(inner) + 1 /\ emitted = srcMsg.n
          /\ source = "run" => emitted = Forwarded + Len(inner)

\* The rate is forced in the wrapper and nowhere before it.
RateForced ==
    /\ source = "send" => srcMsg.rate = 0
    /\ \A i \in DOMAIN inner : inner[i].rate = 0
    /\ (Carries /\ wrapMsg.m.kind = "update") => wrapMsg.m.rate = wrapRate

RingInv == RingTypes /\ WrapperOnlyIfForced /\ Numbered /\ RateForced

LEMMA NumberedAppend ==
    ASSUME NEW S, NEW q \in Seq(S), NEW x \in S, NEW base \in Nat,
           NumberedFrom(q, base), x.n = base + Len(q) + 1
    PROVE  NumberedFrom(Append(q, x), base) /\ Len(Append(q, x)) = Len(q) + 1
  <1>1. Len(Append(q, x)) = Len(q) + 1 /\ Len(q) \in Nat
    OBVIOUS
  <1>2. \A i \in DOMAIN Append(q, x) : Append(q, x)[i].n = base + i
    <2> TAKE i \in DOMAIN Append(q, x)
    <2>1. CASE i \in DOMAIN q
      BY <2>1, AppendQueue DEF NumberedFrom
    <2>2. CASE i = Len(q) + 1
      <3>1. Append(q, x)[i] = x
        BY <2>2, AppendQueue
      <3> QED BY <1>1, <2>2, <3>1
    <2> QED BY <2>1, <2>2, AppendQueue
  <1> QED BY <1>1, <1>2 DEF NumberedFrom

LEMMA NumberedTail ==
    ASSUME NEW S, NEW q \in Seq(S), q # <<>>, NEW base \in Nat, NumberedFrom(q, base)
    PROVE  /\ NumberedFrom(Tail(q), base + 1) /\ Head(q).n = base + 1
           /\ Len(q) = Len(Tail(q)) + 1
  <1>1. Head(q) = q[1] /\ 1 \in DOMAIN q
    BY TailQueue
  <1>2. Head(q).n = base + 1
    BY <1>1 DEF NumberedFrom
  <1>3. \A i \in DOMAIN Tail(q) : Tail(q)[i].n = (base + 1) + i
    <2> TAKE i \in DOMAIN Tail(q)
    <2>1. i + 1 \in DOMAIN q /\ Tail(q)[i] = q[i + 1] /\ i \in Nat
      BY TailQueue
    <2>2. q[i + 1].n = base + (i + 1)
      BY <2>1 DEF NumberedFrom
    <2> QED BY <2>1, <2>2
  <1>4. Len(q) = Len(Tail(q)) + 1
    OBVIOUS
  <1> QED BY <1>2, <1>3, <1>4 DEF NumberedFrom

LEMMA RingInitInv == DaemonInit => RingInv
  <1> SUFFICES ASSUME DaemonInit PROVE RingInv
    OBVIOUS
  <1>0. /\ received = <<>> /\ outer = <<>> /\ inner = <<>> /\ innerCmd = <<>> /\ outerCmd = <<>>
        /\ source = "run" /\ wrap \in {"run", "exited"} /\ sched = "run"
        /\ wiring \in {"dummy", "direct", "forced"} /\ cancelled = FALSE
        /\ wrapRate = 0 /\ emitted = 0 /\ sent = 0
    BY DEF DaemonInit
  <1>1. RingTypes /\ Len(received) = 0 /\ Len(outer) = 0 /\ Len(inner) = 0
    <2>1. RingTypes
      BY <1>0, EmptyQueues DEF RingTypes
    <2>2. Len(<<>>) = 0
      OBVIOUS
    <2> QED BY <1>0, <2>1, <2>2
  <1>2. ~Carries /\ WrapperOnlyIfForced
    BY DEF DaemonInit, Carries, WrapperOnlyIfForced, Forced
  <1>3. Forwarded = 0
    BY <1>1, <1>2 DEF Forwarded
  <1>4. DOMAIN received = {} /\ DOMAIN outer = {} /\ DOMAIN inner = {}
    BY EmptyQueues DEF DaemonInit
  <1>5. Numbered
    BY <1>1, <1>2, <1>3, <1>4 DEF DaemonInit, Numbered, NumberedFrom
  <1>6. RateForced
    BY <1>2, <1>4 DEF DaemonInit, RateForced
  <1> QED BY <1>1, <1>2, <1>5, <1>6 DEF RingInv

LEMMA SourceEmitsInv == ASSUME RingInv, SourceEmits PROVE RingInv'
  <1> USE DEF RingInv
  <1>1. PICK k \in {"update", "clear"} : srcMsg' = [n |-> emitted + 1, kind |-> k, rate |-> 0]
    BY DEF SourceEmits, Event
  <1>2. emitted \in Nat /\ source = "run" /\ source' = "send" /\ emitted' = emitted + 1
    BY DEF SourceEmits, RingTypes
  <1>3. srcMsg' \in RingEvents /\ srcMsg'.n = emitted' /\ srcMsg'.rate = 0
    BY <1>1, <1>2 DEF RingEvents
  <1>4. RingTypes'
    BY <1>2, <1>3 DEF SourceEmits, RingTypes
  <1>5. WrapperOnlyIfForced' /\ Forwarded' = Forwarded /\ Carries' = Carries /\ Forced' = Forced
    BY DEF SourceEmits, WrapperOnlyIfForced, Forced, Forwarded, Carries
  <1>6. Numbered'
    BY <1>2, <1>3, <1>5 DEF SourceEmits, Numbered, NumberedFrom
  <1>7. RateForced'
    BY <1>3, <1>5 DEF SourceEmits, RateForced
  <1> QED BY <1>4, <1>5, <1>6, <1>7

LEMMA SourceSendsInv == ASSUME RingInv, SourceSends PROVE RingInv'
  <1> USE DEF RingInv
  <1>1. /\ source = "send" /\ srcMsg \in RingEvents /\ srcMsg.rate = 0
        /\ received \in Seq(RingEvents) /\ outer \in Seq(RingEvents) /\ inner \in Seq(RingEvents)
        /\ Len(received) \in Nat /\ Len(outer) \in Nat /\ Len(inner) \in Nat /\ emitted \in Nat
    BY DEF SourceSends, RingTypes, RateForced
  <1>2. /\ Carries' = Carries /\ Forced' = Forced /\ wrap' = wrap /\ wrapMsg' = wrapMsg
        /\ received' = received /\ emitted' = emitted /\ wrapRate' = wrapRate /\ source' # "send"
    BY DEF SourceSends, Carries, Forced
  <1>3. CASE Reader = "exited"
    <2>1. source' = "exited" /\ inner' = inner /\ outer' = outer
      BY <1>3 DEF SourceSends
    <2>2. RingTypes'
      BY <2>1 DEF SourceSends, RingTypes
    <2>3. Forwarded' = Forwarded
      BY <1>2, <2>1 DEF Forwarded
    <2>4. Numbered'
      BY <1>2, <2>1, <2>3 DEF Numbered, NumberedFrom
    <2>5. RateForced' /\ WrapperOnlyIfForced'
      BY <1>2, <2>1 DEF RateForced, WrapperOnlyIfForced
    <2> QED BY <2>2, <2>4, <2>5
  <1>4. CASE Reader # "exited" /\ Forced
    <2>1. source' = "run" /\ inner' = Append(inner, srcMsg) /\ outer' = outer /\ wrap # "exited"
      BY <1>4 DEF SourceSends, Reader
    <2>2. inner' \in Seq(RingEvents) /\ \A i \in DOMAIN inner' : inner'[i].rate = 0
      <3>1. \A i \in DOMAIN inner : inner[i].rate = 0
        BY DEF RateForced
      <3> QED BY <1>1, <2>1, <3>1, AppendQueue
    <2>3. RingTypes'
      BY <2>1, <2>2 DEF SourceSends, RingTypes
    <2>4. PICK f \in Nat : f = Forwarded
      BY <1>1 DEF Forwarded
    <2>5. Forwarded' = f
      BY <1>2, <2>1, <2>4 DEF Forwarded
    <2>6. NumberedFrom(inner, f) /\ srcMsg.n = f + Len(inner) + 1 /\ emitted = srcMsg.n
      BY <1>1, <2>1, <2>4 DEF Numbered
    <2>7. NumberedFrom(inner', f) /\ Len(inner') = Len(inner) + 1
      BY <1>1, <2>1, <2>6, NumberedAppend
    <2>8. emitted = f + Len(inner')
      BY <1>1, <2>6, <2>7
    <2>9. NumberedFrom(received, 0)' /\ NumberedFrom(outer, Len(received))'
      BY <1>2, <2>1 DEF Numbered, NumberedFrom
    <2>10. NumberedFrom(inner, Forwarded)'
      BY <2>5, <2>7 DEF NumberedFrom
    <2>11. Numbered'
      BY <1>2, <2>1, <2>5, <2>8, <2>9, <2>10 DEF Numbered
    <2>12. RateForced' /\ WrapperOnlyIfForced'
      BY <1>2, <1>4, <2>1, <2>2 DEF RateForced, WrapperOnlyIfForced
    <2> QED BY <2>3, <2>11, <2>12
  <1>5. CASE Reader # "exited" /\ ~Forced
    <2>1. /\ source' = "run" /\ outer' = Append(outer, srcMsg) /\ inner' = inner
          /\ wrap = "exited" /\ inner = <<>> /\ ~Carries
      BY <1>5 DEF SourceSends, Reader, WrapperOnlyIfForced, Carries
    <2>2. outer' \in Seq(RingEvents)
      BY <1>1, <2>1, AppendQueue
    <2>3. RingTypes'
      BY <2>1, <2>2 DEF SourceSends, RingTypes
    <2>4. Len(inner) = 0 /\ DOMAIN inner = {}
      BY <2>1, EmptyQueues
    <2>5. PICK r \in Nat, o \in Nat : r = Len(received) /\ o = Len(outer)
      BY <1>1
    <2>6. Forwarded = r + o
      BY <2>1, <2>5 DEF Forwarded
    <2>7. NumberedFrom(outer, r) /\ srcMsg.n = r + o + 1 /\ emitted = srcMsg.n
      BY <1>1, <1>5, <2>4, <2>5, <2>6 DEF Numbered
    <2>8. NumberedFrom(outer', r) /\ Len(outer') = o + 1
      BY <1>1, <2>1, <2>5, <2>7, NumberedAppend
    <2>9. Forwarded' = r + o + 1
      BY <1>2, <2>1, <2>5, <2>8 DEF Forwarded
    <2>10. emitted = Forwarded' + Len(inner')
      BY <1>1, <2>1, <2>4, <2>5, <2>7, <2>9
    <2>11. NumberedFrom(received, 0)' /\ NumberedFrom(outer, Len(received))'
      BY <1>2, <2>5, <2>8 DEF Numbered, NumberedFrom
    <2>12. NumberedFrom(inner, Forwarded)'
      BY <2>1, <2>4 DEF NumberedFrom
    <2>13. Numbered'
      BY <1>2, <2>1, <2>10, <2>11, <2>12 DEF Numbered
    <2>14. RateForced' /\ WrapperOnlyIfForced'
      BY <1>2, <2>1 DEF RateForced, WrapperOnlyIfForced
    <2> QED BY <2>3, <2>13, <2>14
  <1> QED BY <1>3, <1>4, <1>5

LEMMA SourceTakesCmdInv == ASSUME RingInv, SourceTakesCmd PROVE RingInv'
  <1> USE DEF RingInv
  <1>1. innerCmd' \in Seq(RingCmds) /\ outerCmd' \in Seq(RingCmds)
    <2>1. innerCmd \in Seq(RingCmds) /\ outerCmd \in Seq(RingCmds)
      BY DEF RingTypes
    <2>2. CASE Forced
      <3>1. innerCmd # <<>> /\ innerCmd' = Tail(innerCmd) /\ outerCmd' = outerCmd
        BY <2>2 DEF SourceTakesCmd
      <3> QED BY <2>1, <3>1, TailQueue
    <2>3. CASE ~Forced
      <3>1. outerCmd # <<>> /\ outerCmd' = Tail(outerCmd) /\ innerCmd' = innerCmd
        BY <2>3 DEF SourceTakesCmd
      <3> QED BY <2>1, <3>1, TailQueue
    <2> QED BY <2>2, <2>3
  <1>2. RingTypes'
    BY <1>1 DEF SourceTakesCmd, RingTypes
  <1>3. Carries' = Carries /\ Forced' = Forced /\ Forwarded' = Forwarded
    BY DEF SourceTakesCmd, Carries, Forced, Forwarded
  <1>4. Numbered'
    BY <1>3 DEF SourceTakesCmd, Numbered, NumberedFrom
  <1>5. RateForced' /\ WrapperOnlyIfForced'
    BY <1>3 DEF SourceTakesCmd, RateForced, WrapperOnlyIfForced
  <1> QED BY <1>2, <1>4, <1>5

LEMMA WrapTakesEventInv == ASSUME RingInv, WrapTakesEvent PROVE RingInv'
  <1> USE DEF RingInv
  <1>1. /\ wrap = "run" /\ wrap' = "send" /\ inner # <<>> /\ inner' = Tail(inner)
        /\ wrapMsg' = [to |-> "sched", m |-> ModifyJob(Head(inner))]
        /\ inner \in Seq(RingEvents) /\ wrapRate \in Nat
        /\ Len(received) \in Nat /\ Len(outer) \in Nat /\ Len(inner') \in Nat
        /\ received' = received /\ outer' = outer /\ wrapRate' = wrapRate
        /\ source' = source /\ emitted' = emitted /\ srcMsg' = srcMsg
    <2>1. inner' = Tail(inner) /\ inner # <<>> /\ inner \in Seq(RingEvents)
      BY DEF WrapTakesEvent, RingTypes
    <2>2. inner' \in Seq(RingEvents)
      BY <2>1, TailQueue
    <2> QED BY <2>1, <2>2 DEF WrapTakesEvent, RingTypes
  <1>2. Forced /\ Forced' = Forced
    BY <1>1 DEF WrapTakesEvent, WrapperOnlyIfForced, Forced
  <1>3. /\ Head(inner) \in RingEvents /\ Head(inner).rate = 0 /\ inner' \in Seq(RingEvents)
        /\ \A i \in DOMAIN inner' : inner'[i].rate = 0
    <2>1. \A i \in DOMAIN inner : inner[i].rate = 0
      BY DEF RateForced
    <2> QED BY <1>1, <2>1, TailQueue
  <1>4. /\ wrapMsg'.to = "sched" /\ wrapMsg'.m \in RingEvents /\ wrapMsg'.m.n = Head(inner).n
        /\ wrapMsg'.m.kind = "update" => wrapMsg'.m.rate = wrapRate
        /\ wrapMsg' \in WrapMsgs
    <2> DEFINE e == Head(inner)
               new == ModifyJob(e)
    <2>1. new \in RingEvents /\ new.n = e.n /\ new.kind = e.kind
      BY <1>1, <1>3 DEF ModifyJob, RingEvents
    <2>2. new.kind = "update" => new.rate = wrapRate
      BY <1>1, <1>3 DEF ModifyJob, RingEvents
    <2>3. wrapMsg' = [to |-> "sched", m |-> new]
      BY <1>1
    <2> HIDE DEF new, e
    <2>4. wrapMsg' \in [to : {"sched"}, m : RingEvents]
      BY <2>1, <2>3
    <2> QED BY <2>1, <2>2, <2>3, <2>4 DEF WrapMsgs, e
  <1>5. Carries' /\ ~Carries
    BY <1>1, <1>4 DEF Carries
  <1>6. RingTypes'
    BY <1>3, <1>4 DEF WrapTakesEvent, RingTypes
  <1>7. PICK r \in Nat, o \in Nat, n \in Nat : r = Len(received) /\ o = Len(outer) /\ n = Len(inner')
    BY <1>1
  <1>8. Forwarded = r + o /\ Forwarded' = r + o + 1
    BY <1>1, <1>5, <1>7 DEF Forwarded
  <1>9. NumberedFrom(inner, r + o) /\ r + o \in Nat
    BY <1>1, <1>7, <1>8 DEF Numbered
  <1>10. NumberedFrom(inner', r + o + 1) /\ Head(inner).n = r + o + 1 /\ Len(inner) = n + 1
    BY <1>1, <1>7, <1>9, NumberedTail
  <1>11. NumberedFrom(inner, Forwarded)'
    BY <1>8, <1>10 DEF NumberedFrom
  <1>12. /\ source = "send" => srcMsg.n = r + o + (n + 1) + 1 /\ emitted = srcMsg.n
         /\ source = "run" => emitted = r + o + (n + 1)
    BY <1>1, <1>7, <1>8, <1>10 DEF Numbered
  <1>13. /\ (source = "send" => srcMsg.n = Forwarded + Len(inner) + 1 /\ emitted = srcMsg.n)'
         /\ (source = "run" => emitted = Forwarded + Len(inner))'
    BY <1>1, <1>7, <1>8, <1>12
  <1>14. NumberedFrom(received, 0)' /\ NumberedFrom(outer, Len(received))'
    BY <1>1 DEF Numbered, NumberedFrom
  <1>15. (Carries => wrapMsg.m.n = Len(received) + Len(outer) + 1)'
    BY <1>1, <1>4, <1>7, <1>10
  <1>16. Numbered'
    BY <1>11, <1>13, <1>14, <1>15 DEF Numbered
  <1>17. RateForced' /\ WrapperOnlyIfForced'
    BY <1>1, <1>2, <1>3, <1>4 DEF RateForced, WrapperOnlyIfForced
  <1> QED BY <1>6, <1>16, <1>17

LEMMA WrapTakesCmdInv == ASSUME RingInv, WrapTakesCmd PROVE RingInv'
  <1> USE DEF RingInv
  <1> DEFINE c == Head(outerCmd)
  <1>1. outerCmd \in Seq(RingCmds) /\ outerCmd # <<>> /\ outerCmd' = Tail(outerCmd)
    BY DEF WrapTakesCmd, RingTypes
  <1>2. c \in RingCmds /\ outerCmd' \in Seq(RingCmds)
    BY <1>1, TailQueue
  <1>3. /\ wrap = "run" /\ wrap' = "send" /\ wrapMsg' = [to |-> "source", m |-> c]
        /\ wrapRate' = IF c.kind = "rate" THEN c.rate ELSE wrapRate
    BY DEF WrapTakesCmd
  <1> HIDE DEF c
  <1>4. wrapMsg' \in WrapMsgs /\ wrapMsg'.to # "sched"
    <2>1. wrapMsg' \in [to : {"source"}, m : RingCmds]
      BY <1>2, <1>3
    <2> QED BY <1>3, <2>1 DEF WrapMsgs
  <1>5. wrapRate' \in Nat
    BY <1>2, <1>3 DEF RingCmds, RingTypes
  <1>6. RingTypes'
    BY <1>2, <1>3, <1>4, <1>5 DEF WrapTakesCmd, RingTypes
  <1>7. ~Carries /\ ~Carries' /\ Forced' = Forced
    BY <1>3, <1>4 DEF WrapTakesCmd, Carries, Forced
  <1>8. Forwarded' = Forwarded
    BY <1>7 DEF WrapTakesCmd, Forwarded
  <1>9. Numbered'
    BY <1>3, <1>7, <1>8 DEF WrapTakesCmd, Numbered, NumberedFrom
  <1>10. RateForced' /\ WrapperOnlyIfForced'
    BY <1>3, <1>7 DEF WrapTakesCmd, RateForced, WrapperOnlyIfForced, Carries
  <1> QED BY <1>6, <1>9, <1>10

LEMMA WrapSendsInv == ASSUME RingInv, WrapSends PROVE RingInv'
  <1> USE DEF RingInv
  <1>1. /\ wrap = "send" /\ wrapMsg \in WrapMsgs /\ wrap' # "send"
        /\ outer \in Seq(RingEvents) /\ innerCmd \in Seq(RingCmds)
        /\ Len(received) \in Nat /\ Len(outer) \in Nat /\ Len(inner) \in Nat
        /\ received' = received /\ inner' = inner /\ wrapRate' = wrapRate /\ emitted' = emitted
        /\ source' = source /\ srcMsg' = srcMsg
    BY DEF WrapSends, RingTypes
  <1>2. Forced /\ Forced' = Forced /\ ~Carries'
    BY <1>1 DEF WrapSends, WrapperOnlyIfForced, Forced, Carries
  <1>3. WrapperOnlyIfForced'
    BY <1>2 DEF WrapperOnlyIfForced
  <1>4. RateForced'
    BY <1>1, <1>2 DEF RateForced
  <1>5. NumberedFrom(received, 0) /\ NumberedFrom(outer, Len(received))
    BY DEF Numbered
  <1>6. CASE wrap' = "exited"
    <2>1. outer' = outer /\ innerCmd' = innerCmd
      BY <1>6 DEF WrapSends
    <2>2. RingTypes'
      BY <1>6, <2>1 DEF WrapSends, RingTypes
    <2>3. Numbered'
      BY <1>1, <1>2, <1>5, <1>6, <2>1 DEF Numbered, NumberedFrom
    <2> QED BY <1>3, <1>4, <2>2, <2>3
  <1>7. CASE wrap' # "exited" /\ wrapMsg.to = "sched"
    <2>1. wrap' = "run" /\ outer' = Append(outer, wrapMsg.m) /\ innerCmd' = innerCmd /\ Carries
      BY <1>1, <1>7 DEF WrapSends, Carries
    <2>2. wrapMsg.m \in RingEvents
      BY <1>1, <1>7 DEF WrapMsgs
    <2>3. outer' \in Seq(RingEvents)
      BY <1>1, <2>1, <2>2, AppendQueue
    <2>4. RingTypes'
      BY <2>1, <2>3 DEF WrapSends, RingTypes
    <2>5. PICK r \in Nat, o \in Nat : r = Len(received) /\ o = Len(outer)
      BY <1>1
    <2>6. NumberedFrom(outer, r) /\ wrapMsg.m.n = r + o + 1
      BY <1>5, <2>1, <2>5 DEF Numbered
    <2>7. NumberedFrom(outer', r) /\ Len(outer') = o + 1
      BY <1>1, <2>1, <2>2, <2>5, <2>6, NumberedAppend
    <2>8. Forwarded = r + o + 1 /\ Forwarded' = r + (o + 1)
      BY <1>1, <1>2, <2>1, <2>5, <2>7 DEF Forwarded
    <2>9. Forwarded' = Forwarded
      BY <2>8
    <2>10. NumberedFrom(received, 0)' /\ NumberedFrom(outer, Len(received))'
      BY <1>1, <1>5, <2>5, <2>7 DEF NumberedFrom
    <2>11. Numbered'
      BY <1>1, <1>2, <2>9, <2>10 DEF Numbered, NumberedFrom
    <2> QED BY <1>3, <1>4, <2>4, <2>11
  <1>8. CASE wrap' # "exited" /\ wrapMsg.to # "sched"
    <2>1. wrap' = "run" /\ innerCmd' = Append(innerCmd, wrapMsg.m) /\ outer' = outer /\ ~Carries
      BY <1>1, <1>8 DEF WrapSends, Carries
    <2>2. wrapMsg.m \in RingCmds
      BY <1>1, <1>8 DEF WrapMsgs
    <2>3. innerCmd' \in Seq(RingCmds)
      BY <1>1, <2>1, <2>2, AppendQueue
    <2>4. RingTypes'
      BY <2>1, <2>3 DEF WrapSends, RingTypes
    <2>5. Forwarded' = Forwarded
      BY <1>1, <1>2, <2>1 DEF Forwarded
    <2>6. Numbered'
      BY <1>1, <1>2, <1>5, <2>1, <2>5 DEF Numbered, NumberedFrom
    <2> QED BY <1>3, <1>4, <2>4, <2>6
  <1> QED BY <1>6, <1>7, <1>8

LEMMA SchedTakesInv == ASSUME RingInv, SchedTakes PROVE RingInv'
  <1> USE DEF RingInv
  <1>1. /\ received \in Seq(RingEvents) /\ outer \in Seq(RingEvents) /\ outer # <<>>
        /\ received' = Append(received, Head(outer)) /\ outer' = Tail(outer)
        /\ Len(inner) \in Nat
    BY DEF SchedTakes, RingTypes
  <1>2. Head(outer) \in RingEvents /\ outer' \in Seq(RingEvents) /\ received' \in Seq(RingEvents)
    <2>1. Head(outer) \in RingEvents /\ outer' \in Seq(RingEvents)
      BY <1>1, TailQueue
    <2> QED BY <1>1, <2>1, AppendQueue
  <1>3. RingTypes'
    BY <1>2 DEF SchedTakes, RingTypes
  <1>4. PICK r \in Nat, o \in Nat : r = Len(received) /\ o = Len(outer')
    <2>1. Len(received) \in Nat /\ Len(outer') \in Nat
      BY <1>1, <1>2
    <2> QED BY <2>1
  <1>5. NumberedFrom(received, 0) /\ NumberedFrom(outer, r)
    BY <1>4 DEF Numbered
  <1>6. NumberedFrom(outer', r + 1) /\ Head(outer).n = r + 1 /\ Len(outer) = o + 1
    <2>1. NumberedFrom(Tail(outer), r + 1) /\ Head(outer).n = r + 1 /\ Len(outer) = Len(Tail(outer)) + 1
      BY <1>1, <1>5, NumberedTail
    <2> QED BY <1>1, <1>4, <2>1
  <1>7. NumberedFrom(received', 0) /\ Len(received') = r + 1
    BY <1>1, <1>2, <1>4, <1>5, <1>6, NumberedAppend
  <1>8. Carries' = Carries /\ Forced' = Forced
    BY DEF SchedTakes, Carries, Forced
  <1>9. Forwarded' = Forwarded
    BY <1>4, <1>6, <1>7, <1>8 DEF Forwarded
  <1>10. NumberedFrom(received, 0)' /\ NumberedFrom(outer, Len(received))'
    BY <1>6, <1>7 DEF NumberedFrom
  <1>11. (Carries => wrapMsg.m.n = Len(received) + Len(outer) + 1)'
    <2>1. (r + 1) + o + 1 = r + (o + 1) + 1
      OBVIOUS
    <2> QED BY <1>4, <1>6, <1>7, <1>8, <2>1 DEF SchedTakes, Numbered
  <1>12. Numbered'
    BY <1>8, <1>9, <1>10, <1>11 DEF SchedTakes, Numbered, NumberedFrom
  <1>13. RateForced' /\ WrapperOnlyIfForced'
    BY <1>8 DEF SchedTakes, RateForced, WrapperOnlyIfForced
  <1> QED BY <1>3, <1>12, <1>13

\* The commands, the signal and the exits move no event.
LEMMA SchedWantsInv == ASSUME RingInv, SchedWants PROVE RingInv'
  <1> USE DEF RingInv
  <1>1. schedMsg' \in RingCmds /\ sent' \in Nat
    <2>1. sent \in Nat /\ sent + 1 \in Nat /\ sent' = sent + 1
      BY DEF SchedWants, RingTypes
    <2>2. CASE schedMsg' = [kind |-> "share", n |-> sent + 1]
      BY <2>1, <2>2 DEF RingCmds
    <2>3. ASSUME NEW r \in Rates, schedMsg' = [kind |-> "rate", n |-> sent + 1, rate |-> r]
          PROVE schedMsg' \in RingCmds
      <3>1. r \in Nat
        BY DaemonConstants
      <3> QED BY <2>1, <2>3, <3>1 DEF RingCmds
    <2> QED BY <2>1, <2>2, <2>3 DEF SchedWants
  <1>2. RingTypes'
    BY <1>1 DEF SchedWants, RingTypes
  <1>3. Carries' = Carries /\ Forced' = Forced /\ Forwarded' = Forwarded
    BY DEF SchedWants, Carries, Forced, Forwarded
  <1>4. Numbered'
    BY <1>3 DEF SchedWants, Numbered, NumberedFrom
  <1>5. RateForced' /\ WrapperOnlyIfForced'
    BY <1>3 DEF SchedWants, RateForced, WrapperOnlyIfForced
  <1> QED BY <1>2, <1>4, <1>5

LEMMA SchedSendsInv == ASSUME RingInv, SchedSends PROVE RingInv'
  <1> USE DEF RingInv
  <1>1. outerCmd' \in Seq(RingCmds)
    <2>1. outerCmd \in Seq(RingCmds) /\ schedMsg \in RingCmds
      BY DEF SchedSends, RingTypes
    <2>2. outerCmd' = outerCmd \/ outerCmd' = Append(outerCmd, schedMsg)
      BY DEF SchedSends
    <2> QED BY <2>1, <2>2, AppendQueue
  <1>2. RingTypes'
    BY <1>1 DEF SchedSends, RingTypes
  <1>3. Carries' = Carries /\ Forced' = Forced /\ Forwarded' = Forwarded
    BY DEF SchedSends, Carries, Forced, Forwarded
  <1>4. Numbered'
    BY <1>3 DEF SchedSends, Numbered, NumberedFrom
  <1>5. RateForced' /\ WrapperOnlyIfForced'
    BY <1>3 DEF SchedSends, RateForced, WrapperOnlyIfForced
  <1> QED BY <1>2, <1>4, <1>5

LEMMA ExitsInv == ASSUME RingInv, SignalReceived \/ TaskExits PROVE RingInv'
  <1> USE DEF RingInv
  <1>1. /\ UNCHANGED <<wiring, srcMsg, wrapMsg, schedMsg, inner, outer, innerCmd, outerCmd, wrapRate,
                       emitted, received, sent>>
        /\ source' = source \/ source' = "exited"
        /\ wrap' = wrap \/ (wrap = "run" /\ wrap' = "exited")
        /\ sched' = sched \/ sched' = "exited"
        /\ cancelled' \in BOOLEAN
    BY DEF SignalReceived, TaskExits, RingTypes
  <1>2. RingTypes'
    BY <1>1 DEF RingTypes
  <1>3. Carries' = Carries /\ Forced' = Forced
    BY <1>1 DEF Carries, Forced
  <1>4. Forwarded' = Forwarded
    BY <1>1, <1>3 DEF Forwarded
  <1>5. Numbered'
    BY <1>1, <1>3, <1>4 DEF Numbered, NumberedFrom
  <1>6. RateForced' /\ WrapperOnlyIfForced'
    BY <1>1, <1>3 DEF RateForced, WrapperOnlyIfForced
  <1> QED BY <1>2, <1>5, <1>6

LEMMA RingStep == RingInv /\ [DaemonNext]_ringVars => RingInv'
  <1> SUFFICES ASSUME RingInv, [DaemonNext]_ringVars PROVE RingInv'
    OBVIOUS
  <1>1. CASE RingSteps
    BY <1>1, SourceSendsInv, WrapSendsInv, SchedSendsInv, WrapTakesEventInv, WrapTakesCmdInv,
       SchedTakesInv, SourceTakesCmdInv DEF RingSteps
  <1>2. CASE SourceEmits
    BY <1>2, SourceEmitsInv
  <1>3. CASE SchedWants
    BY <1>3, SchedWantsInv
  <1>4. CASE SignalReceived \/ TaskExits
    BY <1>4, ExitsInv
  <1>5. CASE UNCHANGED ringVars
    BY <1>5 DEF ringVars, RingInv, RingTypes, WrapperOnlyIfForced, Forced, Carries, Forwarded,
                Numbered, NumberedFrom, RateForced
  <1> QED BY <1>1, <1>2, <1>3, <1>4, <1>5 DEF DaemonNext

\* However the tasks of the daemon interleave, whatever a channel holds and
\* whenever a task ends, the scheduler takes the events of the source once and
\* in order, and every job the wrapper forwards carries the rate it was told
\* last (forced_rate.rs:114, daemon.rs:207).
THEOREM EventsStayInOrder == DaemonSpec => []EventsInOrder
  <1>1. DaemonInit => RingInv
    BY RingInitInv
  <1>2. RingInv /\ [DaemonNext]_ringVars => RingInv'
    BY RingStep
  <1>3. RingInv => EventsInOrder
    <2> SUFFICES ASSUME RingInv PROVE EventsInOrder
      OBVIOUS
    <2>1. \A i \in DOMAIN received : received[i].n = 0 + i
      BY DEF RingInv, Numbered, NumberedFrom
    <2>2. \A i \in DOMAIN received : i \in Nat
      BY DEF RingInv, RingTypes
    <2>3. \A i \in DOMAIN received : received[i].n = i
      BY <2>1, <2>2
    <2> QED BY <2>3 DEF RingInv, Numbered, NumberedFrom, RateForced, Carries, EventsInOrder
  <1> QED BY <1>1, <1>2, <1>3, PTL DEF DaemonSpec

-----------------------------------------------------------------------------
(* The control channel.                                                    *)

Numbers == 0..(2 * Ids - 1)
Responses == {r \in [n : Numbers, id : Nat, status : {"ok", "error", "short"}] : r.id = IdOf(r.n)}

\* How many requests before next n was sent: 1 for the last one.
Age(n, next) == IF n < next THEN next - n ELSE next + 2 * Ids - n

Waits == IF pending = <<>> THEN 0 ELSE 1

CtrlTypes ==
    /\ nextReq \in Numbers /\ timeouts \in 0..MaxTimeouts
    /\ outgoing \in Seq(Numbers) /\ devQueue \in Seq(Numbers) /\ incoming \in Seq(Responses)
    /\ pending # <<>> => pending[1] \in Numbers /\ Age(pending[1], nextReq) = 1

\* The last thing a board is told is to reboot.
NothingAfterReboot == lastResult = "rebooted" => pending = <<>>

\* A request is behind others only because requests failed before it was made,
\* and waits for its turn while later requests are made only because of those
\* others and of failures since: its place in the line and its age together
\* never exceed the number of failures by more than one, or two while a request
\* waits.
NoOlderThanTimeouts ==
    lastResult # "rebooted" =>
        /\ \A p \in DOMAIN incoming : Age(incoming[p].n, nextReq) + p <= timeouts + 1 + Waits
        /\ \A p \in DOMAIN devQueue : Age(devQueue[p], nextReq) + Len(incoming) + p <= timeouts + 1 + Waits
        /\ \A p \in DOMAIN outgoing :
              Age(outgoing[p], nextReq) + Len(incoming) + Len(devQueue) + p <= timeouts + 1 + Waits

CtrlInv == CtrlTypes /\ NothingAfterReboot /\ NoOlderThanTimeouts /\ OwnAnswer

LEMMA CtrlFacts ==
    /\ Ids \in Nat /\ Ids >= 2 /\ MaxTimeouts \in Nat /\ MaxTimeouts + 1 <= Ids
    /\ \A n \in Numbers : /\ IdOf(n) \in Nat
                          /\ (n + 1) % (2 * Ids) = IF n = 2 * Ids - 1 THEN 0 ELSE n + 1
                          /\ n < Ids => IdOf(n) = n
                          /\ n >= Ids => IdOf(n) = n - Ids
  <1>1. Ids \in Nat /\ Ids >= 2 /\ MaxTimeouts \in Nat /\ MaxTimeouts + 1 <= Ids
    BY ControlConstants
  <1>2. ASSUME NEW n \in Numbers PROVE (n + 1) % (2 * Ids) = IF n = 2 * Ids - 1 THEN 0 ELSE n + 1
    <2>1. PICK b \in Nat \ {0} : b = 2 * Ids
      BY <1>1
    <2>2. n \in 0..(b - 1)
      BY <2>1 DEF Numbers
    <2>3. CASE n = b - 1
      <3>1. b % b = 0
        OBVIOUS
      <3> QED BY <2>1, <2>3, <3>1
    <2>4. CASE n # b - 1
      <3>1. n + 1 \in 0..(b - 1)
        BY <2>2, <2>4
      <3>2. \A m \in 0..(b - 1) : m % b = m
        OBVIOUS
      <3> QED BY <2>1, <2>4, <3>1, <3>2
    <2> QED BY <2>3, <2>4
  <1>3. ASSUME NEW n \in Numbers, n < Ids PROVE IdOf(n) = n
    <2>1. \A m \in 0..(Ids - 1) : m % Ids = m
      BY <1>1
    <2> QED BY <1>1, <1>3, <2>1 DEF IdOf, Numbers
  <1>4. ASSUME NEW n \in Numbers, n >= Ids PROVE IdOf(n) = n - Ids
    <2>1. PICK m \in 0..(Ids - 1) : n = m + Ids
      <3>1. n - Ids \in 0..(Ids - 1) /\ n = (n - Ids) + Ids
        BY <1>1, <1>4 DEF Numbers
      <3> QED BY <3>1
    <2>2. (m + Ids) % Ids = m
      BY <1>1
    <2> QED BY <1>1, <2>1, <2>2 DEF IdOf
  <1>5. ASSUME NEW n \in Numbers PROVE IdOf(n) \in Nat
    BY <1>1, <1>3, <1>4 DEF Numbers
  <1> QED BY <1>1, <1>2, <1>3, <1>4, <1>5

\* Ages count from one, and a further request makes each of them one more.
LEMMA AgeGrows ==
    ASSUME NEW next \in Numbers, NEW n \in Numbers
    PROVE  /\ Age(n, next) \in Nat \ {0}
           /\ (next + 1) % (2 * Ids) \in Numbers
           /\ Age(next, (next + 1) % (2 * Ids)) = 1
           /\ Age(n, next) <= Ids => Age(n, (next + 1) % (2 * Ids)) = Age(n, next) + 1
  <1>1. PICK then \in Nat : /\ then = (next + 1) % (2 * Ids)
                            /\ then = IF next = 2 * Ids - 1 THEN 0 ELSE next + 1
    BY CtrlFacts DEF Numbers
  <1> QED BY <1>1, CtrlFacts DEF Age, Numbers

\* Among the last so many requests an id says which one is meant.
LEMMA SameRequest ==
    ASSUME NEW next \in Numbers, NEW a \in Numbers, NEW b \in Numbers,
           Age(a, next) = 1, Age(b, next) <= Ids, IdOf(a) = IdOf(b)
    PROVE  a = b
  <1>1. PICK i \in Nat, k \in Nat :
            /\ i = IdOf(a) /\ k = IdOf(b) /\ i = k
            /\ a < Ids => i = a
            /\ a >= Ids => i = a - Ids
            /\ b < Ids => k = b
            /\ b >= Ids => k = b - Ids
    BY CtrlFacts
  <1> QED BY <1>1, CtrlFacts DEF Age, Numbers

LEMMA CtrlInitInv == CtrlInit => CtrlInv
  <1> SUFFICES ASSUME CtrlInit PROVE CtrlInv
    OBVIOUS
  <1>1. DOMAIN incoming = {} /\ DOMAIN devQueue = {} /\ DOMAIN outgoing = {}
    BY EmptyQueues DEF CtrlInit
  <1>2. CtrlTypes
    BY CtrlFacts, EmptyQueues DEF CtrlInit, CtrlTypes, Numbers
  <1> QED BY <1>1, <1>2 DEF CtrlInit, CtrlInv, NothingAfterReboot, NoOlderThanTimeouts, OwnAnswer

\* What every step may use of the state before it.
LEMMA CtrlState ==
    ASSUME CtrlInv
    PROVE  /\ nextReq \in Numbers /\ timeouts \in Nat /\ timeouts + 1 <= Ids
           /\ outgoing \in Seq(Numbers) /\ devQueue \in Seq(Numbers) /\ incoming \in Seq(Responses)
           /\ Len(outgoing) \in Nat /\ Len(devQueue) \in Nat /\ Len(incoming) \in Nat
           /\ \A p \in DOMAIN incoming : p \in Nat \ {0} /\ incoming[p].n \in Numbers
           /\ \A p \in DOMAIN devQueue : p \in Nat \ {0} /\ devQueue[p] \in Numbers
           /\ \A p \in DOMAIN outgoing : p \in Nat \ {0} /\ outgoing[p] \in Numbers
  <1>1. /\ nextReq \in Numbers /\ timeouts \in 0..MaxTimeouts
        /\ outgoing \in Seq(Numbers) /\ devQueue \in Seq(Numbers) /\ incoming \in Seq(Responses)
    BY DEF CtrlInv, CtrlTypes
  <1>2. timeouts \in Nat /\ timeouts + 1 <= Ids
    BY <1>1, CtrlFacts
  <1>3. \A p \in DOMAIN incoming : p \in Nat \ {0} /\ incoming[p] \in Responses
    BY <1>1
  <1>4. \A p \in DOMAIN devQueue : p \in Nat \ {0} /\ devQueue[p] \in Numbers
    BY <1>1
  <1>5. \A p \in DOMAIN outgoing : p \in Nat \ {0} /\ outgoing[p] \in Numbers
    BY <1>1
  <1>6. Len(outgoing) \in Nat /\ Len(devQueue) \in Nat /\ Len(incoming) \in Nat
    BY <1>1
  <1> QED BY <1>1, <1>2, <1>3, <1>4, <1>5, <1>6 DEF Responses

\* With no request waiting there are no more requests on their way than have
\* failed.
LEMMA LineIsShort ==
    ASSUME CtrlInv, pending = <<>>, lastResult # "rebooted"
    PROVE  Len(incoming) + Len(devQueue) + Len(outgoing) <= timeouts
  <1>1. PICK i \in Nat, d \in Nat, o \in Nat, t \in Nat :
            i = Len(incoming) /\ d = Len(devQueue) /\ o = Len(outgoing) /\ t = timeouts
    BY CtrlState
  <1>2. Waits = 0
    BY DEF Waits
  <1>3. CASE o # 0
    <2>1. o \in DOMAIN outgoing
      BY <1>1, <1>3, CtrlState
    <2>2. PICK g \in Nat \ {0} : g = Age(outgoing[o], nextReq)
      BY <2>1, CtrlState, AgeGrows
    <2>3. g + i + d + o <= t + 1
      BY <1>1, <1>2, <2>1, <2>2 DEF CtrlInv, NoOlderThanTimeouts
    <2> QED BY <1>1, <2>3
  <1>4. CASE o = 0 /\ d # 0
    <2>1. d \in DOMAIN devQueue
      BY <1>1, <1>4, CtrlState
    <2>2. PICK g \in Nat \ {0} : g = Age(devQueue[d], nextReq)
      BY <2>1, CtrlState, AgeGrows
    <2>3. g + i + d <= t + 1
      BY <1>1, <1>2, <2>1, <2>2 DEF CtrlInv, NoOlderThanTimeouts
    <2> QED BY <1>1, <1>4, <2>3
  <1>5. CASE o = 0 /\ d = 0 /\ i # 0
    <2>1. i \in DOMAIN incoming
      BY <1>1, <1>5, CtrlState
    <2>2. PICK g \in Nat \ {0} : g = Age(incoming[i].n, nextReq)
      BY <2>1, CtrlState, AgeGrows
    <2>3. g + i <= t + 1
      BY <1>1, <1>2, <2>1, <2>2 DEF CtrlInv, NoOlderThanTimeouts
    <2> QED BY <1>1, <1>5, <2>3
  <1> QED BY <1>1, <1>3, <1>4, <1>5

\* A request made: those on their way age, and it is the last in the line.
LEMMA SendPacketInv == ASSUME CtrlInv, SendPacket PROVE CtrlInv'
  <1>1. /\ pending = <<>> /\ lastResult # "rebooted" /\ lastResult' = lastResult
        /\ nextReq' = (nextReq + 1) % (2 * Ids) /\ pending' = <<nextReq>>
        /\ outgoing' = Append(outgoing, nextReq) /\ devQueue' = devQueue
        /\ incoming' = incoming /\ timeouts' = timeouts
    BY DEF SendPacket, Locks
  <1>2. pending' # <<>> /\ pending'[1] = nextReq
    BY <1>1
  <1>3. Waits = 0 /\ Waits' = 1
    BY <1>1, <1>2 DEF Waits
  <1>4. PICK i \in Nat, d \in Nat, o \in Nat, t \in Nat, next \in Numbers, then \in Numbers :
            /\ i = Len(incoming) /\ d = Len(devQueue) /\ o = Len(outgoing) /\ t = timeouts
            /\ next = nextReq /\ then = nextReq' /\ Age(next, then) = 1
            /\ i + d + o <= t /\ t + 1 <= Ids
            /\ then = (next + 1) % (2 * Ids)
    BY <1>1, CtrlState, AgeGrows, LineIsShort
  <1>5. ASSUME NEW n \in Numbers, NEW p \in Nat \ {0}, Age(n, next) + p <= t + 1
        PROVE  Age(n, then) + p <= t + 2
    <2>1. PICK g \in Nat \ {0} : g = Age(n, next)
      BY AgeGrows
    <2>2. g <= Ids
      BY <1>4, <1>5, <2>1, CtrlFacts
    <2>3. Age(n, then) = g + 1
      BY <1>4, <2>1, <2>2, AgeGrows
    <2> QED BY <1>5, <2>1, <2>3
  <1>6. outgoing' \in Seq(Numbers)
    <2>1. outgoing \in Seq(Numbers) /\ nextReq \in Numbers
      BY CtrlState
    <2> QED BY <1>1, <2>1, AppendQueue
  <1>7. CtrlTypes'
    BY <1>1, <1>2, <1>4, <1>6 DEF CtrlInv, CtrlTypes
  <1>8. \A p \in DOMAIN incoming : Age(incoming[p].n, then) + p <= t + 2
    <2> TAKE p \in DOMAIN incoming
    <2>1. incoming[p].n \in Numbers /\ p \in Nat \ {0}
      BY CtrlState
    <2>2. Age(incoming[p].n, next) + p <= t + 1
      <3>1. Age(incoming[p].n, nextReq) + p <= timeouts + 1 + 0
        BY <1>1, <1>3 DEF CtrlInv, NoOlderThanTimeouts
      <3> QED BY <1>4, <3>1
    <2> QED BY <1>5, <2>1, <2>2
  <1>9. \A p \in DOMAIN devQueue : Age(devQueue[p], then) + i + p <= t + 2
    <2> TAKE p \in DOMAIN devQueue
    <2>1. devQueue[p] \in Numbers /\ p \in Nat \ {0}
      BY CtrlState
    <2>2. PICK g \in Nat, h \in Nat : g = Age(devQueue[p], next) /\ h = Age(devQueue[p], then)
      BY <1>4, <2>1, AgeGrows
    <2>3. g + (i + p) <= t + 1
      <3>1. Age(devQueue[p], nextReq) + Len(incoming) + p <= timeouts + 1 + 0
        BY <1>1, <1>3 DEF CtrlInv, NoOlderThanTimeouts
      <3> QED BY <1>4, <2>1, <2>2, <3>1
    <2>4. i + p \in Nat \ {0}
      BY <2>1
    <2>5. h + (i + p) <= t + 2
      BY <1>5, <2>1, <2>2, <2>3, <2>4
    <2> QED BY <2>1, <2>2, <2>5
  <1>10. \A p \in DOMAIN outgoing' : Age(outgoing'[p], then) + i + d + p <= t + 2
    <2> TAKE p \in DOMAIN outgoing'
    <2>1. CASE p \in DOMAIN outgoing
      <3>1. outgoing'[p] = outgoing[p] /\ outgoing[p] \in Numbers /\ p \in Nat \ {0}
        BY <1>1, <1>4, <2>1, CtrlState, AppendQueue
      <3>2. PICK g \in Nat, h \in Nat : g = Age(outgoing[p], next) /\ h = Age(outgoing[p], then)
        BY <1>4, <3>1, AgeGrows
      <3>3. g + (i + d + p) <= t + 1
        <4>1. Age(outgoing[p], nextReq) + Len(incoming) + Len(devQueue) + p <= timeouts + 1 + 0
          BY <1>1, <1>3, <2>1 DEF CtrlInv, NoOlderThanTimeouts
        <4>2. g + i + d + p <= t + 1 + 0
          BY <1>4, <3>2, <4>1, Zenon
        <4> QED BY <3>1, <4>2
      <3>4. i + d + p \in Nat \ {0}
        BY <3>1
      <3>5. h + (i + d + p) <= t + 2
        BY <1>5, <3>1, <3>2, <3>3, <3>4
      <3> QED BY <3>1, <3>2, <3>5
    <2>2. CASE p \notin DOMAIN outgoing
      <3>1. outgoing' = Append(outgoing, next) /\ p = o + 1
        BY <1>1, <1>4, <2>2, CtrlState, AppendQueue
      <3>2. outgoing'[p] = next
        BY <1>4, <3>1, CtrlState, AppendQueue
      <3>3. Age(outgoing'[p], then) = 1
        BY <1>4, <3>2, Zenon
      <3>4. 1 + i + d + p <= t + 2
        BY <1>4, <3>1
      <3> QED BY <3>3, <3>4, Zenon
    <2> QED BY <2>1, <2>2
  <1>11. NoOlderThanTimeouts'
    <2>1. timeouts' + 1 + Waits' = t + 2 /\ nextReq' = then /\ Len(incoming') = i /\ Len(devQueue') = d
      BY <1>1, <1>3, <1>4
    <2> QED BY <1>1, <1>8, <1>9, <1>10, <2>1 DEF NoOlderThanTimeouts
  <1>12. NothingAfterReboot' /\ OwnAnswer'
    BY <1>1 DEF NothingAfterReboot, OwnAnswer, CtrlInv
  <1> QED BY <1>7, <1>11, <1>12 DEF CtrlInv

\* A request written: it goes on to the device, is lost or reboots it.
LEMMA WriteInv == ASSUME CtrlInv, Write PROVE CtrlInv'
  <1>1. /\ pending # <<>> /\ outgoing # <<>> /\ outgoing' = Tail(outgoing)
        /\ nextReq' = nextReq /\ incoming' = incoming /\ timeouts' = timeouts
        /\ lastResult # "rebooted"
    BY DEF Write, Writing, CtrlInv, NothingAfterReboot
  <1>2. /\ Head(outgoing) = outgoing[1] /\ Head(outgoing) \in Numbers /\ 1 \in DOMAIN outgoing
        /\ outgoing' \in Seq(Numbers) /\ Len(outgoing') + 1 = Len(outgoing)
        /\ \A p \in DOMAIN outgoing' : p + 1 \in DOMAIN outgoing /\ outgoing'[p] = outgoing[p + 1]
                                       /\ p \in Nat \ {0}
    BY <1>1, CtrlState, TailQueue
  <1>3. CASE pending' = <<>> /\ devQueue' = <<>> /\ lastResult' = "rebooted"
    <2>1. CtrlTypes'
      BY <1>1, <1>2, <1>3, EmptyQueues DEF CtrlInv, CtrlTypes
    <2> QED BY <1>3, <2>1 DEF CtrlInv, NothingAfterReboot, NoOlderThanTimeouts, OwnAnswer
  <1>4. CASE pending' = pending /\ lastResult' = lastResult /\ DeviceTakes(Head(outgoing))
    <2>1. PICK i \in Nat, d \in Nat, b \in Int :
              i = Len(incoming) /\ d = Len(devQueue) /\ b = timeouts + 1 + Waits
      BY CtrlState DEF Waits
    <2>2. /\ \A p \in DOMAIN incoming : Age(incoming[p].n, nextReq) + p <= b
          /\ \A p \in DOMAIN devQueue : Age(devQueue[p], nextReq) + i + p <= b
          /\ \A p \in DOMAIN outgoing : Age(outgoing[p], nextReq) + i + d + p <= b
      BY <1>1, <2>1 DEF CtrlInv, NoOlderThanTimeouts
    <2>3. timeouts' + 1 + Waits' = b
      BY <1>1, <1>4, <2>1 DEF Waits
    <2>4. PICK h \in Numbers : h = Head(outgoing) /\ h = outgoing[1]
      BY <1>2
    <2>5. PICK g \in Nat : g = Age(h, nextReq) /\ g + i + d + 1 <= b
      BY <1>2, <2>2, <2>4, CtrlState, AgeGrows
    <2>6. PICK e \in Nat :
              /\ e = Len(devQueue') /\ e <= d + 1 /\ devQueue' \in Seq(Numbers)
              /\ \A p \in DOMAIN devQueue' : \/ p \in DOMAIN devQueue /\ devQueue'[p] = devQueue[p]
                                             \/ p = d + 1 /\ devQueue'[p] = h
      <3>1. CASE devQueue' = devQueue
        <4>1. d <= d + 1 /\ devQueue' \in Seq(Numbers)
          BY <3>1, CtrlState
        <4> QED BY <2>1, <3>1, <4>1
      <3>2. CASE devQueue' = Append(devQueue, h)
        <4>1. /\ devQueue' \in Seq(Numbers) /\ Len(devQueue') = d + 1
              /\ \A p \in DOMAIN devQueue : devQueue'[p] = devQueue[p]
              /\ \A p \in DOMAIN devQueue' : p \in DOMAIN devQueue \/ (p = d + 1 /\ devQueue'[p] = h)
          BY <2>1, <3>2, CtrlState, AppendQueue
        <4> QED BY <2>1, <4>1
      <3> QED BY <1>4, <2>4, <3>1, <3>2 DEF DeviceTakes
    <2>7. \A p \in DOMAIN devQueue' : Age(devQueue'[p], nextReq) + i + p <= b
      <3> TAKE p \in DOMAIN devQueue'
      <3>1. CASE p \in DOMAIN devQueue /\ devQueue'[p] = devQueue[p]
        BY <2>2, <3>1
      <3>2. CASE p = d + 1 /\ devQueue'[p] = h
        BY <2>5, <3>2
      <3> QED BY <2>6, <3>1, <3>2
    <2>8. \A p \in DOMAIN outgoing' : Age(outgoing'[p], nextReq) + i + e + p <= b
      <3> TAKE p \in DOMAIN outgoing'
      <3>1. p + 1 \in DOMAIN outgoing /\ outgoing'[p] = outgoing[p + 1] /\ p \in Nat
        BY <1>2
      <3>2. PICK k \in Nat : k = Age(outgoing[p + 1], nextReq)
        BY <3>1, CtrlState, AgeGrows
      <3>3. k + i + d + (p + 1) <= b
        BY <2>2, <3>1, <3>2
      <3> QED BY <2>6, <3>1, <3>2, <3>3
    <2>9. NoOlderThanTimeouts'
      BY <1>1, <2>1, <2>2, <2>3, <2>6, <2>7, <2>8 DEF NoOlderThanTimeouts
    <2>10. CtrlTypes'
      BY <1>1, <1>2, <1>4, <2>6 DEF CtrlInv, CtrlTypes
    <2> QED BY <1>4, <2>9, <2>10 DEF CtrlInv, NothingAfterReboot, OwnAnswer
  <1> QED BY <1>3, <1>4 DEF Write

LEMMA WriteFailsInv == ASSUME CtrlInv, WriteFails PROVE CtrlInv'
  <1>1. /\ pending # <<>> /\ pending' = <<>> /\ lastResult' = "unsent" /\ timeouts' = timeouts + 1
        /\ timeouts < MaxTimeouts /\ lastResult # "rebooted"
        /\ nextReq' = nextReq /\ outgoing' = outgoing /\ devQueue' = devQueue /\ incoming' = incoming
    BY DEF WriteFails, Writing, CtrlInv, NothingAfterReboot
  <1>2. timeouts' \in 0..MaxTimeouts /\ timeouts' + 1 + Waits' = timeouts + 1 + Waits
    BY <1>1, CtrlFacts DEF CtrlInv, CtrlTypes, Waits
  <1>3. CtrlTypes'
    BY <1>1, <1>2 DEF CtrlInv, CtrlTypes
  <1>4. NoOlderThanTimeouts'
    BY <1>1, <1>2 DEF CtrlInv, NoOlderThanTimeouts
  <1> QED BY <1>1, <1>3, <1>4 DEF CtrlInv, NothingAfterReboot, OwnAnswer

LEMMA DeviceHangsInv == ASSUME CtrlInv, DeviceHangs PROVE CtrlInv'
  BY DEF DeviceHangs, CtrlInv, CtrlTypes, NothingAfterReboot, NoOlderThanTimeouts, OwnAnswer, Waits

LEMMA DeviceAnswersInv == ASSUME CtrlInv, DeviceAnswers PROVE CtrlInv'
  <1>1. /\ devQueue # <<>> /\ devQueue' = Tail(devQueue)
        /\ nextReq' = nextReq /\ pending' = pending /\ lastResult' = lastResult
        /\ timeouts' = timeouts /\ Waits' = Waits /\ outgoing' = outgoing
    BY DEF DeviceAnswers, Waits
  <1>2. PICK s \in {"ok", "error", "short"} : incoming' = Append(incoming, DevAnswer(Head(devQueue), s))
    BY DEF DeviceAnswers
  <1>3. /\ Head(devQueue) = devQueue[1] /\ Head(devQueue) \in Numbers /\ 1 \in DOMAIN devQueue
        /\ devQueue' \in Seq(Numbers) /\ Len(devQueue') + 1 = Len(devQueue)
        /\ \A p \in DOMAIN devQueue' : p + 1 \in DOMAIN devQueue /\ devQueue'[p] = devQueue[p + 1]
                                       /\ p \in Nat \ {0}
    BY <1>1, CtrlState, TailQueue
  <1>4. PICK h \in Numbers : h = Head(devQueue)
    BY <1>3
  <1>5. PICK r \in Responses : r = DevAnswer(h, s) /\ r.n = h
    <2> DEFINE r == DevAnswer(h, s)
    <2>1. IdOf(h) \in Nat
      BY CtrlFacts
    <2>2. r = [n |-> h, id |-> IdOf(h), status |-> s]
      BY DEF DevAnswer
    <2> HIDE DEF r
    <2>3. r \in Responses /\ r.n = h
      BY <2>1, <2>2 DEF Responses
    <2> QED BY <2>3 DEF r
  <1>6. incoming' = Append(incoming, r)
    BY <1>2, <1>4, <1>5
  <1>7. /\ incoming' \in Seq(Responses) /\ Len(incoming') = Len(incoming) + 1
        /\ \A p \in DOMAIN incoming : incoming'[p] = incoming[p]
        /\ \A p \in DOMAIN incoming' : p \in DOMAIN incoming \/ (p = Len(incoming) + 1 /\ incoming'[p] = r)
    BY <1>6, CtrlState, AppendQueue
  <1>8. CtrlTypes'
    BY <1>1, <1>3, <1>7 DEF CtrlInv, CtrlTypes
  <1>9. ASSUME lastResult # "rebooted" PROVE NoOlderThanTimeouts'
    <2>1. PICK i \in Nat, b \in Int : i = Len(incoming) /\ b = timeouts + 1 + Waits
      BY CtrlState DEF Waits
    <2>2. /\ \A p \in DOMAIN incoming : Age(incoming[p].n, nextReq) + p <= b
          /\ \A p \in DOMAIN devQueue : Age(devQueue[p], nextReq) + i + p <= b
      BY <1>9, <2>1 DEF CtrlInv, NoOlderThanTimeouts
    <2>3. \A p \in DOMAIN incoming' : Age(incoming'[p].n, nextReq) + p <= b
      <3> TAKE p \in DOMAIN incoming'
      <3>1. CASE p \in DOMAIN incoming
        BY <1>7, <2>2, <3>1
      <3>2. CASE p = i + 1 /\ incoming'[p] = r
        <4>1. PICK g \in Nat : g = Age(h, nextReq)
          BY CtrlState, AgeGrows
        <4>2. g + i + 1 <= b
          BY <1>3, <1>4, <2>2, <4>1
        <4> QED BY <1>5, <3>2, <4>1, <4>2
      <3> QED BY <1>7, <2>1, <3>1, <3>2
    <2>4. \A p \in DOMAIN devQueue' : Age(devQueue'[p], nextReq) + (i + 1) + p <= b
      <3> TAKE p \in DOMAIN devQueue'
      <3>1. p + 1 \in DOMAIN devQueue /\ devQueue'[p] = devQueue[p + 1] /\ p \in Nat
        BY <1>3
      <3>2. PICK g \in Nat : g = Age(devQueue[p + 1], nextReq)
        BY <3>1, CtrlState, AgeGrows
      <3>3. g + i + (p + 1) <= b
        BY <2>2, <3>1, <3>2
      <3> QED BY <3>1, <3>2, <3>3
    <2>5. timeouts' + 1 + Waits' = b /\ nextReq' = nextReq /\ Len(incoming') = i + 1
      BY <1>1, <1>7, <2>1
    <2>6. \A p \in DOMAIN outgoing' : Age(outgoing'[p], nextReq) + (i + 1) + Len(devQueue') + p <= b
      <3> TAKE p \in DOMAIN outgoing'
      <3>1. outgoing'[p] = outgoing[p] /\ p \in Nat /\ p \in DOMAIN outgoing
        BY <1>1, CtrlState
      <3>a. Len(devQueue') \in Nat /\ Len(devQueue) \in Nat /\ Len(devQueue') + 1 = Len(devQueue)
        BY <1>3, CtrlState
      <3>b. Age(outgoing[p], nextReq) \in Nat
        BY <3>1, CtrlState, AgeGrows
      <3>2. PICK g \in Nat, d \in Nat, e \in Nat :
                g = Age(outgoing[p], nextReq) /\ d = Len(devQueue) /\ e = Len(devQueue') /\ e + 1 = d
        BY <3>a, <3>b
      <3>c. Age(outgoing[p], nextReq) + Len(incoming) + Len(devQueue) + p <= timeouts + 1 + Waits
        BY <1>9, <3>1 DEF CtrlInv, NoOlderThanTimeouts
      <3>3. g + i + d + p <= b
        BY <2>1, <3>2, <3>c, Zenon
      <3>d. \A x, y, z, v, w \in Nat, m \in Int :
                (x + y + v + w <= m /\ z + 1 = v) => x + (y + 1) + z + w <= m
        OBVIOUS
      <3>4. g + (i + 1) + e + p <= b
        BY <2>1, <3>1, <3>2, <3>3, <3>d, Zenon
      <3> QED BY <3>1, <3>2, <3>4, Zenon
    <2> QED BY <2>3, <2>4, <2>5, <2>6 DEF NoOlderThanTimeouts
  <1>10. NoOlderThanTimeouts'
    BY <1>1, <1>9 DEF NoOlderThanTimeouts
  <1>11. NothingAfterReboot' /\ OwnAnswer'
    BY <1>1 DEF CtrlInv, NothingAfterReboot, OwnAnswer
  <1> QED BY <1>8, <1>10, <1>11 DEF CtrlInv

LEMMA ReceiveInv == ASSUME CtrlInv, Receive PROVE CtrlInv'
  <1>1. /\ pending # <<>> /\ pending' = <<>> /\ incoming # <<>> /\ incoming' = Tail(incoming)
        /\ lastResult' = Outcome(Head(incoming), pending[1])
        /\ nextReq' = nextReq /\ devQueue' = devQueue /\ timeouts' = timeouts
        /\ Waits = 1 /\ Waits' = 0 /\ lastResult # "rebooted" /\ outgoing = <<>> /\ outgoing' = <<>>
    BY DEF Receive, Waiting, Waits, CtrlInv, NothingAfterReboot
  <1>2. /\ Head(incoming) = incoming[1] /\ Head(incoming) \in Responses /\ 1 \in DOMAIN incoming
        /\ incoming' \in Seq(Responses)
        /\ \A p \in DOMAIN incoming' : p + 1 \in DOMAIN incoming /\ incoming'[p] = incoming[p + 1]
                                       /\ p \in Nat \ {0}
    BY <1>1, CtrlState, TailQueue
  <1>3. Len(incoming) = Len(incoming') + 1 /\ Len(incoming') \in Nat
    <2>1. incoming \in Seq(Responses)
      BY CtrlState
    <2> QED BY <1>1, <2>1
  <1>4. CtrlTypes'
    BY <1>1, <1>2 DEF CtrlInv, CtrlTypes
  <1>5. PICK i \in Nat, t \in Nat : i = Len(incoming') /\ t = timeouts /\ t + 1 <= Ids
    BY <1>3, CtrlState
  <1>6. /\ \A p \in DOMAIN incoming : Age(incoming[p].n, nextReq) + p <= t + 2
        /\ \A p \in DOMAIN devQueue : Age(devQueue[p], nextReq) + (i + 1) + p <= t + 2
    <2>1. timeouts + 1 + Waits = t + 2 /\ Len(incoming) = i + 1
      BY <1>1, <1>3, <1>5
    <2> QED BY <1>1, <2>1 DEF CtrlInv, NoOlderThanTimeouts
  <1>7. lastResult' # "other"
    <2>1. PICK a \in Numbers, r \in Responses : a = pending[1] /\ r = Head(incoming) /\ Age(a, nextReq) = 1
      BY <1>1, <1>2 DEF CtrlInv, CtrlTypes
    <2>2. r.n \in Numbers /\ r.id = IdOf(r.n)
      BY DEF Responses
    <2>3. PICK g \in Nat : g = Age(r.n, nextReq)
      BY <2>2, CtrlState, AgeGrows
    <2>4. g + 1 <= t + 2
      BY <1>2, <1>6, <2>1, <2>3
    <2>5. g <= Ids
      BY <1>5, <2>4, CtrlFacts
    <2>6. IdOf(a) = IdOf(r.n) => a = r.n
      BY <2>1, <2>2, <2>3, <2>5, CtrlState, SameRequest
    <2>7. lastResult' = Outcome(r, a)
      BY <1>1, <2>1
    <2> QED BY <2>2, <2>6, <2>7 DEF Outcome, Matching
  <1>8. lastResult' # "rebooted"
    BY <1>1 DEF Outcome
  <1>9. \A p \in DOMAIN incoming' : Age(incoming'[p].n, nextReq) + p <= t + 1
    <2> TAKE p \in DOMAIN incoming'
    <2>1. p + 1 \in DOMAIN incoming /\ incoming'[p] = incoming[p + 1] /\ p \in Nat
      BY <1>2
    <2>2. PICK g \in Nat : g = Age(incoming[p + 1].n, nextReq)
      BY <2>1, CtrlState, AgeGrows
    <2>3. g + (p + 1) <= t + 2
      BY <1>6, <2>1, <2>2
    <2> QED BY <2>1, <2>2, <2>3
  <1>10. \A p \in DOMAIN devQueue : Age(devQueue[p], nextReq) + i + p <= t + 1
    <2> TAKE p \in DOMAIN devQueue
    <2>1. PICK g \in Nat : g = Age(devQueue[p], nextReq) /\ p \in Nat
      BY CtrlState, AgeGrows
    <2>2. g + (i + 1) + p <= t + 2
      BY <1>6, <2>1
    <2> QED BY <2>1, <2>2
  <1>11. NoOlderThanTimeouts'
    <2>1. timeouts' + 1 + Waits' = t + 1 /\ Len(incoming') = i
      BY <1>1, <1>5
    <2>2. DOMAIN outgoing' = {}
      BY <1>1, EmptyQueues
    <2> QED BY <1>1, <1>9, <1>10, <2>1, <2>2 DEF NoOlderThanTimeouts
  <1> QED BY <1>1, <1>4, <1>7, <1>8, <1>11 DEF CtrlInv, NothingAfterReboot, OwnAnswer

LEMMA RequestTimesOutInv == ASSUME CtrlInv, RequestTimesOut PROVE CtrlInv'
  <1>1. /\ pending # <<>> /\ pending' = <<>> /\ incoming = <<>> /\ incoming' = incoming
        /\ lastResult' = "timeout" /\ nextReq' = nextReq /\ devQueue' = devQueue
        /\ Waits = 1 /\ Waits' = 0 /\ lastResult # "rebooted"
        /\ timeouts' = IF timeouts < MaxTimeouts THEN timeouts + 1 ELSE timeouts
        /\ timeouts < MaxTimeouts \/ devQueue = <<>>
        /\ outgoing = <<>> /\ outgoing' = <<>>
    BY DEF RequestTimesOut, Expires, Waiting, Waits, CtrlInv, NothingAfterReboot
  <1>2. PICK t \in Nat : t = timeouts /\ t <= MaxTimeouts
    BY CtrlFacts DEF CtrlInv, CtrlTypes
  <1>3. timeouts' \in 0..MaxTimeouts
    BY <1>1, <1>2, CtrlFacts
  <1>4. CtrlTypes'
    BY <1>1, <1>3 DEF CtrlInv, CtrlTypes
  <1>5. DOMAIN incoming' = {} /\ DOMAIN outgoing' = {}
    BY <1>1, EmptyQueues
  <1>6. \A p \in DOMAIN devQueue : Age(devQueue[p], nextReq) + Len(incoming) + p <= timeouts' + 1 + 0
    <2>1. CASE timeouts < MaxTimeouts
      <3>1. timeouts' + 1 + 0 = timeouts + 1 + Waits
        BY <1>1, <1>2, <2>1
      <3> QED BY <1>1, <3>1 DEF CtrlInv, NoOlderThanTimeouts
    <2>2. CASE devQueue = <<>>
      BY <2>2, EmptyQueues
    <2> QED BY <1>1, <2>1, <2>2
  <1>7. NoOlderThanTimeouts'
    BY <1>1, <1>5, <1>6 DEF NoOlderThanTimeouts
  <1> QED BY <1>1, <1>4, <1>7 DEF CtrlInv, NothingAfterReboot, OwnAnswer

\* However late the device answers, whatever is lost, left in the writer's
\* buffer by a write that failed or never read, and however often the 8-bit ids
\* have wrapped, no driver takes the answer to another request for its own, as
\* long as fewer requests fail than there are ids (channel.rs:67).
THEOREM AnswersAreOnesOwn == CtrlSpec => []OwnAnswer
  <1>1. CtrlInit => CtrlInv
    BY CtrlInitInv
  <1>2. CtrlInv /\ [CtrlNext]_ctrlVars => CtrlInv'
    <2> SUFFICES ASSUME CtrlInv, [CtrlNext]_ctrlVars PROVE CtrlInv'
      OBVIOUS
    <2>1. CASE UNCHANGED ctrlVars
      BY <2>1 DEF ctrlVars, CtrlInv, CtrlTypes, NothingAfterReboot, NoOlderThanTimeouts, OwnAnswer, Waits
    <2> QED BY <2>1, SendPacketInv, WriteInv, WriteFailsInv, DeviceHangsInv, DeviceAnswersInv, ReceiveInv, RequestTimesOutInv
            DEF CtrlNext
  <1>3. CtrlInv => OwnAnswer
    BY DEF CtrlInv
  <1> QED BY <1>1, <1>2, <1>3, PTL DEF CtrlSpec

-----------------------------------------------------------------------------
(* The hash-rate estimator.                                                *)

Samples == Nat \X Nat

LEMMA WorkSumsAre ==
    ASSUME NEW q \in Seq(Samples)
    PROVE  /\ WorkSums(q)[0] = 0
           /\ \A n \in 0..Len(q) : WorkSums(q)[n] \in Nat
           /\ \A n \in 1..Len(q) : WorkSums(q)[n] = WorkSums(q)[n - 1] + q[n][2]
  <1>1. PICK last \in Nat : last = Len(q)
    OBVIOUS
  <1>2. \A n \in 1..last : q[n][2] \in Nat
    <2> TAKE n \in 1..last
    <2>1. q[n] \in Samples
      BY <1>1
    <2> QED BY <2>1 DEF Samples
  <1> DEFINE Sums(f, n) == /\ f \in [0..n -> Nat] /\ f[0] = 0
                           /\ \A k \in 1..n : f[k] = f[k - 1] + q[k][2]
             Body(f) == [n \in 0..last |-> IF n = 0 THEN 0 ELSE f[n - 1] + q[n][2]]
             bad == {n \in 0..last : ~\E f : Sums(f, n)}
             s == WorkSums(q)
  <1>3. s = CHOOSE f : f = Body(f)
    BY <1>1 DEF WorkSums
  <1> HIDE DEF s
  <1>4. bad = {}
    <2>1. SUFFICES ASSUME bad # {} PROVE FALSE
      OBVIOUS
    <2>2. bad \subseteq Nat
      OBVIOUS
    <2>3. PICK n \in bad : \A k \in bad : n <= k
      BY <2>1, <2>2, NatMin
    <2>4. n \in 0..last /\ ~\E f : Sums(f, n)
      BY <2>3
    <2>5. CASE n = 0
      <3>1. Sums([k \in 0..0 |-> 0], 0)
        OBVIOUS
      <3> QED BY <2>4, <2>5, <3>1
    <2>6. CASE n # 0
      <3>1. PICK m \in Nat : n = m + 1 /\ m \in 0..last /\ n \in 1..last /\ ~(n <= m)
        BY <2>4, <2>6
      <3>2. m \notin bad
        BY <2>3, <3>1
      <3>3. PICK f : Sums(f, m)
        BY <3>1, <3>2
      <3>4. f[m] \in Nat /\ q[n][2] \in Nat
        BY <1>2, <3>1, <3>3
      <3> DEFINE g == [k \in 0..n |-> IF k = n THEN f[m] + q[n][2] ELSE f[k]]
      <3>5. g \in [0..n -> Nat] /\ g[0] = 0
        BY <3>1, <3>3, <3>4
      <3>6. \A k \in 1..n : g[k] = g[k - 1] + q[k][2]
        <4> TAKE k \in 1..n
        <4>1. CASE k = n
          BY <3>1, <4>1
        <4>2. CASE k # n
          <5>1. k \in 1..m /\ k \in 0..n /\ k - 1 \in 0..n /\ k - 1 # n
            BY <3>1, <4>2
          <5>2. g[k] = f[k] /\ g[k - 1] = f[k - 1]
            BY <4>2, <5>1
          <5> QED BY <3>3, <5>1, <5>2
        <4> QED BY <4>1, <4>2
      <3>7. Sums(g, n)
        BY <3>5, <3>6
      <3> QED BY <2>4, <3>7
    <2> QED BY <2>5, <2>6
  <1>5. PICK f : Sums(f, last)
    <2>1. last \in 0..last
      OBVIOUS
    <2>2. last \notin {n \in 0..last : ~\E f : Sums(f, n)}
      BY <1>4
    <2> HIDE DEF Sums
    <2> QED BY <2>1, <2>2
  <1>6. f = Body(f)
    <2>1. \A n \in 0..last : f[n] = IF n = 0 THEN 0 ELSE f[n - 1] + q[n][2]
      <3> TAKE n \in 0..last
      <3>1. n = 0 \/ n \in 1..last
        OBVIOUS
      <3> QED BY <1>5, <3>1
    <2>2. f = [n \in 0..last |-> f[n]]
      BY <1>5
    <2> QED BY <2>1, <2>2, Zenon
  <1> HIDE DEF Sums, bad
  <1>7. s = Body(s)
    BY <1>3, <1>6
  <1>8. s[0] = 0
    BY <1>7
  <1>9. \A n \in 1..last : s[n] = s[n - 1] + q[n][2]
    <2> TAKE n \in 1..last
    <2>1. n \in 0..last /\ n # 0
      OBVIOUS
    <2> QED BY <1>7, <2>1
  <1>10. \A n \in 0..last : s[n] \in Nat
    <2> DEFINE odd == {n \in 0..last : s[n] \notin Nat}
    <2>1. SUFFICES ASSUME odd # {} PROVE FALSE
      OBVIOUS
    <2>2. odd \subseteq Nat
      OBVIOUS
    <2>3. PICK n \in odd : \A k \in odd : n <= k
      BY <2>1, <2>2, NatMin
    <2>4. n # 0
      BY <1>8
    <2>5. PICK m \in Nat : n = m + 1 /\ m \in 0..last /\ n \in 1..last /\ ~(n <= m)
      BY <2>4
    <2>6. s[m] \in Nat
      BY <2>3, <2>5
    <2>7. s[n] = s[m] + q[n][2]
      <3>1. n - 1 = m
        BY <2>5
      <3> QED BY <1>9, <2>5, <3>1
    <2>8. q[n][2] \in Nat
      BY <1>2, <2>5
    <2>9. s[n] \in Nat
      BY <2>6, <2>7, <2>8
    <2> QED BY <2>3, <2>9
  <1> QED BY <1>1, <1>8, <1>9, <1>10 DEF s

\* A further sample adds its work.
LEMMA WorkAppend ==
    ASSUME NEW q \in Seq(Samples), NEW x \in Samples
    PROVE  /\ WorkOf(q) \in Nat /\ WorkOf(Append(q, x)) \in Nat
           /\ WorkOf(Append(q, x)) = WorkOf(q) + x[2]
  <1> DEFINE r == Append(q, x)
             a == WorkSums(q)
             b == WorkSums(r)
  <1>1. PICK last \in Nat : last = Len(q)
    OBVIOUS
  <1>2. r \in Seq(Samples) /\ Len(r) = last + 1 /\ r[last + 1] = x /\ \A n \in 1..last : r[n] = q[n]
    BY <1>1
  <1> HIDE DEF r
  <1>3. /\ a[0] = 0 /\ \A n \in 0..last : a[n] \in Nat
        /\ \A n \in 1..last : a[n] = a[n - 1] + q[n][2]
    BY <1>1, WorkSumsAre
  <1>4. /\ b[0] = 0 /\ \A n \in 0..(last + 1) : b[n] \in Nat
        /\ \A n \in 1..(last + 1) : b[n] = b[n - 1] + r[n][2]
    BY <1>2, WorkSumsAre
  <1> HIDE DEF a, b
  <1>5. \A n \in 0..last : a[n] = b[n]
    <2> DEFINE odd == {n \in 0..last : a[n] # b[n]}
    <2>1. SUFFICES ASSUME odd # {} PROVE FALSE
      OBVIOUS
    <2>2. odd \subseteq Nat
      OBVIOUS
    <2>3. PICK n \in odd : \A k \in odd : n <= k
      BY <2>1, <2>2, NatMin
    <2>4. n # 0
      BY <1>3, <1>4
    <2>5. PICK m \in Nat : n - 1 = m /\ m \in 0..last /\ n \in 1..last /\ n \in 1..(last + 1) /\ ~(n <= m)
      BY <2>4
    <2>6. a[m] = b[m]
      BY <2>3, <2>5
    <2>7. r[n] = q[n]
      BY <1>2, <2>5
    <2>8. a[n] = b[n]
      BY <1>3, <1>4, <2>5, <2>6, <2>7
    <2> QED BY <2>3, <2>8
  <1>6. last + 1 \in 1..(last + 1) /\ last + 1 \in 0..(last + 1) /\ (last + 1) - 1 = last /\ last \in 0..last
    OBVIOUS
  <1>7. b[last + 1] = b[last] + x[2]
    BY <1>2, <1>4, <1>6
  <1>8. WorkOf(q) = a[last] /\ WorkOf(r) = b[last + 1]
    BY <1>1, <1>2 DEF WorkOf, a, b
  <1> QED BY <1>3, <1>4, <1>5, <1>6, <1>7, <1>8 DEF r

\* Samples are recorded in the order of their times.
InOrder ==
    /\ \A i, k \in 1..Len(recorded) : i <= k => recorded[i][1] <= recorded[k][1]
    /\ \A i \in 1..Len(recorded) : recorded[i][1] <= clock

\* s is the end of what was recorded, and what it lacks is either too old or
\* more than the queue holds.
Tracks(s) ==
    /\ s \in Seq(Samples) /\ Len(s) <= Len(recorded) /\ Len(s) <= MaxSamples
    /\ \A i \in 1..Len(s) : s[i] = recorded[(Len(recorded) - Len(s)) + i]
    /\ \A i \in 1..(Len(recorded) - Len(s)) :
          ~InWindow(recorded[i], clock) \/ i + MaxSamples <= Len(recorded)

EstInv ==
    /\ clock \in Nat /\ recorded \in Seq(Samples)
    /\ InOrder /\ Tracks(samples)
    /\ totalWork = WorkOf(samples)

\* What is left of a queue when its old samples are popped off the front.
LEMMA PrunedIs ==
    ASSUME NEW q \in Seq(Samples), NEW now
    PROVE  \E k \in 1..(Len(q) + 1) :
              /\ \A i \in 1..(k - 1) : ~InWindow(q[i], now)
              /\ k <= Len(q) => InWindow(q[k], now)
              /\ Pruned(q, now) \in Seq(Samples) /\ Len(Pruned(q, now)) = Len(q) - k + 1
              /\ \A i \in 1..(Len(q) - k + 1) : Pruned(q, now)[i] = q[k + i - 1]
  <1>1. PICK n \in Nat : n = Len(q)
    OBVIOUS
  <1> DEFINE First(k) == /\ \A i \in 1..(k - 1) : ~InWindow(q[i], now)
                         /\ k <= n => InWindow(q[k], now)
             young == {k \in 1..(n + 1) : k <= n => InWindow(q[k], now)}
  <1>2. \E k \in 1..(n + 1) : First(k)
    <2>1. n + 1 \in young /\ young \subseteq Nat
      OBVIOUS
    <2>2. PICK k \in young : \A i \in young : k <= i
      BY <2>1, NatMin
    <2>3. \A i \in 1..(k - 1) : ~InWindow(q[i], now)
      <3> TAKE i \in 1..(k - 1)
      <3>1. i \in 1..(n + 1) /\ i <= n /\ ~(k <= i)
        BY <2>2
      <3> QED BY <2>2, <3>1
    <2> QED BY <2>2, <2>3
  <1> DEFINE first == CHOOSE k \in 1..(n + 1) : First(k)
  <1>3. first \in 1..(n + 1) /\ First(first)
    BY <1>2
  <1>4. Pruned(q, now) = SubSeq(q, first, n)
    BY <1>1 DEF Pruned
  <1> HIDE DEF first
  <1>5. PICK k \in 1..(n + 1) : k = first
    BY <1>3
  <1>6. \A i \in k..n : q[i] \in Samples
    BY <1>1
  <1>7. /\ SubSeq(q, k, n) \in Seq(Samples)
        /\ Len(SubSeq(q, k, n)) = IF k <= n THEN n - k + 1 ELSE 0
        /\ \A i \in 1..(n - k + 1) : SubSeq(q, k, n)[i] = q[k + i - 1]
    BY <1>6, SubSeqProperties
  <1>8. Len(SubSeq(q, k, n)) = n - k + 1
    BY <1>7
  <1> QED BY <1>1, <1>3, <1>4, <1>5, <1>7, <1>8

\* The kept samples are those of the window, as far as the queue reaches back.
LEMMA KeptIs ==
    ASSUME EstInv
    PROVE  /\ Tracks(Pruned(samples, clock))
           /\ \A i \in (Len(recorded) - Len(Pruned(samples, clock)) + 1)..Len(recorded) :
                 InWindow(recorded[i], clock)
  <1> DEFINE kept == Pruned(samples, clock)
  <1>1. samples \in Seq(Samples) /\ recorded \in Seq(Samples)
    BY DEF EstInv, Tracks
  <1>2. PICK n \in Nat, m \in Nat : n = Len(recorded) /\ m = Len(samples)
    BY <1>1
  <1>3. m <= n /\ m <= MaxSamples /\ MaxSamples \in Nat /\ clock \in Nat /\ EstWindow \in Nat
    BY <1>2, MonitorConstants DEF EstInv, Tracks
  <1>4. /\ \A i \in 1..m : samples[i] = recorded[(n - m) + i]
        /\ \A i \in 1..(n - m) : ~InWindow(recorded[i], clock) \/ i + MaxSamples <= n
    BY <1>2 DEF EstInv, Tracks
  <1>5. PICK k \in 1..(m + 1) :
            /\ \A i \in 1..(k - 1) : ~InWindow(samples[i], clock)
            /\ k <= m => InWindow(samples[k], clock)
            /\ kept \in Seq(Samples) /\ Len(kept) = m - k + 1
            /\ \A i \in 1..(m - k + 1) : kept[i] = samples[k + i - 1]
    BY <1>1, <1>2, PrunedIs
  <1> HIDE DEF kept
  <1>6. PICK p \in Nat : p = Len(kept) /\ p = m - k + 1
    BY <1>5
  <1>7. \A i \in 1..p : kept[i] = recorded[(n - p) + i]
    <2> TAKE i \in 1..p
    <2>1. k + i - 1 \in 1..m /\ (n - m) + (k + i - 1) = (n - p) + i
      BY <1>3, <1>6
    <2>2. kept[i] = samples[k + i - 1]
      BY <1>5, <1>6
    <2>3. samples[k + i - 1] = recorded[(n - m) + (k + i - 1)]
      BY <1>4, <2>1
    <2> QED BY <2>1, <2>2, <2>3
  <1>8. \A i \in 1..(n - p) : ~InWindow(recorded[i], clock) \/ i + MaxSamples <= n
    <2> TAKE i \in 1..(n - p)
    <2>1. CASE i <= n - m
      BY <1>4, <2>1
    <2>2. CASE i > n - m
      <3>1. PICK j \in 1..(k - 1) : i = (n - m) + j
        <4>1. i - (n - m) \in 1..(k - 1) /\ i = (n - m) + (i - (n - m))
          BY <1>3, <1>6, <2>2
        <4> QED BY <4>1
      <3>2. j \in 1..m
        OBVIOUS
      <3> QED BY <1>4, <1>5, <3>1, <3>2
    <2> QED BY <1>3, <2>1, <2>2
  <1>9. \A i \in (n - p + 1)..n : InWindow(recorded[i], clock)
    <2> TAKE i \in (n - p + 1)..n
    <2>1. k <= m /\ k \in 1..m /\ (n - m) + k = n - p + 1 /\ (n - m) + k \in 1..n /\ i \in 1..n
          /\ (n - m) + k <= i
      BY <1>3, <1>6
    <2>2. InWindow(recorded[(n - m) + k], clock)
      BY <1>4, <1>5, <2>1
    <2>3. PICK j \in 1..n : j = (n - m) + k /\ j <= i
      BY <2>1
    <2>4. recorded[j][1] <= recorded[i][1]
      BY <1>2, <2>1, <2>3 DEF EstInv, InOrder
    <2>5. recorded[j][1] \in Nat /\ recorded[i][1] \in Nat
      <3>1. recorded[j] \in Samples /\ recorded[i] \in Samples
        BY <1>1, <1>2, <2>1
      <3> QED BY <3>1 DEF Samples
    <2> QED BY <1>3, <2>2, <2>3, <2>4, <2>5 DEF InWindow
  <1>10. p <= n /\ p <= MaxSamples
    BY <1>3, <1>6
  <1>11. Tracks(kept)
    BY <1>2, <1>5, <1>6, <1>7, <1>8, <1>10 DEF Tracks
  <1> QED BY <1>2, <1>6, <1>9, <1>11 DEF kept

LEMMA WorkIsNat == ASSUME NEW q \in Seq(Samples) PROVE WorkOf(q) \in Nat
  <1>1. Len(q) \in 0..Len(q)
    OBVIOUS
  <1> QED BY <1>1, WorkSumsAre DEF WorkOf

LEMMA EstInitInv == MonInit => EstInv
  <1> SUFFICES ASSUME MonInit PROVE EstInv
    OBVIOUS
  <1>1. clock = 0 /\ samples = <<>> /\ recorded = <<>> /\ totalWork = 0
    BY DEF MonInit
  <1>2. <<>> \in Seq(Samples) /\ Len(<<>>) = 0
    OBVIOUS
  <1>3. WorkOf(<<>>) = 0
    BY <1>2, WorkSumsAre DEF WorkOf
  <1>4. 1..0 = {}
    OBVIOUS
  <1>5. InOrder
    BY <1>1, <1>2, <1>4 DEF InOrder
  <1>6. Tracks(<<>>)
    BY <1>1, <1>2, <1>4, MonitorConstants DEF Tracks
  <1> QED BY <1>1, <1>2, <1>3, <1>5, <1>6 DEF EstInv

LEMMA TickEst == ASSUME EstInv, MonTick PROVE EstInv'
  <1>1. /\ clock \in Nat /\ clock' = clock + 1 /\ clock' \in Nat /\ EstWindow \in Nat
        /\ recorded' = recorded /\ samples' = samples /\ totalWork' = totalWork
        /\ recorded \in Seq(Samples)
    BY MonitorConstants DEF EstInv, MonTick, estVars
  <1>2. \A i \in 1..Len(recorded) : recorded[i][1] \in Nat
    <2> TAKE i \in 1..Len(recorded)
    <2>1. recorded[i] \in Samples
      BY <1>1
    <2> QED BY <2>1 DEF Samples
  <1>3. InOrder'
    <2>1. \A i \in 1..Len(recorded) : recorded[i][1] <= clock + 1
      BY <1>1, <1>2 DEF EstInv, InOrder
    <2>2. \A i, k \in 1..Len(recorded) : i <= k => recorded[i][1] <= recorded[k][1]
      BY DEF EstInv, InOrder
    <2> QED BY <1>1, <2>1, <2>2 DEF InOrder
  <1>4. Tracks(samples)'
    <2>1. \A i \in 1..Len(recorded) : ~InWindow(recorded[i], clock) => ~InWindow(recorded[i], clock')
      BY <1>1, <1>2 DEF InWindow
    <2>2. PICK n \in Nat, m \in Nat : n = Len(recorded) /\ m = Len(samples)
      BY <1>1 DEF EstInv, Tracks
    <2>3. \A i \in 1..(n - m) : i \in 1..n
      OBVIOUS
    <2> QED BY <1>1, <2>1, <2>2, <2>3 DEF EstInv, Tracks
  <1> QED BY <1>1, <1>3, <1>4 DEF EstInv

LEMMA RecordEst == ASSUME EstInv, NEW w \in Works, Record(w) PROVE EstInv'
  <1> DEFINE kept == Pruned(samples, clock)
             x == <<clock, w>>
             all == Append(kept, x)
             top == Capped(all)
  <1>1. /\ samples' = top /\ recorded' = Append(recorded, x) /\ clock' = clock
        /\ totalWork' = totalWork - (WorkOf(samples) - WorkOf(kept)) + w - (WorkOf(all) - WorkOf(top))
    BY DEF Record
  <1>2. /\ clock \in Nat /\ recorded \in Seq(Samples) /\ samples \in Seq(Samples)
        /\ totalWork = WorkOf(samples) /\ w \in Nat /\ MaxSamples \in Nat \ {0}
    BY MonitorConstants DEF EstInv, Tracks
  <1>3. x \in Samples /\ x[1] = clock /\ x[2] = w
    BY <1>2 DEF Samples
  <1>4. Tracks(kept)
    BY KeptIs
  <1> HIDE DEF kept, x
  <1>5. kept \in Seq(Samples)
    BY <1>4 DEF Tracks
  <1>6. PICK n \in Nat, p \in Nat : n = Len(recorded) /\ p = Len(kept) /\ p <= n /\ p <= MaxSamples
    BY <1>2, <1>4, <1>5 DEF Tracks
  <1>7. /\ \A i \in 1..p : kept[i] = recorded[(n - p) + i]
        /\ \A i \in 1..(n - p) : ~InWindow(recorded[i], clock) \/ i + MaxSamples <= n
    BY <1>4, <1>6 DEF Tracks
  <1>8. /\ recorded' \in Seq(Samples) /\ Len(recorded') = n + 1 /\ recorded'[n + 1] = x
        /\ \A i \in 1..n : recorded'[i] = recorded[i]
    BY <1>1, <1>2, <1>3, <1>6
  <1>9. /\ all \in Seq(Samples) /\ Len(all) = p + 1 /\ all[p + 1] = x
        /\ \A i \in 1..p : all[i] = kept[i]
    BY <1>3, <1>5, <1>6
  <1>10. WorkOf(all) = WorkOf(kept) + w
    BY <1>3, <1>5, WorkAppend
  <1> HIDE DEF all
  <1>11. \A i \in 1..(p + 1) : all[i] = recorded'[(n - p) + i]
    <2> TAKE i \in 1..(p + 1)
    <2>1. CASE i \in 1..p
      <3>1. (n - p) + i \in 1..n
        BY <1>6, <2>1
      <3> QED BY <1>7, <1>8, <1>9, <2>1, <3>1
    <2>2. CASE i = p + 1
      <3>1. (n - p) + i = n + 1
        BY <2>2
      <3> QED BY <1>8, <1>9, <2>2, <3>1
    <2> QED BY <2>1, <2>2
  <1>12. \A i \in 1..(n - p) : ~InWindow(recorded'[i], clock) \/ i + MaxSamples <= n + 1
    <2> TAKE i \in 1..(n - p)
    <2>1. i \in 1..n
      BY <1>6
    <2> QED BY <1>2, <1>7, <1>8, <2>1
  <1>13. PICK t \in Nat : /\ top \in Seq(Samples) /\ t = Len(top) /\ t <= n + 1 /\ t <= MaxSamples
                          /\ \A i \in 1..t : top[i] = recorded'[((n + 1) - t) + i]
                          /\ \A i \in 1..((n + 1) - t) :
                                ~InWindow(recorded'[i], clock) \/ i + MaxSamples <= n + 1
    <2>1. CASE ~(p + 1 > MaxSamples)
      <3>1. top = all
        BY <1>9, <2>1 DEF Capped
      <3>2. (n + 1) - (p + 1) = n - p /\ p + 1 <= n + 1 /\ p + 1 \in Nat
        BY <1>6
      <3> QED BY <1>2, <1>9, <1>11, <1>12, <2>1, <3>1, <3>2
    <2>2. CASE p + 1 > MaxSamples
      <3>1. top = Tail(all) /\ p = MaxSamples /\ p # 0
        BY <1>2, <1>6, <1>9, <2>2 DEF Capped
      <3>2. Tail(all) \in Seq(Samples) /\ Len(Tail(all)) = p /\ \A i \in 1..p : Tail(all)[i] = all[i + 1]
        BY <1>9
      <3>3. \A i \in 1..p : top[i] = recorded'[((n + 1) - p) + i]
        <4> TAKE i \in 1..p
        <4>1. i + 1 \in 1..(p + 1) /\ (n - p) + (i + 1) = ((n + 1) - p) + i
          BY <1>6
        <4> QED BY <1>11, <3>1, <3>2, <4>1
      <3>4. \A i \in 1..((n + 1) - p) : ~InWindow(recorded'[i], clock) \/ i + MaxSamples <= n + 1
        <4> TAKE i \in 1..((n + 1) - p)
        <4>1. i + p <= n + 1
          BY <1>6
        <4> QED BY <3>1, <4>1
      <3>5. top \in Seq(Samples) /\ p = Len(top) /\ p <= n + 1 /\ p <= MaxSamples
        BY <1>6, <3>1, <3>2
      <3> HIDE DEF top
      <3> QED BY <3>3, <3>4, <3>5
    <2> QED BY <2>1, <2>2
  <1> HIDE DEF top
  <1>14. Tracks(samples)'
    BY <1>1, <1>8, <1>13 DEF Tracks
  <1>15. InOrder'
    <2>1. \A i \in 1..n : recorded[i][1] <= clock /\ \A k \in 1..n : i <= k => recorded[i][1] <= recorded[k][1]
      BY <1>6 DEF EstInv, InOrder
    <2>2. \A i, k \in 1..(n + 1) : i <= k => recorded'[i][1] <= recorded'[k][1]
      <3> TAKE i, k \in 1..(n + 1)
      <3> HAVE i <= k
      <3>1. CASE k \in 1..n
        <4>1. i \in 1..n
          BY <3>1
        <4> QED BY <1>8, <2>1, <3>1, <4>1
      <3>2. CASE k = n + 1 /\ i \in 1..n
        BY <1>3, <1>8, <2>1, <3>2
      <3>3. CASE k = n + 1 /\ i = n + 1
        BY <1>2, <1>3, <1>8, <3>3
      <3> QED BY <3>1, <3>2, <3>3
    <2>3. \A i \in 1..(n + 1) : recorded'[i][1] <= clock
      <3> TAKE i \in 1..(n + 1)
      <3>1. CASE i \in 1..n
        BY <1>8, <2>1, <3>1
      <3>2. CASE i = n + 1
        BY <1>2, <1>3, <1>8, <3>2
      <3> QED BY <3>1, <3>2
    <2> QED BY <1>1, <1>8, <2>2, <2>3 DEF InOrder
  <1>16. totalWork' = WorkOf(samples')
    <2>1. PICK a \in Nat, b \in Nat, c \in Nat : a = WorkOf(samples) /\ b = WorkOf(kept) /\ c = WorkOf(top)
      BY <1>2, <1>5, <1>13, WorkIsNat
    <2>2. totalWork' = a - (a - b) + w - ((b + w) - c)
      BY <1>1, <1>2, <1>10, <2>1
    <2>3. a - (a - b) + w - ((b + w) - c) = c
      BY <1>2
    <2> QED BY <1>1, <2>1, <2>2, <2>3
  <1> QED BY <1>1, <1>2, <1>8, <1>14, <1>15, <1>16 DEF EstInv

LEMMA AskEst == ASSUME EstInv, AskHashrate PROVE EstInv'
  <1> DEFINE kept == Pruned(samples, clock)
  <1>1. /\ samples' = kept /\ clock' = clock /\ recorded' = recorded
        /\ totalWork' = totalWork - (WorkOf(samples) - WorkOf(kept))
    BY DEF AskHashrate
  <1>2. Tracks(kept)
    BY KeptIs
  <1> HIDE DEF kept
  <1>3. Tracks(samples)' /\ InOrder'
    BY <1>1, <1>2 DEF Tracks, EstInv, InOrder
  <1>4. PICK a \in Nat, b \in Nat : a = WorkOf(samples) /\ b = WorkOf(kept)
    BY <1>2, WorkIsNat DEF EstInv, Tracks
  <1>5. totalWork' = WorkOf(samples')
    <2>1. a - (a - b) = b
      OBVIOUS
    <2> QED BY <1>1, <1>4, <2>1 DEF EstInv
  <1> QED BY <1>1, <1>3, <1>5 DEF EstInv

LEMMA EstimateRight == EstInv => EstimateIsOfWindow
  <1> SUFFICES ASSUME EstInv PROVE EstimateIsOfWindow
    OBVIOUS
  <1> DEFINE kept == Pruned(samples, clock)
             used == {i \in 1..Len(recorded) : InWindow(recorded[i], clock) /\ Len(recorded) < i + MaxSamples}
             rate(i) == IF recorded[i][1] = clock THEN 0
                        ELSE WorkOf(SubSeq(recorded, i, Len(recorded))) \div (clock - recorded[i][1])
  <1>1. Hashrate(clock) = IF kept = <<>> \/ clock = kept[1][1] THEN 0
                          ELSE (totalWork - (WorkOf(samples) - WorkOf(kept))) \div (clock - kept[1][1])
    BY DEF Hashrate
  <1>2. Tracks(kept) /\ \A i \in (Len(recorded) - Len(kept) + 1)..Len(recorded) : InWindow(recorded[i], clock)
    BY KeptIs
  <1> HIDE DEF kept
  <1>3. kept \in Seq(Samples) /\ recorded \in Seq(Samples) /\ samples \in Seq(Samples) /\ MaxSamples \in Nat
    BY <1>2, MonitorConstants DEF EstInv, Tracks
  <1>4. PICK n \in Nat, p \in Nat : n = Len(recorded) /\ p = Len(kept) /\ p <= n /\ p <= MaxSamples
    BY <1>2, <1>3 DEF Tracks
  <1>5. /\ \A i \in 1..p : kept[i] = recorded[(n - p) + i]
        /\ \A i \in 1..(n - p) : ~InWindow(recorded[i], clock) \/ i + MaxSamples <= n
        /\ \A i \in (n - p + 1)..n : InWindow(recorded[i], clock)
    BY <1>2, <1>4 DEF Tracks
  <1>6. totalWork - (WorkOf(samples) - WorkOf(kept)) = WorkOf(kept)
    <2>1. PICK a \in Nat, b \in Nat : a = WorkOf(samples) /\ b = WorkOf(kept)
      BY <1>3, WorkIsNat
    <2>2. a - (a - b) = b
      OBVIOUS
    <2> QED BY <2>1, <2>2 DEF EstInv
  <1>7. used = (n - p + 1)..n
    <2>1. ASSUME NEW i \in 1..n, InWindow(recorded[i], clock), n < i + MaxSamples PROVE i \in (n - p + 1)..n
      <3>1. i \notin 1..(n - p)
        BY <1>3, <1>5, <2>1
      <3> QED BY <1>4, <3>1
    <2>2. ASSUME NEW i \in (n - p + 1)..n
          PROVE  i \in 1..n /\ InWindow(recorded[i], clock) /\ n < i + MaxSamples
      BY <1>3, <1>4, <1>5
    <2> QED BY <1>4, <2>1, <2>2
  <1>8. CASE p = 0
    <2>1. kept = <<>>
      BY <1>3, <1>4, <1>8, EmptySeq
    <2>2. used = {}
      BY <1>7, <1>8
    <2>3. Hashrate(clock) = 0
      BY <1>1, <2>1
    <2> QED BY <2>2, <2>3 DEF EstimateIsOfWindow
  <1>9. CASE p # 0
    <2>1. PICK i \in 1..n : i = n - p + 1
      <3>1. n - p + 1 \in 1..n
        BY <1>4, <1>9
      <3> QED BY <3>1
    <2>2. kept # <<>> /\ kept[1] = recorded[i]
      <3>1. 1 \in 1..p /\ (n - p) + 1 = i
        BY <1>9, <2>1
      <3>2. kept # <<>>
        BY <1>4, <1>9
      <3> QED BY <1>5, <3>1, <3>2
    <2>3. kept = SubSeq(recorded, i, n)
      <3>1. \A k \in i..n : recorded[k] \in Samples
        BY <1>3, <1>4
      <3>2. /\ SubSeq(recorded, i, n) \in Seq(Samples)
            /\ Len(SubSeq(recorded, i, n)) = IF i <= n THEN n - i + 1 ELSE 0
            /\ \A k \in 1..(n - i + 1) : SubSeq(recorded, i, n)[k] = recorded[i + k - 1]
        BY <3>1, SubSeqProperties
      <3>3. n - i + 1 = p /\ i <= n
        BY <2>1
      <3>4. \A k \in 1..p : kept[k] = SubSeq(recorded, i, n)[k]
        <4> TAKE k \in 1..p
        <4>1. (n - p) + k = i + k - 1
          BY <2>1
        <4> QED BY <1>5, <3>2, <3>3, <4>1
      <3>5. PICK s \in Seq(Samples) : s = SubSeq(recorded, i, n) /\ Len(s) = p
        BY <3>2, <3>3
      <3>6. kept = s
        <4>1. Len(kept) = Len(s) /\ \A k \in 1..Len(kept) : kept[k] = s[k]
          BY <1>4, <3>4, <3>5
        <4> QED BY <1>3, <4>1, SeqEqual
      <3> QED BY <3>5, <3>6
    <2>4. Hashrate(clock) = rate(i)
      BY <1>1, <1>4, <1>6, <2>2, <2>3
    <2>5. used = i..n /\ i \in used
      BY <1>7, <2>1
    <2> QED BY <1>4, <2>4, <2>5 DEF EstimateIsOfWindow
  <1> QED BY <1>8, <1>9

-----------------------------------------------------------------------------
(* The debounced alarm.                                                    *)

Looks == [at : Nat, cond : BOOLEAN, status : {"Idle", "Pending", "Triggered", "Active", "Resolved", "Reset"}]

\* Look i of q triggers only after the condition held for the debounce, and
\* only if every earlier episode was closed.
Episode(q, i) ==
    q[i].status = "Triggered" =>
        /\ \E j \in 1..i : q[i].at - q[j].at >= Debounce /\ \A k \in j..i : q[k].cond
        /\ \A j \in 1..(i - 1) : q[j].status = "Triggered" =>
              \E k \in j..i : q[k].status \in {"Resolved", "Reset"}

\* The alarm triggered at some look up to n and nothing closed the episode since.
StillFired(q, n) ==
    \E k \in 1..n : /\ q[k].status = "Triggered"
                    /\ \A m \in k..n : q[m].status \notin {"Resolved", "Reset", "Idle"}

\* A condition seen from look j to look i for the debounce has triggered.
Lasting(q, i, j) ==
    (j < i /\ q[i].at - q[j].at >= Debounce /\ \A k \in j..i : q[k].cond) => StillFired(q, i)

\* Every episode up to look n was resolved or reset.
AllClosed(q, n) ==
    \A j \in 1..n : q[j].status = "Triggered" => \E k \in j..n : q[k].status \in {"Resolved", "Reset"}

\* The timer runs since look s, the first that saw the condition, and the last
\* look came before the debounce was over.
TimedFrom(q, n, since, s) ==
    /\ q[s].at = since /\ \A k \in s..n : q[k].cond
    /\ s = 1 \/ ~q[s - 1].cond
    /\ s = n \/ ~(q[n].at - since >= Debounce)

AlarmInv ==
    /\ clock \in Nat /\ alarm \in {"idle", "timing", "fired"} /\ alarmSince \in Nat
    /\ alarmSaw \in Seq(Looks)
    /\ \A i, k \in 1..Len(alarmSaw) : i <= k => alarmSaw[i].at <= alarmSaw[k].at
    /\ \A i \in 1..Len(alarmSaw) : alarmSaw[i].at <= clock
    /\ \A i \in 1..Len(alarmSaw) : Episode(alarmSaw, i)
    /\ \A i, j \in 1..Len(alarmSaw) : Lasting(alarmSaw, i, j)
    /\ alarm # "fired" => AllClosed(alarmSaw, Len(alarmSaw))
    /\ alarm = "idle" => Len(alarmSaw) = 0 \/ ~alarmSaw[Len(alarmSaw)].cond
    /\ alarm = "timing" =>
          \E s \in 1..Len(alarmSaw) : TimedFrom(alarmSaw, Len(alarmSaw), alarmSince, s)
    /\ alarm = "fired" => StillFired(alarmSaw, Len(alarmSaw))

\* What holds of looks holds however many follow.
LEMMA LooksStay ==
    ASSUME NEW q, NEW r, NEW n \in Nat, \A k \in 1..n : r[k] = q[k]
    PROVE  /\ \A i \in 1..n : Episode(q, i) => Episode(r, i)
           /\ \A i, j \in 1..n : Lasting(q, i, j) => Lasting(r, i, j)
           /\ StillFired(q, n) => StillFired(r, n)
           /\ AllClosed(q, n) => AllClosed(r, n)
  <1>1. ASSUME NEW i \in 1..n, Episode(q, i) PROVE Episode(r, i)
    <2> SUFFICES ASSUME r[i].status = "Triggered"
                 PROVE  /\ \E j \in 1..i : r[i].at - r[j].at >= Debounce /\ \A k \in j..i : r[k].cond
                        /\ \A j \in 1..(i - 1) : r[j].status = "Triggered" =>
                              \E k \in j..i : r[k].status \in {"Resolved", "Reset"}
      BY DEF Episode
    <2>1. \A k \in 1..i : r[k] = q[k]
      OBVIOUS
    <2>2. \A j \in 1..i : \A k \in j..i : r[k] = q[k]
      OBVIOUS
    <2>3. q[i].status = "Triggered" /\ i \in 1..i
      BY <2>1
    <2>4. PICK j \in 1..i : q[i].at - q[j].at >= Debounce /\ \A k \in j..i : q[k].cond
      BY <1>1, <2>3 DEF Episode
    <2>5. r[i].at - r[j].at >= Debounce /\ \A k \in j..i : r[k].cond
      BY <2>1, <2>2, <2>3, <2>4
    <2>6. ASSUME NEW l \in 1..(i - 1), r[l].status = "Triggered"
          PROVE  \E k \in l..i : r[k].status \in {"Resolved", "Reset"}
      <3>1. l \in 1..i /\ q[l].status = "Triggered"
        BY <2>1, <2>6
      <3>2. PICK k \in l..i : q[k].status \in {"Resolved", "Reset"}
        BY <1>1, <2>3, <3>1 DEF Episode
      <3> QED BY <2>2, <3>1, <3>2
    <2> QED BY <2>5, <2>6
  <1>2. ASSUME NEW m \in 1..n, StillFired(q, m) PROVE StillFired(r, m)
    <2>1. PICK k \in 1..m : /\ q[k].status = "Triggered"
                            /\ \A l \in k..m : q[l].status \notin {"Resolved", "Reset", "Idle"}
      BY <1>2 DEF StillFired
    <2>2. r[k] = q[k] /\ \A l \in k..m : r[l] = q[l]
      OBVIOUS
    <2> QED BY <2>1, <2>2 DEF StillFired
  <1>3. ASSUME NEW i \in 1..n, NEW j \in 1..n, Lasting(q, i, j) PROVE Lasting(r, i, j)
    <2> SUFFICES ASSUME j < i, r[i].at - r[j].at >= Debounce, \A k \in j..i : r[k].cond
                 PROVE  StillFired(r, i)
      BY DEF Lasting
    <2>1. r[i] = q[i] /\ r[j] = q[j] /\ \A k \in j..i : r[k] = q[k]
      OBVIOUS
    <2>2. StillFired(q, i)
      BY <1>3, <2>1 DEF Lasting
    <2> QED BY <1>2, <2>2
  <1>4. StillFired(q, n) => StillFired(r, n)
    <2>1. CASE n = 0
      BY <2>1 DEF StillFired
    <2>2. CASE n # 0
      BY <1>2, <2>2
    <2> QED BY <2>1, <2>2
  <1>5. ASSUME AllClosed(q, n) PROVE AllClosed(r, n)
    <2> SUFFICES ASSUME NEW j \in 1..n, r[j].status = "Triggered"
                 PROVE  \E k \in j..n : r[k].status \in {"Resolved", "Reset"}
      BY DEF AllClosed
    <2>1. PICK k \in j..n : q[k].status \in {"Resolved", "Reset"}
      BY <1>5 DEF AllClosed
    <2>2. r[k] = q[k]
      OBVIOUS
    <2> QED BY <2>1, <2>2
  <1> QED BY <1>1, <1>3, <1>4, <1>5

\* A further look, at the present time.
LEMMA LookFacts ==
    ASSUME AlarmInv, NEW x \in Looks, x.at = clock, NEW n \in Nat, n = Len(alarmSaw),
           NEW r, r = Append(alarmSaw, x)
    PROVE  /\ r \in Seq(Looks) /\ Len(r) = n + 1 /\ r[n + 1] = x
           /\ \A k \in 1..n : r[k] = alarmSaw[k]
           /\ \A i \in 1..(n + 1) : r[i].at \in Nat /\ r[i].at <= clock
           /\ \A i, k \in 1..(n + 1) : i <= k => r[i].at <= r[k].at
           /\ \A i \in 1..n : Episode(r, i)
           /\ \A i \in 1..n, j \in 1..(n + 1) : Lasting(r, i, j)
           /\ StillFired(alarmSaw, n) => StillFired(r, n)
           /\ AllClosed(alarmSaw, n) => AllClosed(r, n)
  <1>1. alarmSaw \in Seq(Looks) /\ clock \in Nat
    BY DEF AlarmInv
  <1>2. /\ Append(alarmSaw, x) \in Seq(Looks)
        /\ Append(alarmSaw, x)[Len(alarmSaw) + 1] = x
        /\ \A i \in DOMAIN alarmSaw : Append(alarmSaw, x)[i] = alarmSaw[i]
    BY <1>1, AppendQueue
  <1>3. DOMAIN alarmSaw = 1..n /\ Len(Append(alarmSaw, x)) = n + 1
    BY <1>1
  <1>4. r \in Seq(Looks) /\ Len(r) = n + 1 /\ r[n + 1] = x /\ \A k \in 1..n : r[k] = alarmSaw[k]
    BY <1>2, <1>3
  <1>5. /\ \A i \in 1..n : Episode(r, i)
        /\ \A i, j \in 1..n : Lasting(r, i, j)
        /\ StillFired(alarmSaw, n) => StillFired(r, n)
        /\ AllClosed(alarmSaw, n) => AllClosed(r, n)
    BY <1>4, LooksStay DEF AlarmInv
  <1>6. \A i \in 1..n : Lasting(r, i, n + 1)
    BY DEF Lasting
  <1>7. \A i \in 1..n, j \in 1..(n + 1) : Lasting(r, i, j)
    <2> TAKE i \in 1..n, j \in 1..(n + 1)
    <2>1. j \in 1..n \/ j = n + 1
      OBVIOUS
    <2> QED BY <1>5, <1>6, <2>1
  <1>8. \A i \in 1..(n + 1) : r[i].at \in Nat /\ r[i].at <= clock
    <2> TAKE i \in 1..(n + 1)
    <2>1. CASE i \in 1..n
      <3>1. alarmSaw[i] \in Looks /\ alarmSaw[i].at <= clock
        BY <1>1, <2>1 DEF AlarmInv
      <3> QED BY <1>4, <2>1, <3>1 DEF Looks
    <2>2. CASE i = n + 1
      BY <1>1, <1>4, <2>2
    <2> QED BY <2>1, <2>2
  <1>9. \A i, k \in 1..(n + 1) : i <= k => r[i].at <= r[k].at
    <2> TAKE i, k \in 1..(n + 1)
    <2> HAVE i <= k
    <2>1. CASE k = n + 1
      BY <1>4, <1>8, <2>1
    <2>2. CASE k \in 1..n
      <3>1. i \in 1..n
        BY <2>2
      <3> QED BY <1>4, <2>2, <3>1 DEF AlarmInv
    <2> QED BY <2>1, <2>2
  <1> QED BY <1>4, <1>5, <1>7, <1>8, <1>9

LEMMA LookInv ==
    ASSUME AlarmInv, NEW x \in Looks, x.at = clock, NEW n \in Nat, n = Len(alarmSaw),
           NEW r, r = Append(alarmSaw, x), alarmSaw' = r, clock' = clock,
           alarm' \in {"idle", "timing", "fired"}, alarmSince' \in Nat,
           Episode(r, n + 1), \A j \in 1..n : Lasting(r, n + 1, j),
           alarm' # "fired" => AllClosed(r, n + 1),
           alarm' = "idle" => ~x.cond,
           alarm' = "timing" => \E s \in 1..(n + 1) : TimedFrom(r, n + 1, alarmSince', s),
           alarm' = "fired" => StillFired(r, n + 1)
    PROVE  AlarmInv'
  <1>1. /\ r \in Seq(Looks) /\ Len(r) = n + 1 /\ r[n + 1] = x
        /\ \A i \in 1..(n + 1) : r[i].at <= clock
        /\ \A i, k \in 1..(n + 1) : i <= k => r[i].at <= r[k].at
        /\ \A i \in 1..n : Episode(r, i)
        /\ \A i \in 1..n, j \in 1..(n + 1) : Lasting(r, i, j)
    BY LookFacts, ZenonT(60)
  <1>2. \A i \in 1..(n + 1) : Episode(r, i)
    <2> TAKE i \in 1..(n + 1)
    <2>1. i \in 1..n \/ i = n + 1
      OBVIOUS
    <2> QED BY <1>1, <2>1
  <1>3. \A i, j \in 1..(n + 1) : Lasting(r, i, j)
    <2> TAKE i, j \in 1..(n + 1)
    <2>1. CASE i \in 1..n
      BY <1>1, <2>1
    <2>2. CASE i = n + 1 /\ j \in 1..n
      BY <2>2
    <2>3. CASE i = n + 1 /\ j = n + 1
      BY <2>3 DEF Lasting
    <2> QED BY <2>1, <2>2, <2>3
  <1>4. clock' \in Nat /\ Len(alarmSaw') = n + 1
    BY <1>1 DEF AlarmInv
  <1>5. alarm' = "idle" => Len(alarmSaw') = 0 \/ ~alarmSaw'[Len(alarmSaw')].cond
    BY <1>1, <1>4
  <1>6. \A i \in 1..Len(alarmSaw') : Episode(alarmSaw', i)
    BY <1>2, <1>4
  <1>7. \A i, j \in 1..Len(alarmSaw') : Lasting(alarmSaw', i, j)
    BY <1>3, <1>4
  <1>8. /\ alarm' # "fired" => AllClosed(alarmSaw', Len(alarmSaw'))
        /\ alarm' = "timing" =>
              \E s \in 1..Len(alarmSaw') : TimedFrom(alarmSaw', Len(alarmSaw'), alarmSince', s)
        /\ alarm' = "fired" => StillFired(alarmSaw', Len(alarmSaw'))
    BY <1>4
  <1>9. /\ \A i, k \in 1..Len(alarmSaw') : i <= k => alarmSaw'[i].at <= alarmSaw'[k].at
        /\ \A i \in 1..Len(alarmSaw') : alarmSaw'[i].at <= clock'
        /\ alarmSaw' \in Seq(Looks)
    BY <1>1, <1>4
  <1> QED BY <1>4, <1>5, <1>6, <1>7, <1>8, <1>9
          DEF AlarmInv, Episode, Lasting, AllClosed, TimedFrom, StillFired

\* A look that does not trigger leaves closed what is closed.
LEMMA ClosedStays ==
    ASSUME NEW r, NEW n \in Nat, AllClosed(r, n), r[n + 1].status # "Triggered"
    PROVE  AllClosed(r, n + 1)
  <1> SUFFICES ASSUME NEW j \in 1..(n + 1), r[j].status = "Triggered"
               PROVE  \E k \in j..(n + 1) : r[k].status \in {"Resolved", "Reset"}
    BY DEF AllClosed
  <1>1. j \in 1..n
    <2>1. j # n + 1
      OBVIOUS
    <2> QED BY <2>1
  <1>2. PICK k \in j..n : r[k].status \in {"Resolved", "Reset"}
    BY <1>1 DEF AllClosed
  <1>3. k \in j..(n + 1)
    OBVIOUS
  <1> QED BY <1>2, <1>3

\* The condition is gone, or the alarm is reset.
LEMMA LookIdle ==
    ASSUME AlarmInv, NEW st \in {"Idle", "Resolved", "Reset"}, st = "Idle" => alarm # "fired",
           alarmSaw' = Append(alarmSaw, [at |-> clock, cond |-> FALSE, status |-> st]),
           clock' = clock, alarm' = "idle", alarmSince' = alarmSince
    PROVE  AlarmInv'
  <1> DEFINE x == [at |-> clock, cond |-> FALSE, status |-> st]
             r == Append(alarmSaw, x)
  <1>1. x \in Looks /\ x.at = clock /\ ~x.cond /\ x.status = st
    BY DEF AlarmInv, Looks
  <1>2. alarmSaw' = r /\ r = Append(alarmSaw, x)
    OBVIOUS
  <1>3. PICK n \in Nat : n = Len(alarmSaw)
    BY DEF AlarmInv
  <1> HIDE DEF x, r
  <1>4. /\ r[n + 1] = x /\ \A k \in 1..n : r[k] = alarmSaw[k]
        /\ AllClosed(alarmSaw, n) => AllClosed(r, n)
    <2>1. r[n + 1] = x
      BY <1>1, <1>2, <1>3, LookFacts
    <2>2. \A k \in 1..n : r[k] = alarmSaw[k]
      BY <1>1, <1>2, <1>3, LookFacts
    <2>3. AllClosed(alarmSaw, n) => AllClosed(r, n)
      BY <1>1, <1>2, <1>3, LookFacts
    <2> QED BY <2>1, <2>2, <2>3
  <1>5. Episode(r, n + 1)
    BY <1>1, <1>4 DEF Episode
  <1>6. \A j \in 1..n : Lasting(r, n + 1, j)
    <2> TAKE j \in 1..n
    <2>1. n + 1 \in j..(n + 1) /\ ~r[n + 1].cond
      BY <1>1, <1>4
    <2> QED BY <2>1 DEF Lasting
  <1>7. AllClosed(r, n + 1)
    <2>1. CASE st = "Idle"
      <3>1. AllClosed(r, n)
        BY <1>3, <1>4, <2>1 DEF AlarmInv
      <3> QED BY <1>1, <1>4, <2>1, <3>1, ClosedStays
    <2>2. CASE st # "Idle"
      <3>1. r[n + 1].status \in {"Resolved", "Reset"}
        BY <1>1, <1>4, <2>2
      <3>2. \A j \in 1..(n + 1) : n + 1 \in j..(n + 1)
        OBVIOUS
      <3> QED BY <3>1, <3>2 DEF AllClosed
    <2> QED BY <2>1, <2>2
  <1>8. alarmSince' \in Nat
    BY DEF AlarmInv
  <1> QED BY <1>1, <1>2, <1>3, <1>5, <1>6, <1>7, <1>8, LookInv

\* The condition is new: the timer starts.
LEMMA LookStarts ==
    ASSUME AlarmInv, alarm = "idle",
           alarmSaw' = Append(alarmSaw, [at |-> clock, cond |-> TRUE, status |-> "Pending"]),
           clock' = clock, alarm' = "timing", alarmSince' = clock
    PROVE  AlarmInv'
  <1> DEFINE x == [at |-> clock, cond |-> TRUE, status |-> "Pending"]
             r == Append(alarmSaw, x)
  <1>1. x \in Looks /\ x.at = clock /\ x.cond /\ x.status = "Pending"
    BY DEF AlarmInv, Looks
  <1>2. alarmSaw' = r /\ r = Append(alarmSaw, x)
    OBVIOUS
  <1>3. PICK n \in Nat : n = Len(alarmSaw)
    BY DEF AlarmInv
  <1> HIDE DEF x, r
  <1>4. /\ r[n + 1] = x /\ \A k \in 1..n : r[k] = alarmSaw[k]
        /\ AllClosed(alarmSaw, n) => AllClosed(r, n)
    <2>1. r[n + 1] = x
      BY <1>1, <1>2, <1>3, LookFacts
    <2>2. \A k \in 1..n : r[k] = alarmSaw[k]
      BY <1>1, <1>2, <1>3, LookFacts
    <2>3. AllClosed(alarmSaw, n) => AllClosed(r, n)
      BY <1>1, <1>2, <1>3, LookFacts
    <2> QED BY <2>1, <2>2, <2>3
  <1>5. n = 0 \/ ~r[n].cond
    <2>1. n = 0 \/ ~alarmSaw[n].cond
      BY <1>3 DEF AlarmInv
    <2>2. n # 0 => n \in 1..n
      OBVIOUS
    <2> QED BY <1>4, <2>1, <2>2
  <1>6. Episode(r, n + 1)
    BY <1>1, <1>4 DEF Episode
  <1>7. \A j \in 1..n : Lasting(r, n + 1, j)
    <2> TAKE j \in 1..n
    <2>1. n \in j..(n + 1) /\ n # 0
      OBVIOUS
    <2> QED BY <1>5, <2>1 DEF Lasting
  <1>8. AllClosed(r, n + 1)
    BY <1>1, <1>3, <1>4, ClosedStays DEF AlarmInv
  <1>9. TimedFrom(r, n + 1, clock, n + 1)
    <2>1. \A k \in (n + 1)..(n + 1) : r[k].cond
      <3>1. \A k \in (n + 1)..(n + 1) : k = n + 1
        OBVIOUS
      <3> QED BY <1>1, <1>4, <3>1
    <2>2. n + 1 = 1 \/ ~r[(n + 1) - 1].cond
      <3>1. (n + 1) - 1 = n
        OBVIOUS
      <3> QED BY <1>5, <3>1
    <2> QED BY <1>1, <1>4, <2>1, <2>2 DEF TimedFrom
  <1>10. alarmSince' \in Nat /\ n + 1 \in 1..(n + 1)
    BY DEF AlarmInv
  <1> QED BY <1>1, <1>2, <1>3, <1>6, <1>7, <1>8, <1>9, <1>10, LookInv

\* The condition is still there: the timer runs on, or the alarm triggers.
LEMMA LookTiming ==
    ASSUME AlarmInv, alarm = "timing", NEW st \in {"Pending", "Triggered"},
           alarmSaw' = Append(alarmSaw, [at |-> clock, cond |-> TRUE, status |-> st]),
           clock' = clock, alarmSince' = alarmSince,
           st = "Pending" => alarm' = "timing" /\ ~(clock - alarmSince >= Debounce),
           st = "Triggered" => alarm' = "fired" /\ clock - alarmSince >= Debounce
    PROVE  AlarmInv'
  <1> DEFINE x == [at |-> clock, cond |-> TRUE, status |-> st]
             r == Append(alarmSaw, x)
  <1>1. x \in Looks /\ x.at = clock /\ x.cond /\ x.status = st
    BY DEF AlarmInv, Looks
  <1>2. alarmSaw' = r /\ r = Append(alarmSaw, x)
    OBVIOUS
  <1>3. PICK n \in Nat : n = Len(alarmSaw)
    BY DEF AlarmInv
  <1> HIDE DEF x, r
  <1>4. /\ r[n + 1] = x /\ \A k \in 1..n : r[k] = alarmSaw[k]
        /\ AllClosed(alarmSaw, n) => AllClosed(r, n)
        /\ \A i \in 1..(n + 1) : r[i].at \in Nat /\ r[i].at <= clock
        /\ \A i, k \in 1..(n + 1) : i <= k => r[i].at <= r[k].at
    <2>1. r[n + 1] = x
      BY <1>1, <1>2, <1>3, LookFacts
    <2>2. \A k \in 1..n : r[k] = alarmSaw[k]
      BY <1>1, <1>2, <1>3, LookFacts
    <2>3. AllClosed(alarmSaw, n) => AllClosed(r, n)
      BY <1>1, <1>2, <1>3, LookFacts
    <2>4. \A i \in 1..(n + 1) : r[i].at \in Nat /\ r[i].at <= clock
      BY <1>1, <1>2, <1>3, LookFacts
    <2>5. \A i, k \in 1..(n + 1) : i <= k => r[i].at <= r[k].at
      BY <1>1, <1>2, <1>3, LookFacts
    <2> QED BY <2>1, <2>2, <2>3, <2>4, <2>5
  <1>5. PICK s \in 1..n : TimedFrom(alarmSaw, n, alarmSince, s)
    BY <1>3 DEF AlarmInv
  <1>6. /\ r[s].at = alarmSince /\ \A k \in s..(n + 1) : r[k].cond
        /\ s = 1 \/ (s - 1 \in 1..n /\ ~r[s - 1].cond)
    <2>1. r[s] = alarmSaw[s] /\ \A k \in s..n : r[k] = alarmSaw[k]
      BY <1>4
    <2>2. \A k \in s..(n + 1) : k \in s..n \/ k = n + 1
      OBVIOUS
    <2>3. s = 1 \/ (s - 1 \in 1..n /\ r[s - 1] = alarmSaw[s - 1])
      BY <1>4
    <2> QED BY <1>1, <1>4, <1>5, <2>1, <2>2, <2>3 DEF TimedFrom
  <1>7. AllClosed(r, n)
    BY <1>3, <1>4 DEF AlarmInv
  <1>8. s \in 1..(n + 1) /\ n + 1 \in 1..(n + 1) /\ s # n + 1
    OBVIOUS
  <1>9. CASE st = "Pending"
    <2>1. Episode(r, n + 1) /\ AllClosed(r, n + 1)
      BY <1>1, <1>4, <1>7, <1>9, ClosedStays DEF Episode
    <2>2. \A j \in 1..n : Lasting(r, n + 1, j)
      <3> SUFFICES ASSUME NEW j \in 1..n, clock - r[j].at >= Debounce,
                          \A k \in j..(n + 1) : r[k].cond
                   PROVE  FALSE
        BY <1>1, <1>4 DEF Lasting
      <3>1. CASE s <= j
        <4>1. s \in 1..(n + 1) /\ j \in 1..(n + 1) /\ clock \in Nat /\ Debounce \in Nat
          BY MonitorConstants DEF AlarmInv
        <4>2. PICK a \in Nat, b \in Nat : a = r[s].at /\ b = r[j].at /\ a <= b
          BY <1>4, <3>1, <4>1
        <4>3. clock - a >= Debounce
          <5>1. PICK c \in Nat, d \in Nat : c = clock /\ d = Debounce
            BY <4>1
          <5>2. c - b >= d
            BY <4>2, <5>1
          <5>3. c - a >= d
            BY <4>2, <5>2, SMTT(30)
          <5> QED BY <5>1, <5>3
        <4>4. clock - alarmSince >= Debounce
          BY <1>6, <4>2, <4>3
        <4> QED BY <1>9, <4>4
      <3>2. CASE ~(s <= j)
        <4>1. s # 1 /\ s - 1 \in j..(n + 1)
          BY <3>2
        <4> QED BY <1>6, <4>1
      <3> QED BY <3>1, <3>2
    <2>3. TimedFrom(r, n + 1, alarmSince, s)
      BY <1>1, <1>4, <1>6, <1>9 DEF TimedFrom
    <2>4. alarm' = "timing" /\ alarmSince' \in Nat
      BY <1>9 DEF AlarmInv
    <2> QED BY <1>1, <1>2, <1>3, <1>8, <2>1, <2>2, <2>3, <2>4, LookInv
  <1>10. CASE st = "Triggered"
    <2>1. StillFired(r, n + 1)
      <3>1. r[n + 1].status = "Triggered"
        BY <1>1, <1>4, <1>10
      <3>2. \A m \in (n + 1)..(n + 1) : m = n + 1
        OBVIOUS
      <3> QED BY <1>8, <3>1, <3>2 DEF StillFired
    <2>2. Episode(r, n + 1)
      <3>1. r[n + 1].at - r[s].at >= Debounce
        BY <1>1, <1>4, <1>6, <1>10
      <3>2. ASSUME NEW j \in 1..((n + 1) - 1), r[j].status = "Triggered"
            PROVE  \E k \in j..(n + 1) : r[k].status \in {"Resolved", "Reset"}
        <4>1. j \in 1..n
          OBVIOUS
        <4>2. PICK k \in j..n : r[k].status \in {"Resolved", "Reset"}
          BY <1>7, <3>2, <4>1 DEF AllClosed
        <4>3. k \in j..(n + 1)
          OBVIOUS
        <4> QED BY <4>2, <4>3
      <3> QED BY <1>6, <1>8, <3>1, <3>2 DEF Episode
    <2>3. \A j \in 1..n : Lasting(r, n + 1, j)
      BY <2>1 DEF Lasting
    <2>4. alarm' = "fired" /\ alarmSince' \in Nat
      BY <1>10 DEF AlarmInv
    <2> QED BY <1>1, <1>2, <1>3, <2>1, <2>2, <2>3, <2>4, LookInv
  <1> QED BY <1>9, <1>10

\* The alarm has fired and the condition stays.
LEMMA LookActive ==
    ASSUME AlarmInv, alarm = "fired",
           alarmSaw' = Append(alarmSaw, [at |-> clock, cond |-> TRUE, status |-> "Active"]),
           clock' = clock, alarm' = "fired", alarmSince' = alarmSince
    PROVE  AlarmInv'
  <1> DEFINE x == [at |-> clock, cond |-> TRUE, status |-> "Active"]
             r == Append(alarmSaw, x)
  <1>1. x \in Looks /\ x.at = clock /\ x.status = "Active"
    BY DEF AlarmInv, Looks
  <1>2. alarmSaw' = r /\ r = Append(alarmSaw, x)
    OBVIOUS
  <1>3. PICK n \in Nat : n = Len(alarmSaw)
    BY DEF AlarmInv
  <1> HIDE DEF x, r
  <1>4. r[n + 1] = x /\ StillFired(r, n)
    <2>1. StillFired(alarmSaw, n)
      BY <1>3 DEF AlarmInv
    <2> QED BY <1>1, <1>2, <1>3, <2>1, LookFacts
  <1>5. StillFired(r, n + 1)
    <2>1. PICK k \in 1..n : /\ r[k].status = "Triggered"
                            /\ \A m \in k..n : r[m].status \notin {"Resolved", "Reset", "Idle"}
      BY <1>4 DEF StillFired
    <2>2. k \in 1..(n + 1) /\ \A m \in k..(n + 1) : m \in k..n \/ m = n + 1
      OBVIOUS
    <2>3. r[n + 1].status \notin {"Resolved", "Reset", "Idle"}
      BY <1>1, <1>4
    <2> QED BY <2>1, <2>2, <2>3 DEF StillFired
  <1>6. Episode(r, n + 1) /\ \A j \in 1..n : Lasting(r, n + 1, j)
    BY <1>1, <1>4, <1>5 DEF Episode, Lasting
  <1>7. alarmSince' \in Nat
    BY DEF AlarmInv
  <1> QED BY <1>1, <1>2, <1>3, <1>5, <1>6, <1>7, LookInv

LEMMA AlarmInitInv == MonInit => AlarmInv
  <1> SUFFICES ASSUME MonInit PROVE AlarmInv
    OBVIOUS
  <1>1. clock = 0 /\ alarm = "idle" /\ alarmSince = 0 /\ alarmSaw = <<>>
    BY DEF MonInit
  <1>2. alarmSaw \in Seq(Looks) /\ Len(alarmSaw) = 0
    <2>1. <<>> \in Seq(Looks) /\ Len(<<>>) = 0
      OBVIOUS
    <2> QED BY <1>1, <2>1
  <1>3. 1..Len(alarmSaw) = {}
    BY <1>2
  <1> QED BY <1>1, <1>2, <1>3 DEF AlarmInv, AllClosed

LEMMA TickAlarm == ASSUME AlarmInv, MonTick PROVE AlarmInv'
  <1>1. /\ clock \in Nat /\ clock' = clock + 1 /\ alarm' = alarm /\ alarmSince' = alarmSince
        /\ alarmSaw' = alarmSaw /\ alarmSaw \in Seq(Looks)
    BY DEF AlarmInv, MonTick, alarmVars
  <1>2. \A i \in 1..Len(alarmSaw) : alarmSaw[i].at <= clock + 1
    <2> TAKE i \in 1..Len(alarmSaw)
    <2>1. alarmSaw[i] \in Looks /\ alarmSaw[i].at <= clock
      BY <1>1 DEF AlarmInv
    <2> QED BY <1>1, <2>1 DEF Looks
  <1>3. clock' \in Nat
    BY <1>1
  <1> QED BY <1>1, <1>2, <1>3 DEF AlarmInv, Episode, Lasting, AllClosed, TimedFrom, StillFired

LEMMA CheckAlarm == ASSUME AlarmInv, NEW c \in BOOLEAN, Check(c) PROVE AlarmInv'
  <1>1. alarm \in {"idle", "timing", "fired"} /\ clock' = clock
    BY DEF AlarmInv, Check
  <1>2. CASE c = FALSE
    <2>1. /\ alarm' = "idle" /\ alarmSince' = alarmSince
          /\ alarmSaw' = Append(alarmSaw, [at |-> clock, cond |-> FALSE, status |-> AlarmStatus(FALSE)])
      BY <1>1, <1>2 DEF Check, WhileTiming, WhileFired
    <2>2. AlarmStatus(FALSE) \in {"Idle", "Resolved"} /\ (AlarmStatus(FALSE) = "Idle" => alarm # "fired")
      BY <1>1 DEF AlarmStatus
    <2> QED BY <1>1, <2>1, <2>2, LookIdle
  <1>3. CASE c = TRUE /\ alarm = "idle"
    <2>1. AlarmStatus(TRUE) = "Pending"
      BY <1>3 DEF AlarmStatus
    <2>2. /\ alarm' = "timing" /\ alarmSince' = clock
          /\ alarmSaw' = Append(alarmSaw, [at |-> clock, cond |-> TRUE, status |-> "Pending"])
      BY <1>3, <2>1 DEF Check
    <2> QED BY <1>1, <1>3, <2>2, LookStarts
  <1>4. CASE c = TRUE /\ alarm = "timing" /\ clock - alarmSince >= Debounce
    <2>1. AlarmStatus(TRUE) = "Triggered"
      BY <1>4 DEF AlarmStatus, WhileTiming
    <2>2. /\ alarm' = "fired" /\ alarmSince' = alarmSince
          /\ alarmSaw' = Append(alarmSaw, [at |-> clock, cond |-> TRUE, status |-> "Triggered"])
      BY <1>4, <2>1 DEF Check, WhileTiming
    <2> QED BY <1>1, <1>4, <2>2, LookTiming
  <1>5. CASE c = TRUE /\ alarm = "timing" /\ ~(clock - alarmSince >= Debounce)
    <2>1. AlarmStatus(TRUE) = "Pending"
      BY <1>5 DEF AlarmStatus, WhileTiming
    <2>2. /\ alarm' = "timing" /\ alarmSince' = alarmSince
          /\ alarmSaw' = Append(alarmSaw, [at |-> clock, cond |-> TRUE, status |-> "Pending"])
      BY <1>5, <2>1 DEF Check, WhileTiming
    <2> QED BY <1>1, <1>5, <2>2, LookTiming
  <1>6. CASE c = TRUE /\ alarm = "fired"
    <2>1. AlarmStatus(TRUE) = "Active"
      BY <1>6 DEF AlarmStatus
    <2>2. /\ alarm' = "fired" /\ alarmSince' = alarmSince
          /\ alarmSaw' = Append(alarmSaw, [at |-> clock, cond |-> TRUE, status |-> "Active"])
      BY <1>6, <2>1 DEF Check, WhileFired
    <2> QED BY <1>1, <1>6, <2>2, LookActive
  <1> QED BY <1>1, <1>2, <1>3, <1>4, <1>5, <1>6

LEMMA ResetAlarmInv == ASSUME AlarmInv, ResetAlarm PROVE AlarmInv'
  <1>1. /\ alarm' = "idle" /\ clock' = clock /\ alarmSince' = alarmSince
        /\ alarmSaw' = Append(alarmSaw, [at |-> clock, cond |-> FALSE, status |-> "Reset"])
    BY DEF ResetAlarm
  <1> QED BY <1>1, LookIdle

\* Estimator and alarm say what happened in their window, whatever samples are
\* pruned or pushed out, whenever anyone looks, and for a window, a queue and a
\* debounce of any size (hashrate_estimator.rs:125, debounced_alarm.rs:106).
THEOREM MonitorsStayExact == MonSpec => []MonitorsExact
  <1>1. MonInit => EstInv /\ AlarmInv
    BY EstInitInv, AlarmInitInv
  <1>2. EstInv /\ AlarmInv /\ [EstNext \/ AlarmNext]_monVars => (EstInv /\ AlarmInv)'
    <2> SUFFICES ASSUME EstInv, AlarmInv, [EstNext \/ AlarmNext]_monVars PROVE EstInv' /\ AlarmInv'
      OBVIOUS
    <2>1. ASSUME UNCHANGED estVars, clock' = clock PROVE EstInv'
      BY <2>1 DEF estVars, EstInv, InOrder, Tracks
    <2>2. ASSUME UNCHANGED alarmVars, clock' = clock PROVE AlarmInv'
      BY <2>2 DEF alarmVars, AlarmInv, Episode, Lasting, AllClosed, TimedFrom, StillFired
    <2>3. CASE MonTick
      BY <2>3, TickEst, TickAlarm
    <2>4. ASSUME NEW w \in Works, Record(w) PROVE EstInv' /\ AlarmInv'
      <3>1. UNCHANGED alarmVars /\ clock' = clock
        BY <2>4 DEF Record, alarmVars
      <3> QED BY <2>2, <2>4, <3>1, RecordEst
    <2>5. CASE AskHashrate
      <3>1. UNCHANGED alarmVars /\ clock' = clock
        BY <2>5 DEF AskHashrate, alarmVars
      <3> QED BY <2>2, <2>5, <3>1, AskEst
    <2>6. ASSUME NEW c \in BOOLEAN, Check(c) PROVE EstInv' /\ AlarmInv'
      <3>1. UNCHANGED estVars /\ clock' = clock
        BY <2>6 DEF Check, estVars
      <3> QED BY <2>1, <2>6, <3>1, CheckAlarm
    <2>7. CASE ResetAlarm
      <3>1. UNCHANGED estVars /\ clock' = clock
        BY <2>7 DEF ResetAlarm, estVars
      <3> QED BY <2>1, <2>7, <3>1, ResetAlarmInv
    <2>8. CASE UNCHANGED monVars
      <3>1. UNCHANGED estVars /\ UNCHANGED alarmVars /\ clock' = clock
        BY <2>8 DEF monVars
      <3> QED BY <2>1, <2>2, <3>1
    <2> QED BY <2>3, <2>4, <2>5, <2>6, <2>7, <2>8 DEF EstNext, AlarmNext
  <1>3. EstInv /\ AlarmInv => MonitorsExact
    <2> SUFFICES ASSUME EstInv, AlarmInv PROVE MonitorsExact
      OBVIOUS
    <2>1. EstimateIsOfWindow
      BY EstimateRight
    <2>2. DOMAIN alarmSaw = 1..Len(alarmSaw)
      BY DEF AlarmInv
    <2>3. TriggersOncePerEpisode
      <3>1. \A i \in DOMAIN alarmSaw : Episode(alarmSaw, i)
        BY <2>2 DEF AlarmInv
      <3> QED BY <3>1 DEF Episode, TriggersOncePerEpisode
    <2>4. LongConditionsTrigger
      <3>1. \A i, j \in DOMAIN alarmSaw : Lasting(alarmSaw, i, j)
        BY <2>2 DEF AlarmInv
      <3> QED BY <3>1 DEF Lasting, StillFired, LongConditionsTrigger
    <2> QED BY <2>1, <2>3, <2>4 DEF MonitorsExact
  <1> QED BY <1>1, <1>2, <1>3, PTL DEF MonSpec

-----------------------------------------------------------------------------
(* The decoder of the chips' responses.                                    *)

Cells == [n : Nat, at : 1..FrameLen, kind : {"frame", "crc", "unknown", "noise"}]

FrameCell(z, i) == z[i].kind = "frame"

\* A good frame is there with all its bytes or not at all.
WholeFrames(z) ==
    \A i \in DOMAIN z : FrameCell(z, i) =>
        \A k \in 1..FrameLen :
            /\ i - z[i].at + k \in DOMAIN z
            /\ z[i - z[i].at + k] = [n |-> z[i].n, at |-> k, kind |-> "frame"]

\* The good frames and their bytes are in order.
FramesOrdered(z) ==
    \A i, k \in DOMAIN z : (i < k /\ FrameCell(z, i) /\ FrameCell(z, k)) =>
        z[i].n < z[k].n \/ (z[i].n = z[k].n /\ z[i].at < z[k].at)

\* The number of a good frame is on none but its bytes.
FramesNumbered(z) ==
    \A i \in DOMAIN z : FrameCell(z, i) =>
        z[i].n # 0 /\ \A k \in DOMAIN z : z[k].n = z[i].n => FrameCell(z, k)

WellSent(z) == z \in Seq(Cells) /\ WholeFrames(z) /\ FramesOrdered(z) /\ FramesNumbered(z)

FrameLenIs == FrameLen \in Nat /\ FrameLen > 2

LEMMA FrameLenFacts == FrameLenIs /\ Segments \in Nat
  BY ChipProtocolConstants DEF FrameLenIs

\* The bytes of two streams, one after the other.
LEMMA Concatenated ==
    ASSUME NEW S, NEW q \in Seq(S), NEW r \in Seq(S)
    PROVE  /\ q \o r \in Seq(S) /\ Len(q) \in Nat /\ Len(r) \in Nat
           /\ Len(q \o r) = Len(q) + Len(r) /\ DOMAIN (q \o r) = 1..(Len(q) + Len(r))
           /\ \A i \in 1..Len(q) : (q \o r)[i] = q[i]
           /\ \A i \in 1..Len(r) : (q \o r)[Len(q) + i] = r[i]
  <1>1. q \o r \in Seq(S) /\ Len(q) \in Nat /\ Len(r) \in Nat
        /\ Len(q \o r) = Len(q) + Len(r)
    OBVIOUS
  <1>2. DOMAIN (q \o r) = 1..(Len(q) + Len(r))
    BY <1>1
  <1>3. \A i \in 1..Len(q) : (q \o r)[i] = q[i]
    OBVIOUS
  <1>4. \A i \in 1..Len(r) : (q \o r)[Len(q) + i] = r[i]
    OBVIOUS
  <1> QED BY <1>1, <1>2, <1>3, <1>4

\* What the chips send next leaves the stream well sent.
LEMMA SegmentSent ==
    ASSUME NEW z, WellSent(z), NEW j \in Nat \ {0},
           \A i \in DOMAIN z : z[i].n < j,
           NEW kind \in {"frame", "crc", "unknown", "noise"}
    PROVE  /\ WellSent(z \o Segment(j, kind))
           /\ \A i \in DOMAIN (z \o Segment(j, kind)) : (z \o Segment(j, kind))[i].n < j + 1
  <1> DEFINE s == Segment(j, kind)
             w == z \o s
  <1>1. /\ s \in Seq(Cells)
        /\ \A a \in DOMAIN s : /\ s[a].n = (IF kind = "noise" THEN 0 ELSE j) /\ s[a].kind = kind
                               /\ kind # "noise" => s[a].at = a /\ Len(s) = FrameLen
    <2>1. CASE kind = "noise"
      <3>1. s = <<[n |-> 0, at |-> 1, kind |-> kind]>>
        BY <2>1 DEF Segment
      <3>2. [n |-> 0, at |-> 1, kind |-> kind] \in Cells
        BY FrameLenFacts DEF Cells, FrameLenIs
      <3>3. PICK c \in Cells : c = [n |-> 0, at |-> 1, kind |-> kind]
        BY <3>2
      <3>4. s = <<c>> /\ c.n = 0 /\ c.kind = kind
        BY <3>1, <3>3
      <3>5. s \in Seq(Cells) /\ DOMAIN s = {1} /\ s[1] = c
        BY <3>4
      <3> HIDE DEF s
      <3> QED BY <2>1, <3>4, <3>5
    <2>2. CASE kind # "noise"
      <3>1. s = [i \in 1..FrameLen |-> [n |-> j, at |-> i, kind |-> kind]]
        BY <2>2 DEF Segment
      <3>2. \A i \in 1..FrameLen : [n |-> j, at |-> i, kind |-> kind] \in Cells
        BY FrameLenFacts DEF Cells, FrameLenIs
      <3>3. s \in Seq(Cells) /\ Len(s) = FrameLen /\ DOMAIN s = 1..FrameLen
        BY <3>1, <3>2, FrameLenFacts DEF FrameLenIs
      <3> HIDE DEF s
      <3> QED BY <2>2, <3>1, <3>3
    <2> QED BY <2>1, <2>2
  <1> HIDE DEF s
  <1>2. z \in Seq(Cells)
    BY DEF WellSent
  <1>3. PICK m \in Nat : m = Len(z)
    BY <1>2
  <1>4. PICK l \in Nat : l = Len(s)
    BY <1>1
  <1>5. /\ w \in Seq(Cells) /\ DOMAIN w = 1..(m + l)
        /\ DOMAIN z = 1..m /\ DOMAIN s = 1..l
        /\ \A i \in 1..m : w[i] = z[i]
        /\ \A i \in 1..l : w[m + i] = s[i]
    <2>1. DOMAIN z = 1..m /\ DOMAIN s = 1..l
      BY <1>1, <1>2, <1>3, <1>4
    <2> QED BY <1>1, <1>2, <1>3, <1>4, <2>1, Concatenated
  <1> HIDE DEF w
  <1>6. \A i \in 1..(m + l) : i \notin 1..m => \E a \in 1..l : i = m + a /\ w[i] = s[a]
    <2> TAKE i \in 1..(m + l)
    <2> HAVE i \notin 1..m
    <2>1. PICK a \in 1..l : i = m + a
      <3>1. i - m \in 1..l /\ i = m + (i - m)
        OBVIOUS
      <3> QED BY <3>1
    <2> QED BY <1>5, <2>1
  <1>7. /\ \A i \in 1..(m + l) : w[i] \in Cells
        /\ \A i \in 1..(m + l) : i \notin 1..m => w[i].n \in {0, j}
    <2>1. \A a \in 1..l : s[a].n \in {0, j}
      BY <1>1, <1>5
    <2> QED BY <1>5, <1>6, <2>1
  \* Bytes of good frames are old, or those of this one.
  <1>8. \A i \in 1..(m + l) : FrameCell(w, i) =>
            \/ i \in 1..m /\ FrameCell(z, i) /\ w[i] = z[i] /\ z[i].n < j /\ z[i].n # 0
            \/ \E a \in 1..l : /\ i = m + a /\ w[i] = s[a] /\ kind = "frame" /\ l = FrameLen
                               /\ w[i].n = j /\ w[i].at = a
    <2> TAKE i \in 1..(m + l)
    <2> HAVE FrameCell(w, i)
    <2>1. CASE i \in 1..m
      BY <2>1, <1>5 DEF WellSent, FramesNumbered, FrameCell
    <2>2. CASE i \notin 1..m
      <3>1. PICK a \in 1..l : i = m + a /\ w[i] = s[a]
        BY <2>2, <1>6
      <3>2. kind = "frame"
        BY <3>1, <1>1, <1>5 DEF FrameCell
      <3> QED BY <3>1, <3>2, <1>1, <1>4, <1>5, SMTT(30)
    <2> QED BY <2>1, <2>2
  <1>9. \A i \in 1..(m + l) : w[i].n < j + 1
    <2> TAKE i \in 1..(m + l)
    <2>1. CASE i \in 1..m
      <3>1. z[i].n < j /\ w[i] = z[i] /\ w[i].n \in Nat
        BY <2>1, <1>5, <1>7 DEF Cells
      <3> QED BY <3>1
    <2>2. CASE i \notin 1..m
      <3>1. w[i].n \in {0, j}
        BY <2>2, <1>7
      <3> QED BY <3>1
    <2> QED BY <2>1, <2>2
  <1>10. WholeFrames(w)
    <2> SUFFICES ASSUME NEW i \in 1..(m + l), FrameCell(w, i), NEW k \in 1..FrameLen
                 PROVE  /\ i - w[i].at + k \in 1..(m + l)
                        /\ w[i - w[i].at + k] = [n |-> w[i].n, at |-> k, kind |-> "frame"]
      BY <1>5 DEF WholeFrames
    <2>1. CASE i \in 1..m /\ FrameCell(z, i) /\ w[i] = z[i]
      <3>1. i - z[i].at + k \in 1..m
            /\ z[i - z[i].at + k] = [n |-> z[i].n, at |-> k, kind |-> "frame"]
        BY <2>1, <1>5 DEF WellSent, WholeFrames
      <3>2. PICK x \in 1..m : x = i - z[i].at + k
        BY <3>1
      <3> QED BY <2>1, <3>1, <3>2, <1>5
    <2>2. ASSUME NEW a \in 1..l, i = m + a, w[i] = s[a], kind = "frame", l = FrameLen,
                 w[i].n = j, w[i].at = a
          PROVE  /\ i - w[i].at + k \in 1..(m + l)
                 /\ w[i - w[i].at + k] = [n |-> w[i].n, at |-> k, kind |-> "frame"]
      <3>1. i - w[i].at + k = m + k /\ m + k \in 1..(m + l) /\ k \in 1..l
        BY <2>2, FrameLenFacts DEF FrameLenIs
      <3>2. w[m + k] = s[k]
        BY <3>1, <1>5
      <3>3. s[k] = [n |-> j, at |-> k, kind |-> "frame"]
        BY <2>2, FrameLenFacts DEF s, Segment, FrameLenIs
      <3> QED BY <2>2, <3>1, <3>2, <3>3
    <2> QED BY <1>8, <2>1, <2>2
  <1>11. FramesOrdered(w)
    <2> SUFFICES ASSUME NEW i \in 1..(m + l), NEW k \in 1..(m + l),
                        i < k, FrameCell(w, i), FrameCell(w, k)
                 PROVE  w[i].n < w[k].n \/ (w[i].n = w[k].n /\ w[i].at < w[k].at)
      BY <1>5 DEF FramesOrdered
    <2>1. CASE k \in 1..m
      <3>1. i \in 1..m
        BY <2>1
      <3>2. w[i] = z[i] /\ w[k] = z[k]
        BY <2>1, <3>1, <1>5
      <3>3. FrameCell(z, i) /\ FrameCell(z, k) /\ i \in DOMAIN z /\ k \in DOMAIN z
        BY <2>1, <3>1, <3>2, <1>5 DEF FrameCell
      <3>4. FramesOrdered(z)
        BY DEF WellSent
      <3>5. z[i].n < z[k].n \/ (z[i].n = z[k].n /\ z[i].at < z[k].at)
        BY <3>3, <3>4 DEF FramesOrdered
      <3> QED BY <3>2, <3>5
    <2>2. CASE k \notin 1..m
      <3>1. PICK b \in 1..l : k = m + b /\ w[k].n = j /\ w[k].at = b
        BY <2>2, <1>8
      <3>2. CASE i \in 1..m
        BY <3>1, <3>2, <1>8
      <3>3. CASE i \notin 1..m
        <4>1. PICK a \in 1..l : i = m + a /\ w[i].n = j /\ w[i].at = a
          BY <3>3, <1>8
        <4> QED BY <3>1, <4>1
      <3> QED BY <3>2, <3>3
    <2> QED BY <2>1, <2>2
  <1>12. FramesNumbered(w)
    <2> SUFFICES ASSUME NEW i \in 1..(m + l), FrameCell(w, i)
                 PROVE  w[i].n # 0 /\ \A k \in 1..(m + l) : w[k].n = w[i].n => FrameCell(w, k)
      BY <1>5 DEF FramesNumbered
    <2>1. w[i].n # 0
      BY <1>8
    <2>2. ASSUME NEW k \in 1..(m + l), w[k].n = w[i].n PROVE FrameCell(w, k)
      <3>1. CASE i \in 1..m
        <4>1. w[i] = z[i] /\ FrameCell(z, i) /\ z[i].n < j /\ z[i].n # 0
          BY <3>1, <1>8
        <4>2. k \in 1..m
          <5>1. SUFFICES ASSUME k \notin 1..m PROVE FALSE
            OBVIOUS
          <5>2. w[k].n \in {0, j}
            BY <5>1, <1>7
          <5>3. z[i].n \in Nat
            BY <3>1, <4>1, <1>7 DEF Cells
          <5> QED BY <2>2, <4>1, <5>2, <5>3
        <4>3. w[k] = z[k] /\ z[k].n = z[i].n
          BY <4>1, <4>2, <2>2, <1>5
        <4>4. FrameCell(z, k)
          BY <3>1, <4>1, <4>2, <4>3, <1>5 DEF WellSent, FramesNumbered
        <4> QED BY <4>3, <4>4 DEF FrameCell
      <3>2. CASE i \notin 1..m
        <4>1. w[i].n = j /\ kind = "frame"
          BY <3>2, <1>8
        <4>2. k \notin 1..m
          <5>1. SUFFICES ASSUME k \in 1..m PROVE FALSE
            OBVIOUS
          <5>2. z[k].n < j /\ w[k] = z[k] /\ w[k].n \in Nat
            BY <5>1, <1>5, <1>7 DEF Cells
          <5> QED BY <2>2, <4>1, <5>2
        <4>3. PICK a \in 1..l : w[k] = s[a]
          BY <4>2, <1>6
        <4> QED BY <4>1, <4>3, <1>1, <1>5 DEF FrameCell
      <3> QED BY <3>1, <3>2
    <2> QED BY <2>1, <2>2
  <1> QED BY <1>5, <1>9, <1>10, <1>11, <1>12 DEF WellSent, w, s

\* A sequence of sequences is flattened from the left.
LEMMA FlattenSteps ==
    ASSUME NEW S, NEW q \in Seq(Seq(S)), NEW last \in Nat \ {0}, last = Len(q)
    PROVE  \E g : /\ FlattenSeq(q) = g[last] /\ g[1] = q[1]
                  /\ \A i \in 1..last : i # 1 => g[i] = g[i - 1] \o q[i]
  <1> DEFINE Flat(g, n) == /\ g = [i \in 1..n |-> g[i]] /\ g[1] = q[1]
                           /\ \A i \in 1..n : i # 1 => g[i] = g[i - 1] \o q[i]
             Body(g) == [i \in 1..last |-> IF i = 1 THEN q[i] ELSE g[i - 1] \o q[i]]
             bad == {n \in 1..last : ~\E g : Flat(g, n)}
             s == CHOOSE g : g = Body(g)
  <1>1. FlattenSeq(q) = s[last]
    <2>1. FlattenSeq(q) =
              (CHOOSE g : g = [i \in 1..Len(q) |-> IF i = 1 THEN q[i] ELSE g[i - 1] \o q[i]])[Len(q)]
      <3>1. Len(q) # 0
        OBVIOUS
      <3> QED BY <3>1, Zenon DEF FlattenSeq
    <2>2. Len(q) = last
      OBVIOUS
    <2> QED BY <2>1, <2>2, Zenon
  <1> HIDE DEF s
  <1>2. bad = {}
    <2>1. SUFFICES ASSUME bad # {} PROVE FALSE
      OBVIOUS
    <2>2. bad \subseteq Nat
      <3>1. 1..last \subseteq Nat /\ bad \subseteq 1..last
        <4> HIDE DEF Flat
        <4> QED OBVIOUS
      <3> QED BY <3>1
    <2>3. PICK n \in bad : \A k \in bad : n <= k
      BY <2>1, <2>2, NatMin
    <2>4. n \in 1..last /\ ~\E g : Flat(g, n)
      BY <2>3
    <2>5. CASE n = 1
      <3> DEFINE g == [k \in 1..1 |-> q[1]]
      <3>1. g[1] = q[1] /\ \A i \in 1..1 : i = 1
        OBVIOUS
      <3>2. \A i \in 1..1 : g[i] = q[1]
        OBVIOUS
      <3>3. g = [i \in 1..1 |-> g[i]]
        BY <3>2, Zenon
      <3> HIDE DEF g
      <3>4. Flat(g, n)
        BY <2>5, <3>1, <3>3
      <3>5. \E x : Flat(x, n)
        <4> HIDE DEF Flat
        <4> QED BY <3>4, Zenon
      <3> QED BY <2>4, <3>5
    <2>6. CASE n # 1
      <3>0. n \in 1..last
        BY <2>4
      <3>1. PICK m \in Nat : n = m + 1 /\ m \in 1..last /\ ~(n <= m)
        <4> HIDE DEF Flat, bad
        <4> QED BY <3>0, <2>6
      <3>2. m \notin bad
        BY <2>3, <3>1
      <3>3. PICK f : Flat(f, m)
        BY <3>1, <3>2
      <3> DEFINE g == [k \in 1..n |-> IF k = n THEN f[m] \o q[n] ELSE f[k]]
      <3>4. g[1] = q[1] /\ g = [k \in 1..n |-> g[k]]
        BY <2>6, <3>1, <3>3
      <3>5. \A k \in 1..n : k # 1 => g[k] = g[k - 1] \o q[k]
        <4> TAKE k \in 1..n
        <4> HAVE k # 1
        <4>1. CASE k = n
          <5>1. k - 1 = m /\ m \in 1..n /\ m # n
            BY <3>1, <4>1
          <5> QED BY <4>1, <5>1
        <4>2. CASE k # n
          <5>1. k \in 1..m /\ k - 1 \in 1..n /\ k - 1 # n
            BY <3>1, <4>2, SMTT(30)
          <5>2. g[k] = f[k] /\ g[k - 1] = f[k - 1]
            BY <4>2, <5>1
          <5> QED BY <3>3, <5>1, <5>2
        <4> QED BY <4>1, <4>2
      <3>6. Flat(g, n)
        BY <3>4, <3>5
      <3> QED BY <2>4, <3>6
    <2> QED BY <2>5, <2>6
  <1>3. PICK f : Flat(f, last)
    <2>1. last \in 1..last
      OBVIOUS
    <2>2. last \notin {n \in 1..last : ~\E g : Flat(g, n)}
      BY <1>2
    <2> HIDE DEF Flat
    <2> QED BY <2>1, <2>2
  <1>4. f = Body(f)
    <2>1. \A n \in 1..last : f[n] = IF n = 1 THEN q[n] ELSE f[n - 1] \o q[n]
      <3> TAKE n \in 1..last
      <3>1. f[1] = q[1] /\ (n # 1 => f[n] = f[n - 1] \o q[n])
        BY <1>3
      <3> QED BY <3>1
    <2>2. f = [n \in 1..last |-> f[n]]
      BY <1>3
    <2> QED BY <2>1, <2>2, Zenon
  <1> HIDE DEF Flat, bad, Body
  <1>5. s = Body(s)
    BY <1>4 DEF s
  <1>6. s[1] = q[1] /\ \A i \in 1..last : i # 1 => s[i] = s[i - 1] \o q[i]
    <2> DEFINE h == Body(s)
    <2>1. h[1] = q[1] /\ \A i \in 1..last : i # 1 => h[i] = s[i - 1] \o q[i]
      <3>1. 1 \in 1..last
        OBVIOUS
      <3>2. \A i \in 1..last : h[i] = IF i = 1 THEN q[i] ELSE s[i - 1] \o q[i]
        BY Zenon DEF Body
      <3> HIDE DEF h
      <3> QED BY <3>1, <3>2
    <2>2. s = h
      BY <1>5
    <2> HIDE DEF h
    <2> QED BY <2>1, <2>2
  <1> QED BY <1>1, <1>6

\* Nothing at all is well sent.
LEMMA EmptySent == WellSent(<<>>)
  BY DEF WellSent, WholeFrames, FramesOrdered, FramesNumbered

\* A stream the chips may send is well sent.
LEMMA StreamsSent ==
    ASSUME NEW z \in Streams
    PROVE  WellSent(z)
  <1>0. PICK n \in 0..Segments :
           z \in {FlattenSeq([i \in 1..n |-> Segment(i, f[i])]) :
                    f \in [1..n -> {"frame", "crc", "unknown", "noise"}]}
    BY DEF Streams
  <1>1. PICK f \in [1..n -> {"frame", "crc", "unknown", "noise"}] :
           z = FlattenSeq([i \in 1..n |-> Segment(i, f[i])])
    BY <1>0
  <1> DEFINE q == [i \in 1..n |-> Segment(i, f[i])]
  <1>2. n \in Nat
    BY FrameLenFacts
  <1>3. \A i \in 1..n : Segment(i, f[i]) \in Seq(Cells)
    <2> TAKE i \in 1..n
    <2>1. i \in Nat \ {0} /\ f[i] \in {"frame", "crc", "unknown", "noise"}
      BY <1>2
    <2>2. \A a \in 1..FrameLen : [n |-> i, at |-> a, kind |-> f[i]] \in Cells
      BY <2>1 DEF Cells
    <2>3. [n |-> 0, at |-> 1, kind |-> f[i]] \in Cells
      BY <2>1, FrameLenFacts DEF Cells, FrameLenIs
    <2>4. FrameLen \in Nat
      BY FrameLenFacts DEF FrameLenIs
    <2>5. CASE f[i] = "noise"
      <3>1. PICK c \in Cells : c = [n |-> 0, at |-> 1, kind |-> f[i]]
        BY <2>3
      <3>2. Segment(i, f[i]) = <<c>>
        BY <2>5, <3>1 DEF Segment
      <3> QED BY <3>2
    <2>6. CASE f[i] # "noise"
      <3>1. Segment(i, f[i]) = [a \in 1..FrameLen |-> [n |-> i, at |-> a, kind |-> f[i]]]
        BY <2>6 DEF Segment
      <3> QED BY <2>2, <2>4, <3>1
    <2> QED BY <2>5, <2>6
  <1>4. q \in Seq(Seq(Cells)) /\ Len(q) = n
    BY <1>2, <1>3
  <1>7. z = FlattenSeq(q)
    BY <1>1
  <1> HIDE DEF q
  <1>5. CASE n = 0
    <2>1. z = q
      BY <1>7, <1>4, <1>5, Zenon DEF FlattenSeq
    <2>2. q = <<>>
      BY <1>4, <1>5, EmptySeq
    <2> QED BY <2>1, <2>2, EmptySent
  <1>6. CASE n # 0
    <2>1. PICK g : /\ FlattenSeq(q) = g[n] /\ g[1] = q[1]
                   /\ \A i \in 1..n : i # 1 => g[i] = g[i - 1] \o q[i]
      <3>1. n \in Nat \ {0} /\ n = Len(q)
        BY <1>2, <1>4, <1>6
      <3> QED BY <1>4, <3>1, FlattenSteps, Zenon
    <2> DEFINE Fine(j) == WellSent(g[j]) /\ \A i \in DOMAIN g[j] : g[j][i].n < j + 1
               bad == {j \in 1..n : ~Fine(j)}
    <2>2. \A j \in 1..n : q[j] = Segment(j, f[j]) /\ f[j] \in {"frame", "crc", "unknown", "noise"}
      BY DEF q
    <2>3. bad = {}
      <3>1. SUFFICES ASSUME bad # {} PROVE FALSE
        OBVIOUS
      <3>2. bad \subseteq Nat
        OBVIOUS
      <3>3. PICK j \in bad : \A k \in bad : j <= k
        BY <3>1, <3>2, NatMin
      <3>4. j \in 1..n /\ ~Fine(j)
        BY <3>3
      <3>5. CASE j = 1
        <4>1. g[1] = q[1] /\ q[1] = Segment(1, f[1]) /\ f[1] \in {"frame", "crc", "unknown", "noise"}
              /\ Segment(1, f[1]) \in Seq(Cells)
          BY <2>1, <2>2, <3>4, <3>5, <1>3
        <4>2. <<>> \o Segment(1, f[1]) = Segment(1, f[1])
          BY <4>1, ConcatEmptySeq
        <4>3. \A i \in DOMAIN <<>> : <<>>[i].n < 1
          <5>1. DOMAIN <<>> = {}
            OBVIOUS
          <5> QED BY <5>1, Zenon
        <4>4. /\ WellSent(<<>> \o Segment(1, f[1]))
              /\ \A i \in DOMAIN (<<>> \o Segment(1, f[1])) : (<<>> \o Segment(1, f[1]))[i].n < 1 + 1
          <5>1. 1 \in Nat \ {0}
            OBVIOUS
          <5> QED BY <4>1, <4>3, <5>1, EmptySent, SegmentSent, Zenon
        <4> QED BY <3>4, <3>5, <4>1, <4>2, <4>4
      <3>6. CASE j # 1
        <4>1. PICK m \in Nat : j = m + 1 /\ m \in 1..n /\ ~(j <= m) /\ j - 1 = m /\ j \in Nat \ {0}
          BY <3>4, <3>6
        <4>2. Fine(m)
          BY <3>3, <4>1
        <4>3. g[j] = g[m] \o Segment(j, f[j]) /\ f[j] \in {"frame", "crc", "unknown", "noise"}
          BY <2>1, <2>2, <3>4, <3>6, <4>1
        <4>4. /\ WellSent(g[m] \o Segment(j, f[j]))
              /\ \A i \in DOMAIN (g[m] \o Segment(j, f[j])) : (g[m] \o Segment(j, f[j]))[i].n < j + 1
          <5>1. WellSent(g[m]) /\ \A i \in DOMAIN g[m] : g[m][i].n < j
            BY <4>1, <4>2
          <5> HIDE DEF Fine
          <5> QED BY <4>1, <4>3, <5>1, SegmentSent
        <4> QED BY <3>4, <4>3, <4>4
      <3> QED BY <3>5, <3>6
    <2>4. n \in 1..n
      BY <1>2, <1>6
    <2>5. Fine(n)
      BY <2>3, <2>4
    <2>6. z = g[n]
      BY <1>7, <2>1
    <2> QED BY <2>5, <2>6
  <1> QED BY <1>5, <1>6

\* Without its front, which is one good frame or has no byte of any, a stream
\* is still well sent.
LEMMA FrontDropped ==
    ASSUME NEW z, WellSent(z), NEW m \in Nat, NEW w \in Seq(Cells), m <= Len(z),
           Len(w) = Len(z) - m, \A i \in 1..Len(w) : w[i] = z[i + m],
           \A i \in 1..m : FrameCell(z, i) => z[i].at = i /\ m = FrameLen
    PROVE  /\ WellSent(w)
           /\ DOMAIN w = 1..Len(w) /\ DOMAIN z = 1..Len(z) /\ Len(z) \in Nat /\ Len(w) \in Nat
           /\ \A i \in DOMAIN w : i + m \in DOMAIN z /\ i + m \notin 1..m /\ w[i] = z[i + m]
           /\ \A i \in DOMAIN z : i \notin 1..m => i - m \in DOMAIN w /\ w[i - m] = z[i]
  <1>1. z \in Seq(Cells) /\ WholeFrames(z) /\ FramesOrdered(z) /\ FramesNumbered(z)
    BY DEF WellSent
  <1>2. PICK c \in Nat : c = Len(z)
    BY <1>1
  <1>3. PICK l \in Nat : l = Len(w)
    BY LenProperties, Zenon
  <1>4. l + m = c /\ DOMAIN z = 1..c /\ DOMAIN w = 1..l
    BY <1>1, <1>2, <1>3
  <1>5. \A i \in 1..l : i + m \in 1..c /\ i + m \notin 1..m /\ w[i] = z[i + m]
    BY <1>3, <1>4
  <1>6. \A i \in 1..c : i \notin 1..m => i - m \in 1..l /\ w[i - m] = z[i]
    <2> TAKE i \in 1..c
    <2> HAVE i \notin 1..m
    <2>1. i - m \in 1..l /\ (i - m) + m = i
      BY <1>4
    <2> QED BY <2>1, <1>5
  <1>7. \A i \in 1..l : FrameCell(w, i) <=> FrameCell(z, i + m)
    BY <1>5 DEF FrameCell
  <1>8. \A i \in 1..c : z[i].at \in 1..FrameLen
    <2>1. \A i \in 1..c : z[i] \in Cells
      BY <1>1, <1>4
    <2> QED BY <2>1 DEF Cells
  <1>9. WholeFrames(w)
    <2> SUFFICES ASSUME NEW i \in 1..l, FrameCell(w, i), NEW k \in 1..FrameLen
                 PROVE  /\ i - w[i].at + k \in 1..l
                        /\ w[i - w[i].at + k] = [n |-> w[i].n, at |-> k, kind |-> "frame"]
      BY <1>4 DEF WholeFrames
    <2>1. PICK x \in 1..c : x = i + m /\ x \notin 1..m /\ w[i] = z[x] /\ FrameCell(z, x)
      BY <1>5, <1>7
    <2>2. PICK a \in 1..FrameLen : a = z[x].at
      BY <1>8
    <2>3. \A h \in 1..FrameLen : /\ x - a + h \in 1..c
                                 /\ z[x - a + h] = [n |-> z[x].n, at |-> h, kind |-> "frame"]
      BY <1>1, <1>4, <2>1, <2>2 DEF WholeFrames
    <2>4. FrameLen \in Nat /\ FrameLen > 2
      BY FrameLenFacts DEF FrameLenIs
    <2>5. x - a + 1 \notin 1..m
      <3>1. SUFFICES ASSUME x - a + 1 \in 1..m PROVE FALSE
        OBVIOUS
      <3>2. 1 \in 1..FrameLen
        BY <2>4
      <3>3. PICK p \in 1..m : p = x - a + 1
        BY <3>1
      <3>4. z[p] = [n |-> z[x].n, at |-> 1, kind |-> "frame"]
        BY <3>2, <3>3, <2>3
      <3>5. FrameCell(z, p) /\ z[p].at = 1
        BY <3>4 DEF FrameCell
      <3>6. p = 1 /\ m = FrameLen
        BY <3>5
      <3>7. x = a
        BY <3>3, <3>6, <2>4
      <3> QED BY <3>6, <3>7, <2>1, <2>4
    <2>6. PICK y \in 1..c : y = x - a + k
      BY <2>3
    <2>7. y \notin 1..m
      <3>1. 1 \in 1..FrameLen
        BY <2>4
      <3>2. x - a + 1 \in 1..c
        BY <2>3, <3>1
      <3> QED BY <2>4, <2>5, <2>6, <3>2
    <2>8. y - m \in 1..l /\ w[y - m] = z[y] /\ y - m = i - w[i].at + k
      <3>1. y - m \in 1..l /\ w[y - m] = z[y]
        BY <2>7, <1>6
      <3>2. w[i].at = a /\ x = i + m /\ y = x - a + k
        BY <2>1, <2>2, <2>6
      <3>3. y = (i + m) - a + k
        BY <3>2, Zenon
      <3>4. i \in Int /\ m \in Int /\ a \in Int /\ k \in Int
        BY <2>4
      <3>5. ((i + m) - a + k) - m = i - a + k
        BY <3>4
      <3>6. y - m = i - a + k
        BY <3>3, <3>5, Zenon
      <3> QED BY <3>1, <3>2, <3>6
    <2> QED BY <2>1, <2>3, <2>6, <2>8
  <1>10. FramesOrdered(w)
    <2> SUFFICES ASSUME NEW i \in 1..l, NEW k \in 1..l, i < k, FrameCell(w, i), FrameCell(w, k)
                 PROVE  w[i].n < w[k].n \/ (w[i].n = w[k].n /\ w[i].at < w[k].at)
      BY <1>4 DEF FramesOrdered
    <2>1. PICK x \in 1..c : x = i + m /\ w[i] = z[x] /\ FrameCell(z, x)
      BY <1>5, <1>7
    <2>2. PICK y \in 1..c : y = k + m /\ w[k] = z[y] /\ FrameCell(z, y)
      BY <1>5, <1>7
    <2>3. x < y /\ x \in DOMAIN z /\ y \in DOMAIN z
      BY <2>1, <2>2, <1>4
    <2>4. z[x].n < z[y].n \/ (z[x].n = z[y].n /\ z[x].at < z[y].at)
      BY <2>1, <2>2, <2>3, <1>1 DEF FramesOrdered
    <2> QED BY <2>1, <2>2, <2>4
  <1>11. FramesNumbered(w)
    <2> SUFFICES ASSUME NEW i \in 1..l, FrameCell(w, i)
                 PROVE  w[i].n # 0 /\ \A k \in 1..l : w[k].n = w[i].n => FrameCell(w, k)
      BY <1>4 DEF FramesNumbered
    <2>1. PICK x \in 1..c : x = i + m /\ w[i] = z[x] /\ FrameCell(z, x)
      BY <1>5, <1>7
    <2>2. z[x].n # 0 /\ \A k \in 1..c : z[k].n = z[x].n => FrameCell(z, k)
      BY <2>1, <1>1, <1>4 DEF FramesNumbered
    <2> QED BY <2>1, <2>2, <1>5, <1>7
  <1>12. WellSent(w)
    BY <1>9, <1>10, <1>11 DEF WellSent
  <1> QED BY <1>2, <1>3, <1>4, <1>5, <1>6, <1>12

\* The bytes with the number of a good frame are those of one frame.
LEMMA BytesOfFrame ==
    ASSUME NEW z, WellSent(z), NEW i \in DOMAIN z, FrameCell(z, i)
    PROVE  Cardinality({k \in DOMAIN z : z[k].n = z[i].n}) = FrameLen
  <1>1. z \in Seq(Cells) /\ WholeFrames(z) /\ FramesOrdered(z) /\ FramesNumbered(z)
    BY DEF WellSent
  <1>2. PICK c \in Nat : c = Len(z) /\ DOMAIN z = 1..c
    BY <1>1
  <1>3. PICK f \in Nat : f = FrameLen /\ f > 2
    BY FrameLenFacts DEF FrameLenIs
  <1>4. \A k \in 1..c : z[k].at \in 1..f
    <2>1. \A k \in 1..c : z[k] \in Cells
      BY <1>1, <1>2
    <2> QED BY <2>1, <1>3 DEF Cells
  <1>5. PICK p \in Int : p = i - z[i].at
    BY <1>2, <1>4
  <1>6. \A k \in 1..f : p + k \in 1..c /\ z[p + k] = [n |-> z[i].n, at |-> k, kind |-> "frame"]
    BY <1>1, <1>2, <1>3, <1>5 DEF WholeFrames
  <1>7. \A k \in 1..c : z[k].n = z[i].n => k \in (p + 1)..(p + f)
    <2> SUFFICES ASSUME NEW k \in 1..c, z[k].n = z[i].n PROVE k \in (p + 1)..(p + f)
      OBVIOUS
    <2>1. FrameCell(z, k)
      BY <1>1, <1>2 DEF FramesNumbered
    <2>2. PICK a \in 1..f : a = z[k].at
      BY <1>4
    <2>3. PICK y \in 1..c : y = p + a /\ z[y] = [n |-> z[i].n, at |-> a, kind |-> "frame"]
      BY <1>6
    <2>4. FrameCell(z, y) /\ z[y].n = z[k].n /\ z[y].at = z[k].at
      BY <2>2, <2>3 DEF FrameCell
    <2>5. ~(y < k) /\ ~(k < y)
      <3>1. k \in DOMAIN z /\ y \in DOMAIN z
        BY <1>2
      <3>2. /\ y < k => z[y].n < z[k].n \/ (z[y].n = z[k].n /\ z[y].at < z[k].at)
            /\ k < y => z[k].n < z[y].n \/ (z[k].n = z[y].n /\ z[k].at < z[y].at)
        BY <2>1, <2>4, <3>1, <1>1 DEF FramesOrdered
      <3>3. z[k] \in Cells
        BY <3>1, <1>1
      <3>4. PICK num \in Nat : num = z[k].n
        BY <3>3 DEF Cells
      <3> QED BY <2>2, <2>4, <3>2, <3>4
    <2>6. y = k
      BY <2>5
    <2> QED BY <2>3, <2>6, <1>3
  <1>8. \A k \in (p + 1)..(p + f) : k \in 1..c /\ z[k].n = z[i].n
    <2> TAKE k \in (p + 1)..(p + f)
    <2>1. PICK x \in 1..f : p + x = k
      <3>1. k - p \in 1..f /\ p + (k - p) = k
        OBVIOUS
      <3> QED BY <3>1
    <2>2. p + x \in 1..c /\ z[p + x] = [n |-> z[i].n, at |-> x, kind |-> "frame"]
      BY <1>6
    <2> QED BY <2>1, <2>2
  <1>9. {k \in DOMAIN z : z[k].n = z[i].n} = (p + 1)..(p + f)
    <2>1. \A k : k \in {h \in DOMAIN z : z[h].n = z[i].n} <=> k \in (p + 1)..(p + f)
      BY <1>2, <1>7, <1>8
    <2> QED BY <2>1, Zenon
  <1>10. PICK lo \in Int : lo = p + 1
    OBVIOUS
  <1>11. PICK hi \in Int : hi = p + f
    OBVIOUS
  <1>12. Cardinality(lo..hi) = IF lo > hi THEN 0 ELSE hi - lo + 1
    BY FS_Interval
  <1>13. Cardinality(lo..hi) = f
    BY <1>3, <1>10, <1>11, <1>12
  <1> QED BY <1>3, <1>9, <1>10, <1>11, <1>13

\* The buffer starts with a good frame iff its first byte is of one: decode
\* throws no byte of a good frame away.
LEMMA HeadIsFrame ==
    ASSUME NEW b \in Seq(Cells), NEW r \in Seq(Cells), WellSent(b \o r), Len(b) >= FrameLen
    PROVE  /\ Good(b) <=> FrameCell(b \o r, 1)
           /\ Good(b) => \A i \in 1..FrameLen :
                            (b \o r)[i] = [n |-> b[1].n, at |-> i, kind |-> "frame"]
           /\ (b \o r)[1] = b[1] /\ Len(b) \in Nat \ {0}
  <1> DEFINE z == b \o r
  <1>1. PICK f \in Nat : f = FrameLen /\ f > 2
    BY FrameLenFacts DEF FrameLenIs
  <1>2. PICK l \in Nat : l = Len(b) /\ l >= f
    BY <1>1
  <1>3. /\ \A i \in 1..l : z[i] = b[i] /\ z[i] \in Cells
        /\ \E c \in Nat : DOMAIN z = 1..c /\ l <= c
    <2>1. /\ z \in Seq(Cells) /\ Len(r) \in Nat /\ DOMAIN z = 1..(Len(b) + Len(r))
          /\ \A i \in 1..Len(b) : z[i] = b[i]
      BY Concatenated
    <2> HIDE DEF z
    <2>2. PICK c \in Nat : c = Len(b) + Len(r)
      BY <1>2, <2>1
    <2>3. DOMAIN z = 1..c /\ l <= c
      BY <1>2, <2>1, <2>2
    <2>4. \A i \in 1..l : z[i] = b[i] /\ b[i] \in Cells
      BY <1>2, <2>1
    <2> QED BY <2>3, <2>4
  <1> HIDE DEF z
  <1>4. z[1] = b[1] /\ b[1] \in Cells
    BY <1>1, <1>2, <1>3
  <1>5. ASSUME FrameCell(z, 1)
        PROVE  \A i \in 1..f : z[i] = [n |-> b[1].n, at |-> i, kind |-> "frame"]
    <2>1. PICK a \in 1..f : a = z[1].at
      BY <1>1, <1>4 DEF Cells
    <2>2. PICK c \in Nat : DOMAIN z = 1..c /\ l <= c
      BY <1>3
    <2>3. 1 \in 1..c
      BY <1>1, <1>2, <2>2
    <2>8. WholeFrames(z)
      BY DEF WellSent, z
    <2>4. \A k \in 1..f : 1 - a + k \in 1..c /\ z[1 - a + k] = [n |-> z[1].n, at |-> k, kind |-> "frame"]
      BY <1>1, <1>5, <2>1, <2>2, <2>3, <2>8 DEF WholeFrames
    <2>5. 1 - a + 1 \in 1..c
      <3>1. 1 \in 1..f
        BY <1>1
      <3> QED BY <2>4, <3>1
    <2>6. a = 1
      BY <2>5
    <2>7. \A k \in 1..f : 1 - a + k = k
      BY <2>6
    <2> QED BY <1>4, <2>4, <2>7
  <1>6. ASSUME FrameCell(z, 1) PROVE Good(b)
    <2>1. \A i \in 1..f : b[i] = [b[1] EXCEPT !.at = i]
      <3> TAKE i \in 1..f
      <3>1. b[i] = [n |-> b[1].n, at |-> i, kind |-> "frame"]
        BY <1>2, <1>3, <1>5, <1>6
      <3>2. b[1].kind = "frame"
        BY <1>4, <1>6 DEF FrameCell
      <3>3. PICK e \in Cells : e = b[1]
        BY <1>4
      <3>4. [e EXCEPT !.at = i] = [n |-> e.n, at |-> i, kind |-> e.kind]
        <4> HIDE DEF z
        <4>1. \A num, pos, what : [[n |-> num, at |-> pos, kind |-> what] EXCEPT !.at = i]
                                     = [n |-> num, at |-> i, kind |-> what]
          OBVIOUS
        <4>2. PICK num, pos, what : e = [n |-> num, at |-> pos, kind |-> what]
          BY DEF Cells
        <4>3. [e EXCEPT !.at = i] = [n |-> num, at |-> i, kind |-> what]
          BY <4>1, <4>2, Zenon
        <4>4. e.n = num /\ e.kind = what
          BY <4>2
        <4> QED BY <4>3, <4>4, Zenon
      <3> QED BY <3>1, <3>2, <3>3, <3>4, Zenon
    <2>2. b[1].kind = "frame"
      BY <1>4, <1>6 DEF FrameCell
    <2> QED BY <1>1, <1>2, <2>1, <2>2 DEF Good, FrameAtHead
  <1>7. ASSUME Good(b) PROVE FrameCell(z, 1)
    BY <1>4, <1>7 DEF Good, FrameCell
  <1>8. (b \o r)[1] = b[1] /\ Len(b) \in Nat \ {0}
    BY <1>1, <1>2, <1>4 DEF z
  <1>9. Good(b) <=> FrameCell(b \o r, 1)
    BY <1>6, <1>7 DEF z
  <1>10. Good(b) => \A i \in 1..FrameLen :
                            (b \o r)[i] = [n |-> b[1].n, at |-> i, kind |-> "frame"]
    BY <1>1, <1>5, <1>7 DEF z
  <1> QED BY <1>8, <1>9, <1>10

\* The stream as it has yet to be decoded.
RestOfStream == rxbuf \o wire

\* What has been delivered is in order, and no byte of it is left.
DeliveredOnce(fs, z) ==
    /\ \A i, k \in DOMAIN fs : i < k => fs[i] < fs[k]
    /\ \A j \in DOMAIN fs, i \in DOMAIN z :
          z[i].n # fs[j] /\ (FrameCell(z, i) => fs[j] < z[i].n)

\* Every good frame is delivered or still to come.
AllDue(good, fs, z) ==
    \A n \in good : \/ \E j \in DOMAIN fs : fs[j] = n
                    \/ \E i \in DOMAIN z : FrameCell(z, i) /\ z[i].n = n

FrameInv ==
    /\ rxbuf \in Seq(Cells) /\ wire \in Seq(Cells) /\ frames \in Seq(Nat)
    /\ WellSent(RestOfStream)
    /\ DeliveredOnce(frames, RestOfStream)
    /\ AllDue(sentGood, frames, RestOfStream)

LEMMA FrameInvHolds ==
    ASSUME FrameInv
    PROVE  FramesSurvive
  <1> DEFINE z == RestOfStream
  <1>1. WellSent(z) /\ DeliveredOnce(frames, z) /\ AllDue(sentGood, frames, z)
    BY DEF FrameInv
  <1>2. FramesSurvive <=>
            /\ \A i, k \in DOMAIN frames : i < k => frames[i] < frames[k]
            /\ \A n \in sentGood : IF n \in ToSet(frames) THEN {i \in DOMAIN z : z[i].n = n} = {}
                                   ELSE Cardinality({i \in DOMAIN z : z[i].n = n}) = FrameLen
    BY Zenon DEF FramesSurvive, RestOfStream
  <1> HIDE DEF z
  <1>3. \A i, k \in DOMAIN frames : i < k => frames[i] < frames[k]
    BY <1>1 DEF DeliveredOnce
  <1>4. ASSUME NEW n \in sentGood, n \in ToSet(frames)
        PROVE  {i \in DOMAIN z : z[i].n = n} = {}
    <2>1. PICK j \in DOMAIN frames : frames[j] = n
      BY <1>4 DEF ToSet
    <2>2. \A i \in DOMAIN z : z[i].n # n
      BY <1>1, <2>1 DEF DeliveredOnce
    <2> QED BY <2>2
  <1>5. ASSUME NEW n \in sentGood, n \notin ToSet(frames)
        PROVE  Cardinality({i \in DOMAIN z : z[i].n = n}) = FrameLen
    <2>1. ~\E j \in DOMAIN frames : frames[j] = n
      BY <1>5 DEF ToSet
    <2>2. PICK i \in DOMAIN z : FrameCell(z, i) /\ z[i].n = n
      BY <1>1, <2>1 DEF AllDue
    <2> QED BY <1>1, <2>2, BytesOfFrame
  <1> QED BY <1>2, <1>3, <1>4, <1>5

LEMMA FrameInvStarts ==
    ASSUME ChipInit
    PROVE  FrameInv
  <1>1. rxbuf = <<>> /\ frames = <<>> /\ (wire \in Streams \/ wire = <<>>)
        /\ sentGood = {c.n : c \in {x \in ToSet(wire) : x.kind = "frame"}}
    BY DEF ChipInit
  <1>2. WellSent(wire) /\ wire \in Seq(Cells)
    BY <1>1, StreamsSent, EmptySent DEF WellSent
  <1>3. <<>> \in Seq(Cells) /\ <<>> \in Seq(Nat) /\ DOMAIN <<>> = {}
    OBVIOUS
  <1>4. RestOfStream = wire
    BY <1>1, <1>2, ConcatEmptySeq DEF RestOfStream
  <1>5. DeliveredOnce(frames, wire)
    BY <1>1, <1>3, Zenon DEF DeliveredOnce
  <1>6. AllDue(sentGood, frames, wire)
    <2> SUFFICES ASSUME NEW n \in sentGood
                 PROVE  \E i \in DOMAIN wire : FrameCell(wire, i) /\ wire[i].n = n
      BY Zenon DEF AllDue
    <2>1. PICK c \in {x \in ToSet(wire) : x.kind = "frame"} : n = c.n
      BY <1>1
    <2>2. PICK i \in DOMAIN wire : c = wire[i]
      BY <2>1 DEF ToSet
    <2> QED BY <2>1, <2>2 DEF FrameCell
  <1> QED BY <1>1, <1>2, <1>3, <1>4, <1>5, <1>6 DEF FrameInv

\* Two parts of the stream.
LEMMA StreamsJoined ==
    ASSUME NEW q \in Seq(Cells), NEW r \in Seq(Cells)
    PROVE  /\ q \o r \in Seq(Cells) /\ Len(q \o r) = Len(q) + Len(r)
           /\ \A i \in 1..Len(q) : (q \o r)[i] = q[i]
           /\ \A i \in 1..Len(r) : (q \o r)[Len(q) + i] = r[i]
  BY Concatenated

\* Three parts of the stream.
LEMMA StreamsAssociate ==
    ASSUME NEW q \in Seq(Cells), NEW r \in Seq(Cells), NEW t \in Seq(Cells)
    PROVE  (q \o r) \o t = q \o (r \o t)
  BY ConcatAssociative

\* Reading moves bytes to the buffer and leaves the stream as it is.
LEMMA ReadKeepsStream ==
    ASSUME FrameInv, ReadChunk
    PROVE  FrameInv'
  <1>1. PICK k \in 1..Len(wire) : /\ rxbuf' = rxbuf \o SubSeq(wire, 1, k)
                                  /\ wire' = SubSeq(wire, k + 1, Len(wire))
    BY DEF ReadChunk
  <1>2. rxbuf \in Seq(Cells) /\ wire \in Seq(Cells)
    BY DEF FrameInv
  <1>3. PICK b \in Seq(Cells) : b = rxbuf
    BY <1>2
  <1>4. PICK w \in Seq(Cells) : w = wire
    BY <1>2
  <1>5. k \in 1..Len(w) /\ Len(w) \in Nat
    BY <1>4
  <1> DEFINE front == SubSeq(w, 1, k)
             back  == SubSeq(w, k + 1, Len(w))
  <1>6. front \in Seq(Cells) /\ back \in Seq(Cells) /\ front \o back = w
    <2>1. front \in Seq(Cells) /\ Len(front) = k /\ \A i \in 1..k : front[i] = w[i]
      BY <1>5
    <2>2. PICK m \in Nat : m = Len(w) - k
      BY <1>5
    <2>3. back \in Seq(Cells) /\ Len(back) = m /\ \A i \in 1..m : back[i] = w[k + i]
      BY <1>5, <2>2
    <2> HIDE DEF front, back
    <2>4. /\ front \o back \in Seq(Cells) /\ Len(front \o back) = k + m
          /\ \A i \in 1..k : (front \o back)[i] = w[i]
          /\ \A i \in 1..m : (front \o back)[k + i] = w[k + i]
      <3>1. /\ front \o back \in Seq(Cells) /\ Len(front \o back) = Len(front) + Len(back)
            /\ \A i \in 1..Len(front) : (front \o back)[i] = front[i]
            /\ \A i \in 1..Len(back) : (front \o back)[Len(front) + i] = back[i]
        BY <2>1, <2>3, StreamsJoined
      <3>2. Len(front) = k /\ Len(back) = m
        BY <2>1, <2>3
      <3>3. /\ front \o back \in Seq(Cells) /\ Len(front \o back) = k + m
            /\ \A i \in 1..k : (front \o back)[i] = front[i]
            /\ \A i \in 1..m : (front \o back)[k + i] = back[i]
        BY <3>1, <3>2
      <3> QED BY <2>1, <2>3, <3>3
    <2>5. Len(w) = k + m
      BY <1>5, <2>2
    <2>6. \A i \in 1..(k + m) : (front \o back)[i] = w[i]
      <3> TAKE i \in 1..(k + m)
      <3>1. CASE i \in 1..k
        BY <2>4, <3>1
      <3>2. CASE i \notin 1..k
        <4>1. PICK j \in 1..m : k + j = i
          <5>1. i - k \in 1..m /\ k + (i - k) = i
            BY <3>2
          <5> QED BY <5>1
        <4> QED BY <2>4, <4>1
      <3> QED BY <3>1, <3>2
    <2> QED BY <2>1, <2>3, <2>4, <2>5, <2>6, SeqEqual
  <1> HIDE DEF front, back
  <1>7. rxbuf' = b \o front /\ wire' = back
    BY <1>1, <1>3, <1>4 DEF front, back
  <1>8. (b \o front) \o back = b \o w /\ b \o front \in Seq(Cells)
    <2>1. (b \o front) \o back = b \o (front \o back)
      BY <1>6, StreamsAssociate
    <2>2. b \o front \in Seq(Cells)
      BY <1>6, StreamsJoined
    <2> QED BY <1>6, <2>1, <2>2, Zenon
  <1>9. RestOfStream' = RestOfStream
    BY <1>3, <1>4, <1>7, <1>8 DEF RestOfStream
  <1>10. UNCHANGED <<frames, sentGood>>
    BY DEF ReadChunk
  <1> QED BY <1>6, <1>7, <1>8, <1>9, <1>10 DEF FrameInv

\* Without its first m bytes, the buffer starts m bytes later in the stream.
LEMMA BufferAdvances ==
    ASSUME NEW b \in Seq(Cells), NEW r \in Seq(Cells), NEW m \in Nat, m <= Len(b)
    PROVE  /\ SubSeq(b, m + 1, Len(b)) \in Seq(Cells)
           /\ SubSeq(b, m + 1, Len(b)) \o r \in Seq(Cells)
           /\ Len(SubSeq(b, m + 1, Len(b)) \o r) = Len(b \o r) - m
           /\ m <= Len(b \o r)
           /\ \A i \in 1..Len(SubSeq(b, m + 1, Len(b)) \o r) :
                 (SubSeq(b, m + 1, Len(b)) \o r)[i] = (b \o r)[i + m]
  <1> DEFINE t == SubSeq(b, m + 1, Len(b))
  <1>1. PICK l \in Nat : l = Len(b)
    BY LenProperties, Zenon
  <1>2. PICK c \in Nat : c = Len(r)
    BY LenProperties, Zenon
  <1>3. PICK d \in Nat : d + m = l
    <2>1. l - m \in Nat /\ (l - m) + m = l
      BY <1>1
    <2> QED BY <2>1
  <1>4. t \in Seq(Cells) /\ Len(t) = d /\ \A i \in 1..d : t[i] = b[i + m]
    <2>1. Len(b) \in Nat /\ m + 1 \in 1..(Len(b) + 1)
      BY <1>1
    <2>2. t \in Seq(Cells) /\ Len(t) = d
      BY <1>1, <1>3
    <2>3. \A i \in 1..d : t[i] = b[m + 1 + i - 1] /\ m + 1 + i - 1 = i + m
      BY <1>1, <1>3
    <2> QED BY <2>2, <2>3
  <1> HIDE DEF t
  <1>5. /\ t \o r \in Seq(Cells) /\ Len(t \o r) = d + c
        /\ \A i \in 1..d : (t \o r)[i] = t[i]
        /\ \A i \in 1..c : (t \o r)[d + i] = r[i]
    <2>1. /\ t \o r \in Seq(Cells) /\ Len(t \o r) = Len(t) + Len(r)
          /\ \A i \in 1..Len(t) : (t \o r)[i] = t[i]
          /\ \A i \in 1..Len(r) : (t \o r)[Len(t) + i] = r[i]
      BY <1>4, StreamsJoined
    <2> QED BY <2>1, <1>2, <1>4
  <1>6. /\ Len(b \o r) = l + c
        /\ \A i \in 1..l : (b \o r)[i] = b[i]
        /\ \A i \in 1..c : (b \o r)[l + i] = r[i]
    <2>1. /\ Len(b \o r) = Len(b) + Len(r)
          /\ \A i \in 1..Len(b) : (b \o r)[i] = b[i]
          /\ \A i \in 1..Len(r) : (b \o r)[Len(b) + i] = r[i]
      BY StreamsJoined
    <2> QED BY <2>1, <1>1, <1>2
  <1>7. \A i \in 1..(d + c) : (t \o r)[i] = (b \o r)[i + m]
    <2> TAKE i \in 1..(d + c)
    <2>1. CASE i \in 1..d
      <3>1. i + m \in 1..l
        BY <1>3, <2>1
      <3> QED BY <2>1, <3>1, <1>4, <1>5, <1>6
    <2>2. CASE i \notin 1..d
      <3>1. PICK j \in 1..c : d + j = i
        <4>1. i - d \in 1..c /\ d + (i - d) = i
          BY <2>2
        <4> QED BY <4>1
      <3>2. i + m = l + j
        BY <3>1, <1>3
      <3> QED BY <3>1, <3>2, <1>5, <1>6
    <2> QED BY <2>1, <2>2
  <1>8. Len(t \o r) = Len(b \o r) - m /\ m <= Len(b \o r)
    BY <1>3, <1>5, <1>6
  <1> QED BY <1>4, <1>5, <1>7, <1>8 DEF t

\* What is due stays due when the bytes dropped are no good frame's.
LEMMA DroppedNoFrame ==
    ASSUME NEW z, NEW w \in Seq(Cells), WellSent(z), NEW fs \in Seq(Nat), NEW good,
           DeliveredOnce(fs, z), AllDue(good, fs, z), 1 <= Len(z), Len(w) = Len(z) - 1,
           \A i \in 1..Len(w) : w[i] = z[i + 1], ~FrameCell(z, 1)
    PROVE  WellSent(w) /\ DeliveredOnce(fs, w) /\ AllDue(good, fs, w)
  <1>1. /\ WellSent(w)
        /\ \A i \in DOMAIN w : i + 1 \in DOMAIN z /\ w[i] = z[i + 1]
        /\ \A i \in DOMAIN z : i \notin 1..1 => i - 1 \in DOMAIN w /\ w[i - 1] = z[i]
    <2>1. \A i \in 1..1 : FrameCell(z, i) => z[i].at = i /\ 1 = FrameLen
      OBVIOUS
    <2>2. 1 \in Nat
      OBVIOUS
    <2>3. /\ WellSent(w)
          /\ DOMAIN w = 1..Len(w) /\ DOMAIN z = 1..Len(z) /\ Len(z) \in Nat /\ Len(w) \in Nat
          /\ \A i \in DOMAIN w : i + 1 \in DOMAIN z /\ i + 1 \notin 1..1 /\ w[i] = z[i + 1]
          /\ \A i \in DOMAIN z : i \notin 1..1 => i - 1 \in DOMAIN w /\ w[i - 1] = z[i]
      BY <2>1, <2>2, FrontDropped, Zenon
    <2> QED BY <2>3
  <1>2. \A i \in DOMAIN w : FrameCell(w, i) => FrameCell(z, i + 1)
    BY <1>1 DEF FrameCell
  <1>3. DeliveredOnce(fs, w)
    BY <1>1, <1>2 DEF DeliveredOnce
  <1>4. AllDue(good, fs, w)
    <2> SUFFICES ASSUME NEW n \in good, ~\E j \in DOMAIN fs : fs[j] = n
                 PROVE  \E i \in DOMAIN w : FrameCell(w, i) /\ w[i].n = n
      BY DEF AllDue
    <2>1. PICK i \in DOMAIN z : FrameCell(z, i) /\ z[i].n = n
      BY DEF AllDue
    <2>2. i \notin 1..1
      BY <2>1
    <2>3. i - 1 \in DOMAIN w /\ w[i - 1] = z[i]
      BY <1>1, <2>2
    <2>4. FrameCell(w, i - 1) /\ w[i - 1].n = n
      BY <2>1, <2>3 DEF FrameCell
    <2> QED BY <2>3, <2>4
  <1> QED BY <1>1, <1>3, <1>4

\* The frame at the front is delivered: it is the next in order.
LEMMA FrameDelivered ==
    ASSUME NEW z, NEW w \in Seq(Cells), WellSent(z), NEW fs \in Seq(Nat), NEW good, NEW num \in Nat,
           DeliveredOnce(fs, z), AllDue(good, fs, z), FrameLen <= Len(z),
           Len(w) = Len(z) - FrameLen, \A i \in 1..Len(w) : w[i] = z[i + FrameLen],
           \A i \in 1..FrameLen : z[i] = [n |-> num, at |-> i, kind |-> "frame"]
    PROVE  /\ WellSent(w) /\ DeliveredOnce(Append(fs, num), w)
           /\ AllDue(good, Append(fs, num), w)
  <1>1. PICK f \in Nat : f = FrameLen /\ f > 2
    BY FrameLenFacts DEF FrameLenIs
  <1>2. \A i \in 1..f : FrameCell(z, i) /\ z[i].at = i /\ z[i].n = num
    <2> TAKE i \in 1..f
    <2>1. z[i] = [n |-> num, at |-> i, kind |-> "frame"]
      BY <1>1
    <2> QED BY <2>1 DEF FrameCell
  <1>3. /\ WellSent(w) /\ DOMAIN z = 1..Len(z) /\ Len(z) \in Nat
        /\ \A i \in DOMAIN w : i + f \in DOMAIN z /\ i + f \notin 1..f /\ w[i] = z[i + f]
        /\ \A i \in DOMAIN z : i \notin 1..f => i - f \in DOMAIN w /\ w[i - f] = z[i]
    <2>1. \A i \in 1..FrameLen : FrameCell(z, i) => z[i].at = i /\ FrameLen = FrameLen
      BY <1>1, <1>2
    <2>2. FrameLen \in Nat
      BY <1>1
    <2>3. /\ WellSent(w)
          /\ DOMAIN w = 1..Len(w) /\ DOMAIN z = 1..Len(z) /\ Len(z) \in Nat /\ Len(w) \in Nat
          /\ \A i \in DOMAIN w : i + FrameLen \in DOMAIN z /\ i + FrameLen \notin 1..FrameLen
                                 /\ w[i] = z[i + FrameLen]
          /\ \A i \in DOMAIN z : i \notin 1..FrameLen =>
                                 i - FrameLen \in DOMAIN w /\ w[i - FrameLen] = z[i]
      BY <2>1, <2>2, FrontDropped, Zenon
    <2> QED BY <1>1, <2>3
  <1>4. f \in DOMAIN z /\ f \in 1..f
    BY <1>1, <1>3
  <1>5. z \in Seq(Cells) /\ FramesOrdered(z) /\ FramesNumbered(z)
    BY DEF WellSent
  \* Behind it nothing has its number, and good frames have higher ones.
  <1>6. \A i \in DOMAIN z : i \notin 1..f =>
            z[i].n # num /\ (FrameCell(z, i) => num < z[i].n)
    <2> SUFFICES ASSUME NEW i \in DOMAIN z, i \notin 1..f
                 PROVE  z[i].n # num /\ (FrameCell(z, i) => num < z[i].n)
      OBVIOUS
    <2>1. z[i] \in Cells /\ f < i
      BY <1>3, <1>5
    <2>2. PICK a \in 1..f : a = z[i].at
      BY <1>1, <2>1 DEF Cells
    <2>3. PICK o \in Nat : o = z[i].n
      BY <2>1 DEF Cells
    <2>4. FrameCell(z, i) => num < o
      <3>1. FrameCell(z, i) => z[f].n < z[i].n \/ (z[f].n = z[i].n /\ z[f].at < z[i].at)
        BY <1>2, <1>4, <1>5, <2>1 DEF FramesOrdered
      <3>2. z[f].n = num /\ z[f].at = f
        BY <1>2, <1>4
      <3> QED BY <2>2, <2>3, <3>1, <3>2
    <2>5. o = num => FrameCell(z, i)
      BY <1>2, <1>4, <1>5, <2>3 DEF FramesNumbered
    <2> QED BY <2>3, <2>4, <2>5
  <1>7. PICK l \in Nat : l = Len(fs)
    BY LenProperties, Zenon
  <1> DEFINE gs == Append(fs, num)
  <1>8. /\ DOMAIN fs = 1..l /\ DOMAIN gs = 1..(l + 1) /\ gs[l + 1] = num
        /\ \A j \in 1..l : gs[j] = fs[j] /\ fs[j] \in Nat
    BY <1>7
  <1> HIDE DEF gs
  <1>9. \A j \in 1..l : fs[j] < num
    <2> TAKE j \in 1..l
    <2> QED BY <1>2, <1>4, <1>8 DEF DeliveredOnce
  <1>10. \A j \in 1..(l + 1) : j \in 1..l \/ j = l + 1
    OBVIOUS
  <1>11. \A i, k \in 1..(l + 1) : i < k => gs[i] < gs[k]
    <2> SUFFICES ASSUME NEW i \in 1..(l + 1), NEW k \in 1..(l + 1), i < k
                 PROVE  gs[i] < gs[k]
      OBVIOUS
    <2>1. i \in 1..l
      OBVIOUS
    <2>2. CASE k \in 1..l
      BY <2>1, <2>2, <1>8 DEF DeliveredOnce
    <2>3. CASE k = l + 1
      BY <2>1, <2>3, <1>8, <1>9
    <2> QED BY <1>10, <2>2, <2>3
  <1>12. DeliveredOnce(gs, w)
    <2> SUFFICES ASSUME NEW j \in 1..(l + 1), NEW i \in DOMAIN w
                 PROVE  w[i].n # gs[j] /\ (FrameCell(w, i) => gs[j] < w[i].n)
      BY <1>8, <1>11 DEF DeliveredOnce
    <2>1. PICK x \in DOMAIN z : x \notin 1..f /\ w[i] = z[x] /\ (FrameCell(w, i) => FrameCell(z, x))
      BY <1>3 DEF FrameCell
    <2>2. CASE j \in 1..l
      BY <2>1, <2>2, <1>8 DEF DeliveredOnce
    <2>3. CASE j = l + 1
      BY <2>1, <2>3, <1>6, <1>8
    <2> QED BY <1>10, <2>2, <2>3
  <1>13. AllDue(good, gs, w)
    <2> SUFFICES ASSUME NEW n \in good
                 PROVE  \/ \E j \in DOMAIN gs : gs[j] = n
                        \/ \E i \in DOMAIN w : FrameCell(w, i) /\ w[i].n = n
      BY DEF AllDue
    <2>1. CASE \E j \in DOMAIN fs : fs[j] = n
      <3>1. PICK j \in 1..l : fs[j] = n
        BY <2>1, <1>8
      <3>2. j \in DOMAIN gs /\ gs[j] = n
        BY <3>1, <1>8
      <3> QED BY <3>2
    <2>2. CASE \E i \in DOMAIN z : FrameCell(z, i) /\ z[i].n = n
      <3>1. PICK i \in DOMAIN z : FrameCell(z, i) /\ z[i].n = n
        BY <2>2
      <3>2. CASE i \in 1..f
        <4>1. l + 1 \in DOMAIN gs /\ gs[l + 1] = n
          BY <3>1, <3>2, <1>2, <1>8
        <4> QED BY <4>1
      <3>3. CASE i \notin 1..f
        <4>1. i - f \in DOMAIN w /\ w[i - f] = z[i]
          BY <3>3, <1>3
        <4>2. FrameCell(w, i - f) /\ w[i - f].n = n
          BY <3>1, <4>1 DEF FrameCell
        <4> QED BY <4>1, <4>2
      <3> QED BY <3>2, <3>3
    <2> QED BY <2>1, <2>2 DEF AllDue
  <1> QED BY <1>3, <1>12, <1>13 DEF gs

LEMMA DecodeKeepsFrames ==
    ASSUME FrameInv, Decode
    PROVE  FrameInv'
  <1>1. PICK b \in Seq(Cells) : b = rxbuf
    BY DEF FrameInv
  <1>2. PICK r \in Seq(Cells) : r = wire
    BY DEF FrameInv
  <1>3. PICK fs \in Seq(Nat) : fs = frames
    BY DEF FrameInv
  <1>4. /\ RestOfStream = b \o r /\ WellSent(b \o r)
        /\ DeliveredOnce(fs, b \o r) /\ AllDue(sentGood, fs, b \o r)
    BY <1>1, <1>2, <1>3 DEF FrameInv, RestOfStream
  <1>5. wire' = r /\ sentGood' = sentGood
    BY <1>2 DEF Decode
  <1>6. PICK f \in Nat : f = FrameLen /\ f > 2
    BY FrameLenFacts DEF FrameLenIs
  <1>7. PICK l \in Nat : l = Len(b)
    BY LenProperties, Zenon
  <1>8. CASE Len(rxbuf) < FrameLen
    <2>1. UNCHANGED <<rxbuf, wire, frames, sentGood>>
      BY <1>8 DEF Decode
    <2> QED BY <2>1 DEF FrameInv, RestOfStream
  <1>9. ASSUME ~(Len(rxbuf) < FrameLen), Good(rxbuf) PROVE FrameInv'
    <2> DEFINE t == SubSeq(b, f + 1, Len(b))
    <2>1. rxbuf' = t /\ frames' = Append(fs, b[1].n)
      BY <1>1, <1>3, <1>6, <1>9 DEF Decode
    <2>2. f <= Len(b) /\ Len(b) >= FrameLen /\ Good(b)
      BY <1>1, <1>6, <1>7, <1>9
    <2>3. /\ t \in Seq(Cells) /\ t \o r \in Seq(Cells) /\ Len(t \o r) = Len(b \o r) - f
          /\ f <= Len(b \o r)
          /\ \A i \in 1..Len(t \o r) : (t \o r)[i] = (b \o r)[i + f]
      BY <2>2, BufferAdvances
    <2> HIDE DEF t
    <2>4. \A i \in 1..FrameLen : (b \o r)[i] = [n |-> b[1].n, at |-> i, kind |-> "frame"]
      BY <1>4, <2>2, HeadIsFrame
    <2>5. PICK num \in Nat : num = b[1].n
      <3>1. b[1] \in Cells
        BY <1>6, <1>7, <2>2
      <3> QED BY <3>1 DEF Cells
    <2>6. \A i \in 1..FrameLen : (b \o r)[i] = [n |-> num, at |-> i, kind |-> "frame"]
      BY <2>4, <2>5
    <2>7. FrameLen <= Len(b \o r) /\ Len(t \o r) = Len(b \o r) - FrameLen
          /\ \A i \in 1..Len(t \o r) : (t \o r)[i] = (b \o r)[i + FrameLen]
      BY <1>6, <2>3
    <2>8. /\ WellSent(t \o r) /\ DeliveredOnce(Append(fs, num), t \o r)
          /\ AllDue(sentGood, Append(fs, num), t \o r)
      BY <1>4, <2>3, <2>6, <2>7, FrameDelivered
    <2>9. RestOfStream' = t \o r /\ frames' = Append(fs, num) /\ frames' \in Seq(Nat)
      BY <1>5, <2>1, <2>5 DEF RestOfStream
    <2> QED BY <1>5, <2>1, <2>3, <2>8, <2>9 DEF FrameInv
  <1>10. ASSUME ~(Len(rxbuf) < FrameLen), ~Good(rxbuf) PROVE FrameInv'
    <2> DEFINE t == SubSeq(b, 1 + 1, Len(b))
    <2>1. rxbuf' = t /\ frames' = fs
      BY <1>1, <1>3, <1>10 DEF Decode, Resync
    <2>2. 1 \in Nat /\ 1 <= Len(b) /\ Len(b) >= FrameLen /\ ~Good(b)
      BY <1>1, <1>6, <1>7, <1>10
    <2>3. /\ t \in Seq(Cells) /\ t \o r \in Seq(Cells) /\ Len(t \o r) = Len(b \o r) - 1
          /\ 1 <= Len(b \o r)
          /\ \A i \in 1..Len(t \o r) : (t \o r)[i] = (b \o r)[i + 1]
      BY <2>2, BufferAdvances
    <2> HIDE DEF t
    <2>4. ~FrameCell(b \o r, 1)
      BY <1>4, <2>2, HeadIsFrame
    <2>5. WellSent(t \o r) /\ DeliveredOnce(fs, t \o r) /\ AllDue(sentGood, fs, t \o r)
      BY <1>4, <2>3, <2>4, DroppedNoFrame
    <2>6. RestOfStream' = t \o r
      BY <1>5, <2>1 DEF RestOfStream
    <2> QED BY <1>5, <2>1, <2>3, <2>5, <2>6 DEF FrameInv
  <1> QED BY <1>8, <1>9, <1>10

\* Whatever noise and broken frames lie between them and however the bytes are
\* chunked, every good frame comes out once and in order, or is still whole in
\* the buffer or on the wire (protocol.rs:1149), for any length of frame and of
\* stream.
THEOREM NoFrameIsLost == ChipSpec => []FramesSurvive
  <1>1. ChipInit => FrameInv
    BY FrameInvStarts
  <1>2. FrameInv /\ [ChipNext]_chipVars => FrameInv'
    <2> SUFFICES ASSUME FrameInv, [ChipNext]_chipVars PROVE FrameInv'
      OBVIOUS
    <2>1. CASE UNCHANGED <<wire, rxbuf, sentGood, frames>>
      BY <2>1 DEF FrameInv, RestOfStream
    <2>2. RampSend => UNCHANGED <<wire, rxbuf, sentGood, frames>>
      BY DEF RampSend
    <2> QED BY <2>1, <2>2, ReadKeepsStream, DecodeKeepsFrames DEF ChipNext, chipVars
  <1>3. FrameInv => FramesSurvive
    BY FrameInvHolds
  <1> QED BY <1>1, <1>2, <1>3, PTL DEF ChipSpec

-----------------------------------------------------------------------------
(* Shares, from the board to the pool.                                     *)

\* A word of two halves, and its digits.
HighLow(h, n, l) == h * n + l
Digit(x, p, b) == (x \div p) % b

\* A digit of the low half of a word is that of the half.
LEMMA LowDigit ==
    ASSUME NEW h \in Nat, NEW l \in Nat, NEW p \in Nat \ {0}, NEW b \in Nat \ {0},
           NEW n \in Nat, \E q \in Nat : n = p * b * q
    PROVE  Digit(HighLow(h, n, l), p, b) = Digit(l, p, b)
  <1>9. PICK q \in Nat : n = p * b * q
    OBVIOUS
  <1>0. PICK v \in Nat : v = h * (p * b * q) + l
    <2>1. h * (p * b * q) \in Nat
      OBVIOUS
    <2> QED BY <2>1
  <1>1. PICK d \in Nat, e \in Nat : d = l \div p /\ e = l % p /\ e < p /\ l = p * d + e
    BY Division
  <1>2. PICK f \in Nat, g \in Nat : f = d \div b /\ g = d % b /\ g < b /\ d = b * f + g
    BY Division
  <1>3. PICK x \in Nat : x = h * (b * q) + d
    OBVIOUS
  <1>4. v = p * x + e
    <2>1. h * (p * b * q) = p * (h * (b * q))
      OBVIOUS
    <2>2. PICK y \in Nat : y = h * (b * q)
      OBVIOUS
    <2>3. p * x = p * y + p * d
      BY <1>3, <2>2
    <2>4. p * y \in Nat /\ p * d \in Nat
      OBVIOUS
    <2> QED BY <1>0, <1>1, <2>1, <2>2, <2>3, <2>4
  <1>5. v \div p = x /\ v % p = e
    <2>1. (p * x + e) \div p = x /\ (p * x + e) % p = e
      BY <1>1, Quotient
    <2> QED BY <1>4, <2>1, Zenon
  <1>6. PICK y \in Nat : y = h * q + f
    OBVIOUS
  <1>7. x = b * y + g
    <2>1. h * (b * q) = b * (h * q)
      OBVIOUS
    <2>2. PICK z \in Nat : z = h * q
      OBVIOUS
    <2>3. b * y = b * z + b * f
      BY <1>6, <2>2
    <2>4. b * z \in Nat /\ b * f \in Nat
      OBVIOUS
    <2> QED BY <1>2, <1>3, <2>1, <2>2, <2>3, <2>4
  <1>8. x \div b = y /\ x % b = g
    <2>1. (b * y + g) \div b = y /\ (b * y + g) % b = g
      BY <1>2, Quotient
    <2> QED BY <1>7, <2>1, Zenon
  <1>10. (v \div p) % b = (l \div p) % b
    BY <1>1, <1>2, <1>5, <1>8
  <1> QED BY <1>0, <1>9, <1>10, Zenon DEF Digit, HighLow

\* A digit of the high half of a word is that of the half.
LEMMA HighDigit ==
    ASSUME NEW h \in Nat, NEW l \in Nat, NEW n \in Nat \ {0}, l < n, NEW r \in Nat \ {0},
           NEW c \in Nat, c = n * r
    PROVE  Quot(HighLow(h, n, l), c) = Quot(h, r)
  <1>0. PICK v \in Nat : v = h * n + l
    <2>1. h * n \in Nat
      OBVIOUS
    <2> QED BY <2>1
  <1>1. PICK d \in Nat, e \in Nat : d = h \div r /\ e = h % r /\ e < r /\ h = r * d + e
    BY Division
  <1>2. PICK s \in Nat : s = e * n + l
    OBVIOUS
  <1>3. s < n * r
    <2>1. PICK x \in Nat : r = e + 1 + x
      <3>1. r - e - 1 \in Nat /\ r = e + 1 + (r - e - 1)
        BY <1>1
      <3> QED BY <3>1
    <2>2. n * r = n * e + n + n * x /\ n * x \in Nat /\ n * e \in Nat /\ n * e = e * n
      BY <2>1
    <2> QED BY <1>2, <2>2
  <1>4. v = (n * r) * d + s
    <2>1. h * n = (r * d) * n + e * n
      BY <1>1
    <2>2. (r * d) * n = (n * r) * d
      OBVIOUS
    <2>3. (n * r) * d \in Nat /\ e * n \in Nat
      OBVIOUS
    <2> QED BY <1>0, <1>2, <2>1, <2>2, <2>3
  <1>5. n * r \in Nat \ {0}
    <2>1. n * r \in Nat
      OBVIOUS
    <2>2. n * r > 0
      BY <1>2, <1>3, <2>1
    <2> QED BY <2>1, <2>2
  <1>6. v \div (n * r) = d /\ v % (n * r) = s
    <2>1. ((n * r) * d + s) \div (n * r) = d /\ ((n * r) * d + s) % (n * r) = s
      BY <1>3, <1>5, Quotient
    <2> QED BY <1>4, <2>1, Zenon
  <1>7. v \div (n * r) = h \div r
    BY <1>1, <1>6
  <1> QED BY <1>0, <1>7, Zenon DEF Quot, HighLow

\* Two parts of a number's bytes.
LEMMA BytesJoined ==
    ASSUME NEW q \in Seq(Nat), NEW r \in Seq(Nat)
    PROVE  /\ q \o r \in Seq(Nat) /\ Len(q \o r) = Len(q) + Len(r)
           /\ \A i \in 1..Len(q) : (q \o r)[i] = q[i]
           /\ \A i \in 1..Len(r) : (q \o r)[Len(q) + i] = r[i]
  BY Concatenated

LEMMA HalfFacts ==
    /\ Half \in Nat \ {0} /\ MaxSize = Half + Half /\ Byte \in Nat \ {0} /\ Byte^1 = Byte
    /\ \A size \in 0..MaxSize : Byte^size \in Nat \ {0}
    /\ \A a, b \in 0..MaxSize : a + b <= MaxSize => Byte^(a + b) = Byte^a * Byte^b
  <1>1. PICK m \in Nat \ {0} : m = MaxSize /\ m % 2 = 0
    BY JobDataConstants, ShareHeaderConstants
  <1>2. PICK h \in Nat : h = m \div 2
    OBVIOUS
  <1>3. m = 2 * h
    BY <1>1, <1>2
  <1>4. Half = h
    BY <1>1, <1>2 DEF Half
  <1> QED BY <1>1, <1>3, <1>4, JobDataConstants

\* The bytes of a word are those of its halves.
LEMMA BytesOfHalves ==
    ASSUME NEW low \in 0..(Byte^Half - 1), NEW high \in 0..(Byte^Half - 1)
    PROVE  /\ NewEn2(high * Byte^Half + low, MaxSize)
                  = [value |-> high * Byte^Half + low, size |-> MaxSize]
           /\ SplicedEn2(LeBytes(low, Half), LeBytes(high, Half))
                  = LeBytes(high * Byte^Half + low, MaxSize)
  <1>1. PICK h \in Nat \ {0} : h = Half /\ MaxSize = h + h
    BY HalfFacts
  <1>2. PICK b \in Nat \ {0} : b = Byte
    BY HalfFacts
  <1>3. \A e \in 0..(h + h) : Byte^e \in Nat \ {0}
    BY <1>1, HalfFacts
  <1>4. PICK n \in Nat \ {0} : n = Byte^Half
    <2>1. h \in 0..(h + h)
      OBVIOUS
    <2> QED BY <1>1, <1>3, <2>1
  <1>5. low \in Nat /\ high \in Nat /\ low < n /\ high < n
    BY <1>4
  <1>6. PICK v \in Nat : v = high * n + low
    <2>1. high * n \in Nat
      BY <1>5
    <2> QED BY <1>5, <2>1
  <1>7. \A e, f \in 0..(h + h) : e + f <= h + h => Byte^(e + f) = Byte^e * Byte^f
    BY <1>1, HalfFacts
  <1>8. Byte^MaxSize = n * n
    <2>1. h \in 0..(h + h) /\ h + h <= h + h
      OBVIOUS
    <2>2. Byte^(h + h) = Byte^h * Byte^h
      BY <1>7, <2>1
    <2> QED BY <1>1, <1>4, <2>2
  <1>9. v <= n * n - 1
    <2>1. PICK c \in Nat : n = high + 1 + c
      <3>1. n - high - 1 \in Nat /\ n = high + 1 + (n - high - 1)
        BY <1>5
      <3> QED BY <3>1
    <2>2. n * n = high * n + n + c * n /\ c * n \in Nat /\ high * n \in Nat
      BY <1>5, <2>1
    <2> QED BY <1>5, <1>6, <2>2
  <1>10. NewEn2(v, MaxSize) = [value |-> v, size |-> MaxSize]
    <2>1. ValidSize(MaxSize)
      BY <1>1 DEF ValidSize
    <2>2. MaxForSize(MaxSize) = n * n - 1
      BY <1>1, <1>8 DEF MaxForSize, WordMax
    <2> QED BY <1>9, <2>1, <2>2 DEF NewEn2
  <1>11. \A i \in 1..h : (v \div Byte^(i - 1)) % b = (low \div Byte^(i - 1)) % b
    <2> TAKE i \in 1..h
    <2>1. PICK e \in 0..(h + h) : e = i - 1
      OBVIOUS
    <2>2. PICK f \in 0..(h + h) : f = h - i
      OBVIOUS
    <2>3. PICK p \in Nat \ {0} : p = Byte^e
      BY <1>3
    <2>4. PICK q \in Nat \ {0} : q = Byte^f
      BY <1>3
    <2>5. 1 \in 0..(h + h) /\ e + 1 <= h + h /\ e + 1 \in 0..(h + h) /\ e + 1 + f = h
          /\ (e + 1) + f <= h + h
      BY <2>1, <2>2
    <2>6. Byte^(e + 1) = p * b
      <3>1. Byte^(e + 1) = Byte^e * Byte^1
        BY <1>7, <2>5
      <3> QED BY <1>2, <2>3, <3>1, HalfFacts
    <2>7. Byte^((e + 1) + f) = Byte^(e + 1) * Byte^f
      BY <1>7, <2>5
    <2>8. n = p * b * q
      BY <1>1, <1>4, <2>4, <2>5, <2>6, <2>7
    <2>9. Digit(HighLow(high, n, low), p, b) = Digit(low, p, b)
      <3>1. low \in Nat /\ high \in Nat /\ n \in Nat /\ p \in Nat \ {0} /\ b \in Nat \ {0}
        BY <1>5
      <3>2. \E x \in Nat : n = p * b * x
        <4>1. q \in Nat
          OBVIOUS
        <4> QED BY <2>8, <4>1, Zenon
      <3> QED BY <3>1, <3>2, LowDigit
    <2> QED BY <1>6, <2>1, <2>3, <2>9, Zenon DEF Digit, HighLow
  <1>12. \A i \in 1..h : (v \div Byte^(h + i - 1)) % b = (high \div Byte^(i - 1)) % b
    <2> TAKE i \in 1..h
    <2>1. PICK e \in 0..(h + h) : e = i - 1 /\ h + e <= h + h /\ h + i - 1 = h + e /\ h \in 0..(h + h)
      OBVIOUS
    <2>2. PICK r \in Nat \ {0} : r = Byte^e
      BY <1>3
    <2>3. Byte^(h + e) = n * r
      BY <1>1, <1>4, <1>7, <2>1, <2>2
    <2>4. PICK c \in Nat : c = n * r
      OBVIOUS
    <2>6. Quot(HighLow(high, n, low), c) = Quot(high, r)
      <3>1. low \in Nat /\ high \in Nat /\ low < n /\ n \in Nat \ {0} /\ r \in Nat \ {0} /\ c \in Nat
        BY <1>5
      <3> QED BY <3>1, <2>4, HighDigit
    <2>5. v \div Byte^(h + i - 1) = high \div Byte^(i - 1)
      BY <1>6, <2>1, <2>2, <2>3, <2>4, <2>6 DEF Quot, HighLow
    <2> QED BY <2>5
  <1>13. \A x \in Nat, i \in 1..(h + h) : (x \div Byte^(i - 1)) % b \in Nat
    <2> TAKE x \in Nat, i \in 1..(h + h)
    <2>1. i - 1 \in 0..(h + h)
      OBVIOUS
    <2>2. PICK p \in Nat \ {0} : p = Byte^(i - 1)
      BY <1>3, <2>1
    <2>3. PICK y \in Nat : y = x \div p
      BY Division
    <2>4. y % b \in Nat
      OBVIOUS
    <2> QED BY <2>2, <2>3, <2>4
  <1> DEFINE lo == LeBytes(low, h)
             hi == LeBytes(high, h)
             all == LeBytes(v, h + h)
  <1>14. /\ lo \in Seq(Nat) /\ Len(lo) = h /\ \A i \in 1..h : lo[i] = (low \div Byte^(i - 1)) % b
    <2>1. lo = [i \in 1..h |-> (low \div Byte^(i - 1)) % b]
      BY <1>2 DEF LeBytes
    <2>2. \A i \in 1..h : (low \div Byte^(i - 1)) % b \in Nat
      BY <1>5, <1>13
    <2> HIDE DEF lo
    <2> QED BY <2>1, <2>2
  <1>15. /\ hi \in Seq(Nat) /\ Len(hi) = h /\ \A i \in 1..h : hi[i] = (high \div Byte^(i - 1)) % b
    <2>1. hi = [i \in 1..h |-> (high \div Byte^(i - 1)) % b]
      BY <1>2 DEF LeBytes
    <2>2. \A i \in 1..h : (high \div Byte^(i - 1)) % b \in Nat
      BY <1>5, <1>13
    <2> HIDE DEF hi
    <2> QED BY <2>1, <2>2
  <1>16. /\ all \in Seq(Nat) /\ Len(all) = h + h
         /\ \A i \in 1..(h + h) : all[i] = (v \div Byte^(i - 1)) % b
    <2>1. all = [i \in 1..(h + h) |-> (v \div Byte^(i - 1)) % b]
      BY <1>2 DEF LeBytes
    <2>2. \A i \in 1..(h + h) : (v \div Byte^(i - 1)) % b \in Nat
      BY <1>13
    <2> HIDE DEF all
    <2> QED BY <2>1, <2>2
  <1> HIDE DEF lo, hi, all
  <1>17. /\ lo \o hi \in Seq(Nat) /\ Len(lo \o hi) = h + h
         /\ \A i \in 1..h : (lo \o hi)[i] = lo[i]
         /\ \A i \in 1..h : (lo \o hi)[h + i] = hi[i]
    <2>1. /\ lo \o hi \in Seq(Nat) /\ Len(lo \o hi) = Len(lo) + Len(hi)
          /\ \A i \in 1..Len(lo) : (lo \o hi)[i] = lo[i]
          /\ \A i \in 1..Len(hi) : (lo \o hi)[Len(lo) + i] = hi[i]
      BY <1>14, <1>15, BytesJoined
    <2> QED BY <2>1, <1>14, <1>15
  <1>18. \A i \in 1..(h + h) : (lo \o hi)[i] = all[i]
    <2> TAKE i \in 1..(h + h)
    <2>1. CASE i \in 1..h
      BY <2>1, <1>11, <1>14, <1>16, <1>17
    <2>2. CASE i \notin 1..h
      <3>1. PICK j \in 1..h : h + j = i /\ h + j - 1 = i - 1
        <4>1. i - h \in 1..h /\ h + (i - h) = i /\ h + (i - h) - 1 = i - 1
          BY <2>2
        <4> QED BY <4>1
      <3>2. (lo \o hi)[i] = (high \div Byte^(j - 1)) % b
        BY <3>1, <1>15, <1>17
      <3>3. all[i] = (v \div Byte^(h + j - 1)) % b
        BY <3>1, <1>16
      <3> QED BY <3>2, <3>3, <1>12
    <2> QED BY <2>1, <2>2
  <1>19. lo \o hi = all
    BY <1>16, <1>17, <1>18, SeqEqual
  <1> QED BY <1>1, <1>4, <1>6, <1>10, <1>19 DEF SplicedEn2, lo, hi, all

\* What a template of the job allows: the version to start from, and the general
\* purpose bits that may roll.
BaseOf == IF job.src = "v1" THEN job.ver ELSE job.ver \ Region
RollOf == IF job.mask = NoValue THEN {}
          ELSE IF job.src = "v1" THEN FromMask(job.mask) ELSE GpBits

\* Header and share of a nonce found with these.
FoundWith(hd, sh, version, bytes, en2, hnonce, nonce) ==
    hd = Header(version, bytes, hnonce) /\ sh = Found(version, en2, nonce)

FoundByBm13xx(hd, sh) ==
    \E value \in 0..MaxForSize(job.size), gp \in SUBSET GpBits, n \in Nonces :
        FoundWith(hd, sh, ApplyTo(gp, BaseOf), En2Bytes(NewEn2(value, job.size)),
                  NewEn2(value, job.size), n, n)

FoundByCpu(hd, sh) ==
    \E value \in 0..MaxForSize(job.size), n \in Nonces :
        FoundWith(hd, sh, BaseOf, En2Bytes(NewEn2(value, job.size)),
                  NewEn2(value, job.size), n, n)

FoundByNano3s(hd, sh) ==
    \E low, high \in 0..(Byte^Half - 1), vmask \in Vmasks(RollOf), n \in Nonces :
        FoundWith(hd, sh, BaseOf \cup vmask, SplicedEn2(LeBytes(low, Half), LeBytes(high, Half)),
                  NewEn2(high * Byte^Half + low, MaxSize), Swap(n), n)

\* How header and share of each board came from the job.
HeaderInv ==
    /\ board \in {"bm13xx", "cpu", "nano3s"}
    /\ job \in [src : {"v1", "v2"}, ver : Versions, size : 1..MaxSize, mask : Masks \cup {NoValue}]
    /\ template # NoValue => template = [base |-> BaseOf, mask |-> RollOf]
    /\ share # NoValue => /\ board = "bm13xx" => FoundByBm13xx(hashed, share)
                          /\ board = "cpu" => FoundByCpu(hashed, share)
                          /\ board = "nano3s" => FoundByNano3s(hashed, share)
    /\ submitted # NoValue =>
          share # NoValue /\ submitted = IF job.src = "v1" THEN SubmitV1 ELSE SubmitV2

LEMMA HeaderInvStarts == HeaderInit => HeaderInv
  BY DEF HeaderInit, HeaderInv

LEMMA MakeTemplateFits ==
    ASSUME HeaderInv, MakeTemplate
    PROVE  HeaderInv'
  <1>1. UNCHANGED <<board, job, hashed, share, submitted>> /\ template' # NoValue
        /\ template' = IF job.src = "v1" THEN TemplateV1 ELSE TemplateV2
    BY DEF MakeTemplate
  <1>2. UNCHANGED <<BaseOf, RollOf, SubmitV1, SubmitV2, FoundByBm13xx(hashed, share),
                    FoundByCpu(hashed, share), FoundByNano3s(hashed, share)>>
    BY <1>1 DEF BaseOf, RollOf, SubmitV1, SubmitV2, SubmittedVersion, SubmittedNonce,
                FoundByBm13xx, FoundByCpu, FoundByNano3s
  <1>3. template' = [base |-> BaseOf, mask |-> RollOf]
    BY <1>1 DEF TemplateV1, TemplateV2, NewVersion, BaseOf, RollOf
  <1> QED BY <1>1, <1>2, <1>3 DEF HeaderInv

LEMMA HashFits ==
    ASSUME HeaderInv, Hash
    PROVE  HeaderInv'
  <1>1. UNCHANGED <<board, job, template, submitted>> /\ template # NoValue /\ share = NoValue
    BY DEF Hash
  <1>2. UNCHANGED <<BaseOf, RollOf>>
    BY <1>1 DEF BaseOf, RollOf
  <1>3. template.base = BaseOf /\ template.mask = RollOf
    BY <1>1 DEF HeaderInv
  <1>4. submitted = NoValue
    BY <1>1 DEF HeaderInv
  <1>5. HashBm13xx => board = "bm13xx" /\ FoundByBm13xx(hashed', share')
    BY <1>3 DEF HashBm13xx, FoundByBm13xx, FoundWith
  <1>6. HashCpu => board = "cpu" /\ FoundByCpu(hashed', share')
    BY <1>3 DEF HashCpu, FoundByCpu, FoundWith
  <1>7. HashNano3s => board = "nano3s" /\ FoundByNano3s(hashed', share')
    BY <1>3 DEF HashNano3s, FoundByNano3s, FoundWith
  <1>8. /\ FoundByBm13xx(hashed', share') => FoundByBm13xx(hashed, share)'
        /\ FoundByCpu(hashed', share') => FoundByCpu(hashed, share)'
        /\ FoundByNano3s(hashed', share') => FoundByNano3s(hashed, share)'
    BY <1>1, <1>2 DEF FoundByBm13xx, FoundByCpu, FoundByNano3s
  <1>9. HashBm13xx \/ HashCpu \/ HashNano3s
    BY DEF Hash
  <1> QED BY <1>1, <1>2, <1>4, <1>5, <1>6, <1>7, <1>8, <1>9 DEF HeaderInv

LEMMA SubmitFits ==
    ASSUME HeaderInv, Submit
    PROVE  HeaderInv'
  <1>1. UNCHANGED <<board, job, template, hashed, share>> /\ share # NoValue
        /\ submitted' = IF job.src = "v1" THEN SubmitV1 ELSE SubmitV2
    BY DEF Submit
  <1>2. UNCHANGED <<BaseOf, RollOf, SubmitV1, SubmitV2, FoundByBm13xx(hashed, share),
                    FoundByCpu(hashed, share), FoundByNano3s(hashed, share)>>
    BY <1>1 DEF BaseOf, RollOf, SubmitV1, SubmitV2, SubmittedVersion, SubmittedNonce,
                FoundByBm13xx, FoundByCpu, FoundByNano3s
  <1> QED BY <1>1, <1>2 DEF HeaderInv

\* The extranonce2 a channel of the right size submits is that of the share.
LEMMA SubmittedBytes ==
    ASSUME NEW size \in 1..MaxSize, NEW value
    PROVE  [i \in 1..size |-> IF i <= size THEN LeBytes(value, MaxSize)[i] ELSE 0]
               = LeBytes(value, size)
  <1>1. \A i \in 1..size : i \in 1..MaxSize /\ i <= size
    BY HalfFacts
  <1>2. \A i \in 1..size : LeBytes(value, MaxSize)[i] = (value \div Byte^(i - 1)) % Byte
    BY <1>1 DEF LeBytes
  <1>3. \A i \in 1..size :
            (IF i <= size THEN LeBytes(value, MaxSize)[i] ELSE 0) = (value \div Byte^(i - 1)) % Byte
    BY <1>1, <1>2
  <1> QED BY <1>3, Zenon DEF LeBytes

\* The bits a Nano 3S rolls are in the pool's mask.
LEMMA RolledInMask ==
    ASSUME HeaderInv, job.src = "v1", NEW vmask \in Vmasks(RollOf)
    PROVE  (job.mask = NoValue => vmask = {}) /\ (job.mask # NoValue => vmask \subseteq job.mask)
  <1> DEFINE raw == {b + GpLow : b \in RollOf}
  <1>1. vmask \in {{}, raw} \cup {{b} : b \in {r \in raw : r >= GpLow + 2}}
    BY DEF Vmasks
  <1>2. vmask \subseteq raw
    <2> HIDE DEF raw
    <2> QED BY <1>1
  <1>3. job.mask = NoValue => raw = {}
    BY DEF RollOf
  <1>4. ASSUME job.mask # NoValue PROVE raw \subseteq job.mask
    <2> SUFFICES ASSUME NEW x \in raw PROVE x \in job.mask
      OBVIOUS
    <2>1. PICK b \in FromMask(job.mask) : x = b + GpLow
      BY <1>4 DEF RollOf
    <2>2. PICK c \in job.mask \cap Region : b = c - GpLow
      BY <2>1 DEF FromMask
    <2>3. c \in Nat /\ GpLow \in Nat
      BY <2>2, JobDataConstants DEF Region
    <2>4. x = c
      BY <2>1, <2>2, <2>3
    <2> QED BY <2>2, <2>4
  <1> QED BY <1>2, <1>3, <1>4

\* The pool puts the rolled bits back where they were.
LEMMA VersionBack ==
    ASSUME NEW ver, NEW rolled, NEW mask, rolled \subseteq mask
    PROVE  (ver \ mask) \cup ((ver \cup rolled) \cap mask) = ver \cup rolled
  OBVIOUS

LEMMA NanoRebuilt ==
    ASSUME HeaderInv
    PROVE  Nano3sSharesRebuilt
  <1> SUFFICES ASSUME board = "nano3s", submitted # NoValue, job.size = MaxSize
               PROVE  Rebuilt = hashed
    BY DEF Nano3sSharesRebuilt
  <1>1. FoundByNano3s(hashed, share) /\ submitted = IF job.src = "v1" THEN SubmitV1 ELSE SubmitV2
    BY DEF HeaderInv
  <1>2. PICK low \in 0..(Byte^Half - 1), high \in 0..(Byte^Half - 1),
             vmask \in Vmasks(RollOf), n \in Nonces :
            FoundWith(hashed, share, BaseOf \cup vmask,
                      SplicedEn2(LeBytes(low, Half), LeBytes(high, Half)),
                      NewEn2(high * Byte^Half + low, MaxSize), Swap(n), n)
    BY <1>1, Zenon DEF FoundByNano3s
  <1> DEFINE v == high * Byte^Half + low
  <1>3. NewEn2(v, MaxSize) = [value |-> v, size |-> MaxSize]
        /\ SplicedEn2(LeBytes(low, Half), LeBytes(high, Half)) = LeBytes(v, MaxSize)
    BY BytesOfHalves
  <1> HIDE DEF v
  <1>4. hashed = Header(BaseOf \cup vmask, LeBytes(v, MaxSize), Swap(n))
        /\ share = [version |-> BaseOf \cup vmask, en2 |-> [value |-> v, size |-> MaxSize], nonce |-> n]
    BY <1>2, <1>3 DEF FoundWith, Found, v
  <1>5. share.en2.value = v /\ share.en2.size = MaxSize /\ share.nonce = n
        /\ share.version = BaseOf \cup vmask
    BY <1>4
  <1>6. CASE job.src = "v1"
    <2>1. submitted.en2 = En2Bytes(share.en2) /\ submitted.nonce = Swap(n)
          /\ submitted.version = SubmittedVersion(share)
      BY <1>1, <1>5, <1>6 DEF SubmitV1, SubmittedNonce
    <2>2. submitted.en2 = LeBytes(v, MaxSize)
      BY <2>1, <1>5 DEF En2Bytes
    <2>3. BaseOf = job.ver
      BY <1>6 DEF BaseOf
    <2>4. submitted.version = BaseOf \cup vmask
      BY <1>5, <1>6, <2>1, <2>3, RolledInMask, VersionBack DEF SubmittedVersion
    <2> QED BY <1>4, <2>1, <2>2, <2>4 DEF Rebuilt
  <1>7. CASE job.src # "v1"
    <2>1. submitted.en2 = [i \in 1..job.size |->
                              IF i <= share.en2.size THEN LeBytes(share.en2.value, MaxSize)[i] ELSE 0]
          /\ submitted.nonce = Swap(n) /\ submitted.version = BaseOf \cup vmask
      BY <1>1, <1>5, <1>7 DEF SubmitV2
    <2>2. MaxSize \in 1..MaxSize
      BY HalfFacts
    <2>3. submitted.en2 = LeBytes(v, MaxSize)
      BY <1>5, <2>1, <2>2, SubmittedBytes
    <2> QED BY <1>4, <2>1, <2>3 DEF Rebuilt
  <1> QED BY <1>6, <1>7

LEMMA OthersRebuilt ==
    ASSUME HeaderInv
    PROVE  OtherSharesRebuilt
  <1> SUFFICES ASSUME board # "nano3s", submitted # NoValue
               PROVE  /\ Rebuilt.root = hashed.root /\ Rebuilt.nonce = Swap(hashed.nonce)
                      /\ (board = "cpu" \/ job.src = "v2" \/ (job.mask # NoValue /\ Region \subseteq job.mask))
                            => Rebuilt.version = hashed.version
    BY DEF OtherSharesRebuilt
  <1>1. /\ board = "cpu" => FoundByCpu(hashed, share)
        /\ board # "cpu" => FoundByBm13xx(hashed, share)
        /\ submitted = IF job.src = "v1" THEN SubmitV1 ELSE SubmitV2
        /\ job.src \in {"v1", "v2"} /\ job.size \in 1..MaxSize
    BY DEF HeaderInv
  <1>2. PICK rolled, n : \E value \in 0..MaxForSize(job.size) :
            /\ FoundWith(hashed, share, BaseOf \cup rolled, En2Bytes(NewEn2(value, job.size)),
                         NewEn2(value, job.size), n, n)
            /\ IF board = "cpu" THEN rolled = {} ELSE rolled \subseteq Region
    <2>1. CASE board = "cpu"
      <3>1. PICK value \in 0..MaxForSize(job.size), n \in Nonces :
                FoundWith(hashed, share, BaseOf, En2Bytes(NewEn2(value, job.size)),
                          NewEn2(value, job.size), n, n)
        BY <1>1, <2>1, Zenon DEF FoundByCpu
      <3>2. BaseOf \cup {} = BaseOf
        OBVIOUS
      <3> QED BY <2>1, <3>1, <3>2
    <2>2. CASE board # "cpu"
      <3>1. PICK value \in 0..MaxForSize(job.size), gp \in SUBSET GpBits, n \in Nonces :
                FoundWith(hashed, share, ApplyTo(gp, BaseOf), En2Bytes(NewEn2(value, job.size)),
                          NewEn2(value, job.size), n, n)
        BY <1>1, <2>2, Zenon DEF FoundByBm13xx
      <3>2. ApplyTo(gp, BaseOf) = BaseOf \cup {b + GpLow : b \in gp}
        BY DEF ApplyTo
      <3>3. {b + GpLow : b \in gp} \subseteq Region
        BY JobDataConstants DEF GpBits, Region
      <3> QED BY <2>2, <3>1, <3>2, <3>3
    <2> QED BY <2>1, <2>2
  <1>10. PICK value \in 0..MaxForSize(job.size) :
            /\ FoundWith(hashed, share, BaseOf \cup rolled, En2Bytes(NewEn2(value, job.size)),
                         NewEn2(value, job.size), n, n)
            /\ IF board = "cpu" THEN rolled = {} ELSE rolled \subseteq Region
    BY <1>2
  <1>3. NewEn2(value, job.size) = [value |-> value, size |-> job.size]
    <2>1. job.size \in Nat /\ MaxSize \in Nat /\ MaxForSize(job.size) \in Nat
      BY <1>1, HalfFacts, WordFacts
    <2> QED BY <1>1, <2>1 DEF NewEn2, ValidSize
  <1>4. hashed = Header(BaseOf \cup rolled, LeBytes(value, job.size), n)
        /\ share = [version |-> BaseOf \cup rolled, en2 |-> [value |-> value, size |-> job.size],
                    nonce |-> n]
    BY <1>10, <1>3 DEF FoundWith, Found, En2Bytes
  <1>5. share.en2.value = value /\ share.en2.size = job.size /\ share.version = BaseOf \cup rolled
        /\ share.nonce = n
    BY <1>4
  <1>6. hashed.root = MerkleRoot(Coinbase, LeBytes(value, job.size))
        /\ hashed.version = BaseOf \cup rolled /\ hashed.nonce = n
    BY <1>4 DEF Header
  <1>7. Rebuilt.root = MerkleRoot(Coinbase, submitted.en2) /\ Rebuilt.version = submitted.version
        /\ Rebuilt.nonce = submitted.nonce
    BY DEF Rebuilt, Header
  <1>11. submitted.nonce = Swap(n)
    <2>1. CASE job.src = "v1"
      BY <1>1, <1>5, <2>1 DEF SubmitV1, SubmittedNonce
    <2>2. CASE job.src # "v1"
      BY <1>1, <1>5, <2>2 DEF SubmitV2
    <2> QED BY <2>1, <2>2
  <1>12. Rebuilt.nonce = Swap(hashed.nonce)
    BY <1>6, <1>7, <1>11, Zenon
  <1>8. CASE job.src = "v1"
    <2>1. submitted.en2 = LeBytes(value, job.size) /\ submitted.version = SubmittedVersion(share)
      BY <1>1, <1>5, <1>8 DEF SubmitV1, En2Bytes
    <2>2. BaseOf = job.ver
      BY <1>8 DEF BaseOf
    <2>3. (board = "cpu" \/ (job.mask # NoValue /\ Region \subseteq job.mask))
              => submitted.version = BaseOf \cup rolled
      <3>1. CASE rolled = {} /\ job.mask = NoValue
        BY <1>5, <2>1, <2>2, <3>1 DEF SubmittedVersion
      <3>2. CASE rolled \subseteq job.mask /\ job.mask # NoValue
        BY <1>5, <2>1, <2>2, <3>2, VersionBack DEF SubmittedVersion
      <3> QED BY <1>10, <3>1, <3>2
    <2> QED BY <1>6, <1>7, <1>8, <1>12, <2>1, <2>3
  <1>9. CASE job.src # "v1"
    <2>1. submitted.en2 = [i \in 1..job.size |->
                              IF i <= share.en2.size THEN LeBytes(share.en2.value, MaxSize)[i] ELSE 0]
          /\ submitted.version = BaseOf \cup rolled
      BY <1>1, <1>5, <1>9 DEF SubmitV2
    <2>2. submitted.en2 = LeBytes(value, job.size)
      BY <1>1, <1>5, <2>1, SubmittedBytes
    <2> QED BY <1>6, <1>7, <1>12, <2>1, <2>2
  <1> QED BY <1>8, <1>9

\* Which header the pool rebuilds, through the bits a board rolled and the byte
\* swaps on the way, for words of any width and any version, mask, nonce and
\* size of extranonce2: the one a Nano 3S hashed, and one with the nonce of a
\* CPU or BM13xx share read backwards (stratum_v1.rs:403, nano3s.rs:768).
THEOREM SharesStayRebuilt == HeaderSpec => []SharesRebuilt
  <1>1. HeaderInit => HeaderInv
    BY HeaderInvStarts
  <1>2. HeaderInv /\ [HeaderNext]_headerVars => HeaderInv'
    <2> SUFFICES ASSUME HeaderInv, [HeaderNext]_headerVars PROVE HeaderInv'
      OBVIOUS
    <2>1. CASE UNCHANGED headerVars
      <3>1. UNCHANGED <<board, job, template, hashed, share, submitted>>
        BY <2>1 DEF headerVars
      <3>2. UNCHANGED <<BaseOf, RollOf, SubmitV1, SubmitV2, FoundByBm13xx(hashed, share),
                        FoundByCpu(hashed, share), FoundByNano3s(hashed, share)>>
        BY <3>1 DEF BaseOf, RollOf, SubmitV1, SubmitV2, SubmittedVersion, SubmittedNonce,
                    FoundByBm13xx, FoundByCpu, FoundByNano3s
      <3> QED BY <3>1, <3>2 DEF HeaderInv
    <2> QED BY <2>1, MakeTemplateFits, HashFits, SubmitFits DEF HeaderNext
  <1>3. HeaderInv => SharesRebuilt
    BY NanoRebuilt, OthersRebuilt DEF SharesRebuilt
  <1> QED BY <1>1, <1>2, <1>3, PTL DEF HeaderSpec
=============================================================================
