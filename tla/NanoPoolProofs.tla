--------------------------- MODULE NanoPoolProofs ---------------------------
(***************************************************************************)
(* Proofs about StratumV2 and NanoPool: what the scheduler of the device   *)
(* sees is a JobSource, the pool knows the work it has given out, and the  *)
(* device builds every job on its own tip.                                 *)
(*                                                                         *)
(* JobSource.  A device that is not connected has taken all its jobs back  *)
(* with a ClearJobs at the end of its events (SessionInv).                 *)
(*                                                                         *)
(* Known work.  The known jobs are the last ones, in order (Numbered), and *)
(* those given since the channel opened have its prefix (PrefixInv).  A tip *)
(* and a job that meet in a share fit: the tip is past or the pool can judge *)
(* the two.  That has to hold of the messages in the order in which they   *)
(* reach the device (MsgInv), and of the work on its way back (WorkInv).   *)
(*                                                                         *)
(* Tips.  A job sent to be worked on at once is read when the device's tip *)
(* is that of the job: the last tip sent before it is the job's own.  Shows *)
(* says so of a queue, Steady of the broadcast (QueueTips), InTime of device, *)
(* connection and broadcast together (LineTips).  It starts with the initial *)
(* job, until which the device has no tip and no job (Quiet), because the  *)
(* handshake opens a channel once (Handshake).                             *)
(***************************************************************************)
EXTENDS NanoPool, SequenceTheorems, TLAPS

-----------------------------------------------------------------------------
(* Lemmas about queues.                                                    *)

Elems(s) == {s[i] : i \in DOMAIN s}

\* An a stands somewhere ahead of a b.
Ahead(s, a, b) == \E i, k \in DOMAIN s : i < k /\ s[i] = a /\ s[k] = b

LEMMA EmptyQueue == Elems(<<>>) = {} /\ \A a, b : ~Ahead(<<>>, a, b)
BY DEF Elems, Ahead

LEMMA AppendQueue ==
    ASSUME NEW S, NEW s \in Seq(S), NEW x \in S
    PROVE  /\ Append(s, x) \in Seq(S) /\ Append(s, x) # <<>>
           /\ Elems(Append(s, x)) = Elems(s) \cup {x}
           /\ \A a, b : Ahead(Append(s, x), a, b) => Ahead(s, a, b) \/ (a \in Elems(s) /\ b = x)
<1> DEFINE u == Append(s, x)
           n == Len(s)
<1>1. /\ u \in Seq(S) /\ u # <<>> /\ n \in Nat /\ DOMAIN s = 1..n /\ DOMAIN u = 1..(n + 1)
      /\ \A i \in DOMAIN s : u[i] = s[i]
      /\ u[n + 1] = x
  OBVIOUS
<1> HIDE DEF u, n
<1>2. Elems(u) = Elems(s) \cup {x}
  BY <1>1 DEF Elems
<1>3. ASSUME NEW a, NEW b, Ahead(u, a, b) PROVE Ahead(s, a, b) \/ (a \in Elems(s) /\ b = x)
  <2>1. PICK i \in DOMAIN u, k \in DOMAIN u : i < k /\ u[i] = a /\ u[k] = b
    BY <1>3 DEF Ahead
  <2>2. i \in DOMAIN s /\ s[i] = a
    BY <1>1, <2>1
  <2>3. CASE k = n + 1
    BY <1>1, <2>1, <2>2, <2>3 DEF Elems
  <2>4. CASE k # n + 1
    <3>1. k \in DOMAIN s /\ s[k] = b
      BY <1>1, <2>1, <2>4
    <3> QED BY <2>1, <2>2, <3>1 DEF Ahead
  <2> QED BY <2>3, <2>4
<1>4. \A a, b : Ahead(u, a, b) => Ahead(s, a, b) \/ (a \in Elems(s) /\ b = x)
  BY <1>3
<1> QED BY <1>1, <1>2, <1>4 DEF u

LEMMA TailQueue ==
    ASSUME NEW S, NEW s \in Seq(S), s # <<>>
    PROVE  /\ Tail(s) \in Seq(S) /\ Head(s) \in S
           /\ Elems(s) = Elems(Tail(s)) \cup {Head(s)}
           /\ \A a, b : Ahead(Tail(s), a, b) => Ahead(s, a, b)
           /\ \A b \in Elems(Tail(s)) : Ahead(s, Head(s), b)
<1> DEFINE u == Tail(s)
           n == Len(s)
<1>1. /\ u \in Seq(S) /\ n \in Nat /\ n # 0 /\ DOMAIN s = 1..n /\ DOMAIN u = 1..(n - 1)
      /\ \A i \in DOMAIN u : u[i] = s[i + 1]
      /\ s[1] = Head(s) /\ Head(s) \in S
  OBVIOUS
<1> HIDE DEF u, n
<1>2. \A i \in DOMAIN u : i + 1 \in DOMAIN s /\ 1 < i + 1 /\ u[i] = s[i + 1]
  BY <1>1
<1>3. 1 \in DOMAIN s /\ \A i \in DOMAIN s : i = 1 \/ \E k \in DOMAIN u : i = k + 1
  <2>1. ASSUME NEW i \in DOMAIN s, i # 1 PROVE i - 1 \in DOMAIN u /\ i = (i - 1) + 1
    BY <1>1, <2>1
  <2>2. 1 \in DOMAIN s
    BY <1>1
  <2> QED BY <2>1, <2>2
<1>4. Elems(s) = Elems(u) \cup {Head(s)}
  <2>1. ASSUME NEW x \in Elems(s) PROVE x \in Elems(u) \cup {Head(s)}
    <3>1. PICK i \in DOMAIN s : x = s[i]
      BY DEF Elems
    <3>2. i = 1 \/ \E k \in DOMAIN u : i = k + 1
      BY <1>3
    <3> QED BY <1>1, <1>2, <3>1, <3>2 DEF Elems
  <2>2. ASSUME NEW x \in Elems(u) PROVE x \in Elems(s)
    BY <1>2 DEF Elems
  <2>3. Head(s) \in Elems(s)
    BY <1>1, <1>3 DEF Elems
  <2> QED BY <2>1, <2>2, <2>3
<1>5. ASSUME NEW a, NEW b, Ahead(u, a, b) PROVE Ahead(s, a, b)
  <2>1. PICK i \in DOMAIN u, k \in DOMAIN u : i < k /\ u[i] = a /\ u[k] = b
    BY <1>5 DEF Ahead
  <2>2. i + 1 \in DOMAIN s /\ k + 1 \in DOMAIN s /\ i + 1 < k + 1 /\ s[i + 1] = a /\ s[k + 1] = b
    BY <1>1, <1>2, <2>1
  <2> QED BY <2>2 DEF Ahead
<1>6. ASSUME NEW b \in Elems(u) PROVE Ahead(s, Head(s), b)
  BY <1>1, <1>2, <1>3 DEF Elems, Ahead
<1> QED BY <1>1, <1>4, <1>5, <1>6 DEF u

LEMMA LastOne ==
    ASSUME NEW S, NEW s \in Seq(S), s # <<>>, Tail(s) = <<>> PROVE Len(s) = 1
<1> DEFINE n == Len(s)
           t == Tail(s)
<1>1. n \in Nat /\ n # 0 /\ DOMAIN t = 1..(n - 1)
  OBVIOUS
<1>2. DOMAIN t = {}
  OBVIOUS
<1> HIDE DEF n, t
<1>3. n - 1 \notin 1..(n - 1)
  BY <1>1, <1>2
<1>4. n = 1
  BY <1>1, <1>3
<1> QED BY <1>4 DEF n

\* The end of a queue, from behind its first n elements.
LEMMA EndOfQueue ==
    ASSUME NEW S, NEW s \in Seq(S), NEW n \in Nat, n <= Len(s)
    PROVE  LET u == SubSeq(s, n + 1, Len(s))
           IN  /\ u \in Seq(S) /\ Elems(u) \subseteq Elems(s)
               /\ \A a, b : Ahead(u, a, b) => Ahead(s, a, b)
               /\ Len(u) = Len(s) - n
               /\ \A i \in DOMAIN u : i + n \in DOMAIN s /\ u[i] = s[i + n]
               /\ \A i \in DOMAIN s : i > n => i - n \in DOMAIN u /\ u[i - n] = s[i]
<1> DEFINE u == SubSeq(s, n + 1, Len(s))
           m == Len(s)
<1>1. u \in Seq(S) /\ m \in Nat /\ DOMAIN s = 1..m /\ Len(u) = m - n /\ DOMAIN u = 1..(m - n)
  OBVIOUS
<1>2. \A i \in 1..(m - n) : u[i] = s[i + n]
  OBVIOUS
<1>3. Len(u) = Len(s) - n
  BY <1>1
<1> HIDE DEF u, m
<1>4. \A i \in DOMAIN u : i \in Nat /\ i + n \in DOMAIN s /\ u[i] = s[i + n]
  BY <1>1, <1>2
<1>5. Elems(u) \subseteq Elems(s)
  BY <1>4 DEF Elems
<1>6. ASSUME NEW a, NEW b, Ahead(u, a, b) PROVE Ahead(s, a, b)
  <2>1. PICK i \in DOMAIN u, k \in DOMAIN u : i < k /\ u[i] = a /\ u[k] = b
    BY <1>6 DEF Ahead
  <2>2. i + n \in DOMAIN s /\ k + n \in DOMAIN s /\ i + n < k + n /\ s[i + n] = a /\ s[k + n] = b
    BY <1>4, <2>1
  <2> QED BY <2>2 DEF Ahead
<1>7. \A i \in DOMAIN s : i > n => i - n \in DOMAIN u /\ u[i - n] = s[i]
  <2> SUFFICES ASSUME NEW i \in DOMAIN s, i > n PROVE i - n \in DOMAIN u /\ u[i - n] = s[i]
    OBVIOUS
  <2>1. i - n \in DOMAIN u /\ (i - n) + n = i
    BY <1>1
  <2> QED BY <1>4, <2>1
<1> QED BY <1>1, <1>3, <1>4, <1>5, <1>6, <1>7 DEF u

LEMMA ConcatOne ==
    ASSUME NEW S, NEW s \in Seq(S), NEW x \in S PROVE s \o <<x>> = Append(s, x)
OBVIOUS

LEMMA ConcatTwo ==
    ASSUME NEW S, NEW s \in Seq(S), NEW x \in S, NEW y \in S
    PROVE  s \o <<x, y>> = Append(Append(s, x), y)
OBVIOUS
-----------------------------------------------------------------------------
(* Types.                                                                  *)

OptDiff    == Diffs \cup {None}
Works      == [id : Nat, tip : Nat, diff : OptDiff, ses : Nat]
Found      == [id : Nat, tip : Nat, q : Diffs \cup {Block}]
Offers     == [type : {"update", "replace"}, job : Works] \cup [type : {"clear"}]
Requests   == [type : {"setup", "open"}] \cup [type : {"share"}, share : Found]
Replies    == [type : {"setupOk", "success", "error"}]
Broadcasts == [type : {"target"}, diff : Diffs] \cup [type : {"job"}, id : Nat, future : BOOLEAN]
              \cup [type : {"prev"}, id : Nat, tip : Nat]
Messages   == Replies \cup [type : {"opened"}, diff : Diffs] \cup Broadcasts

DeviceTypes ==
    /\ dev \in {"wait", "connect", "run", "backoff"} /\ ses \in Nat /\ channel \in BOOLEAN
    /\ target \in OptDiff /\ (channel => target # None) /\ prev \in Nat \cup {None}
    /\ cmds \in Seq(Found) /\ evts \in Seq(Offers) /\ held \subseteq Works

LinkTypes ==
    /\ up \in Seq(Requests) /\ down \in Seq(Messages) /\ alive \in BOOLEAN /\ budget \in LimitType

PoolTypes ==
    /\ node \in [n : Nat, tip : Nat]
    /\ active \in Jobs \cup {None} /\ past \in Seq(Jobs) /\ nextId \in Nat
    /\ lastPrev \in Nat \cup {None} /\ diff \in Diffs /\ queue \in Seq(Broadcasts)
    /\ firstId \in Nat \cup {None}

HandlerTypes ==
    /\ handler \in {"idle", "initial", "vardiff", "answer", "gone"}
    /\ answer \in {None, "success", "error"}
    /\ (answer # None <=> handler \in {"vardiff", "answer"})
    /\ setup \in BOOLEAN /\ open \in BOOLEAN /\ lagged \in BOOLEAN /\ refused \in BOOLEAN

NanoTypes == DeviceTypes /\ LinkTypes /\ PoolTypes /\ HandlerTypes

\* The channel is open for whoever uses it, and then there is a job.
OpenInv ==
    /\ alive <=> handler # "gone"
    /\ open => alive /\ active # None /\ firstId # None
    /\ alive /\ channel => open
    /\ alive => \A m \in Elems(down) : m.type = "opened" => open
    /\ alive => \A m \in Elems(up) : m.type = "share" => open
    /\ handler \in {"initial", "vardiff"} => open

LEMMA MadeTypes ==
    /\ \A w \in Works : /\ [type |-> "update", job |-> w] \in Offers
                        /\ [type |-> "replace", job |-> w] \in Offers
    /\ [type |-> "clear"] \in Offers
    /\ [type |-> "setup"] \in Requests /\ [type |-> "open"] \in Requests
    /\ \A s \in Found : [type |-> "share", share |-> s] \in Requests
    /\ [type |-> "setupOk"] \in Messages
    /\ [type |-> "success"] \in Messages /\ [type |-> "error"] \in Messages
    /\ \A d \in Diffs : [type |-> "opened", diff |-> d] \in Messages
    /\ Broadcasts \subseteq Messages
<1>1. /\ \A w \in Works : /\ [type |-> "update", job |-> w] \in Offers
                          /\ [type |-> "replace", job |-> w] \in Offers
      /\ [type |-> "clear"] \in Offers
  BY DEF Offers
<1>2. /\ [type |-> "setup"] \in Requests /\ [type |-> "open"] \in Requests
      /\ \A s \in Found : [type |-> "share", share |-> s] \in Requests
  BY DEF Requests
<1>3. /\ [type |-> "setupOk"] \in Messages
      /\ [type |-> "success"] \in Messages /\ [type |-> "error"] \in Messages
      /\ \A d \in Diffs : [type |-> "opened", diff |-> d] \in Messages
      /\ Broadcasts \subseteq Messages
  BY DEF Messages, Replies
<1> QED BY <1>1, <1>2, <1>3

\* What the pool broadcasts about a job.
LEMMA JobMessages ==
    ASSUME NEW j, j.id \in Nat, j.tip \in Nat
    PROVE  /\ JobMsg(j, TRUE) \in Broadcasts /\ JobMsg(j, FALSE) \in Broadcasts
           /\ JobMsg(j, TRUE).type = "job" /\ JobMsg(j, TRUE).id = j.id
           /\ JobMsg(j, FALSE).type = "job" /\ JobMsg(j, FALSE).id = j.id
           /\ PrevMsg(j) \in Broadcasts
           /\ PrevMsg(j).type = "prev" /\ PrevMsg(j).id = j.id /\ PrevMsg(j).tip = j.tip
<1>1. JobMsg(j, TRUE) \in Broadcasts /\ JobMsg(j, TRUE).type = "job" /\ JobMsg(j, TRUE).id = j.id
  BY DEF JobMsg, Broadcasts
<1>2. JobMsg(j, FALSE) \in Broadcasts /\ JobMsg(j, FALSE).type = "job" /\ JobMsg(j, FALSE).id = j.id
  BY DEF JobMsg, Broadcasts
<1>3. /\ PrevMsg(j) \in Broadcasts
      /\ PrevMsg(j).type = "prev" /\ PrevMsg(j).id = j.id /\ PrevMsg(j).tip = j.tip
  BY DEF PrevMsg, Broadcasts
<1> QED BY <1>1, <1>2, <1>3

LEMMA TargetMessage ==
    ASSUME NEW d \in Diffs PROVE TargetMsg(d) \in Broadcasts /\ TargetMsg(d).type = "target"
BY DEF TargetMsg, Broadcasts

LEMMA MessageKinds ==
    ASSUME NEW m \in Messages
    PROVE  /\ m.type \in {"setupOk", "success", "error", "opened", "target", "job", "prev"}
           /\ m.type \in {"opened", "target"} => m.diff \in Diffs
           /\ m.type = "job" => m.id \in Nat
           /\ m.type = "prev" => m.id \in Nat /\ m.tip \in Nat
<1>1. CASE m \in Broadcasts
  BY <1>1 DEF Broadcasts
<1>2. CASE m \notin Broadcasts
  BY <1>2 DEF Messages, Replies
<1> QED BY <1>1, <1>2

LEMMA OfferKinds ==
    ASSUME NEW e \in Offers
    PROVE  e.type \in {"update", "replace", "clear"} /\ (e.type # "clear" => e.job \in Works)
BY DEF Offers

LEMMA RequestKinds ==
    ASSUME NEW m \in Requests
    PROVE  m.type \in {"setup", "open", "share"} /\ (m.type = "share" => m.share \in Found)
BY DEF Requests

-----------------------------------------------------------------------------
(* What the steps do to the parts they touch.                              *)

LEMMA UseType ==
    ASSUME budget \in LimitType,
           NEW what \in {"connections", "templates", "tips", "shares", "windows"}, Use(what)
    PROVE  budget' \in LimitType
<1>1. CASE what = "connections"
  BY <1>1 DEF Use, LimitType
<1>2. CASE what = "templates"
  BY <1>2 DEF Use, LimitType
<1>3. CASE what = "tips"
  BY <1>3 DEF Use, LimitType
<1>4. CASE what = "shares"
  BY <1>4 DEF Use, LimitType
<1>5. CASE what = "windows"
  BY <1>5 DEF Use, LimitType
<1> QED BY <1>1, <1>2, <1>3, <1>4, <1>5

\* A broadcast puts its messages behind the queue, of which it keeps the end.
LEMMA BroadcastOne ==
    ASSUME queue \in Seq(Broadcasts), budget \in LimitType, NEW x \in Broadcasts, Broadcast(<<x>>)
    PROVE  /\ queue' \in Seq(Broadcasts) /\ Elems(queue') \subseteq Elems(queue) \cup {x}
           /\ \A a, b : Ahead(queue', a, b) => Ahead(queue, a, b) \/ (a \in Elems(queue) /\ b = x)
<1> DEFINE all == Append(queue, x)
           over == IF Len(all) > budget.cap THEN Len(all) - budget.cap ELSE 0
<1>1. /\ all \in Seq(Broadcasts) /\ Elems(all) = Elems(queue) \cup {x}
      /\ \A a, b : Ahead(all, a, b) => Ahead(queue, a, b) \/ (a \in Elems(queue) /\ b = x)
  BY AppendQueue
<1>2. queue \o <<x>> = all
  BY ConcatOne
<1>3. queue' = queue \/ queue' = SubSeq(all, over + 1, Len(all))
  BY <1>2 DEF Broadcast
<1>4. over \in Nat /\ over <= Len(all)
  <2> DEFINE n == Len(all)
  <2>1. n \in Nat /\ budget.cap \in Nat
    BY <1>1 DEF LimitType
  <2> HIDE DEF n
  <2> QED BY <2>1 DEF n
<1> HIDE DEF all, over
<1>5. LET u == SubSeq(all, over + 1, Len(all))
      IN  /\ u \in Seq(Broadcasts) /\ Elems(u) \subseteq Elems(all)
          /\ \A a, b : Ahead(u, a, b) => Ahead(all, a, b)
  BY <1>1, <1>4, EndOfQueue, Zenon
<1>6. CASE queue' = queue
  BY <1>6
<1>7. CASE queue' = SubSeq(all, over + 1, Len(all))
  <2>1. /\ queue' \in Seq(Broadcasts) /\ Elems(queue') \subseteq Elems(all)
        /\ \A a, b : Ahead(queue', a, b) => Ahead(all, a, b)
    BY <1>5, <1>7
  <2> QED BY <1>1, <2>1
<1> QED BY <1>3, <1>6, <1>7

LEMMA BroadcastTwo ==
    ASSUME queue \in Seq(Broadcasts), budget \in LimitType,
           NEW x \in Broadcasts, NEW y \in Broadcasts, Broadcast(<<x, y>>)
    PROVE  /\ queue' \in Seq(Broadcasts) /\ Elems(queue') \subseteq Elems(queue) \cup {x, y}
           /\ \A a, b : Ahead(queue', a, b) =>
                \/ Ahead(queue, a, b)
                \/ a \in Elems(queue) /\ b = x
                \/ a \in Elems(queue) \cup {x} /\ b = y
<1> DEFINE one == Append(queue, x)
           all == Append(one, y)
           over == IF Len(all) > budget.cap THEN Len(all) - budget.cap ELSE 0
<1>1. /\ one \in Seq(Broadcasts) /\ Elems(one) = Elems(queue) \cup {x}
      /\ \A a, b : Ahead(one, a, b) => Ahead(queue, a, b) \/ (a \in Elems(queue) /\ b = x)
  BY AppendQueue
<1>2. queue \o <<x, y>> = all
  BY ConcatTwo
<1> HIDE DEF one
<1>3. /\ all \in Seq(Broadcasts) /\ Elems(all) = Elems(one) \cup {y}
      /\ \A a, b : Ahead(all, a, b) => Ahead(one, a, b) \/ (a \in Elems(one) /\ b = y)
  BY <1>1, AppendQueue
<1>4. queue' = queue \/ queue' = SubSeq(all, over + 1, Len(all))
  BY <1>2 DEF Broadcast
<1>5. over \in Nat /\ over <= Len(all)
  <2> DEFINE n == Len(all)
  <2>1. n \in Nat /\ budget.cap \in Nat
    BY <1>3 DEF LimitType
  <2> HIDE DEF n
  <2> QED BY <2>1 DEF n
<1> HIDE DEF all, over
<1>6. LET u == SubSeq(all, over + 1, Len(all))
      IN  /\ u \in Seq(Broadcasts) /\ Elems(u) \subseteq Elems(all)
          /\ \A a, b : Ahead(u, a, b) => Ahead(all, a, b)
  BY <1>3, <1>5, EndOfQueue, Zenon
<1>7. CASE queue' = queue
  BY <1>7
<1>8. CASE queue' = SubSeq(all, over + 1, Len(all))
  <2>1. /\ queue' \in Seq(Broadcasts) /\ Elems(queue') \subseteq Elems(all)
        /\ \A a, b : Ahead(queue', a, b) => Ahead(all, a, b)
    BY <1>6, <1>8
  <2> QED BY <1>1, <1>3, <2>1
<1> QED BY <1>4, <1>7, <1>8
LEMMA TakeCases ==
    ASSUME evts \in Seq(Offers), SchedulerTakes
    PROVE  LET e == Head(evts)
           IN  /\ evts # <<>> /\ evts' = Tail(evts) /\ evts' \in Seq(Offers)
               /\ e \in Offers /\ Elems(evts) = Elems(evts') \cup {e}
               /\ e.type \in {"update", "replace", "clear"}
               /\ e.type = "clear" => held' = {}
               /\ e.type = "update" => e.job \in Works /\ held' = held \cup {e.job}
               /\ e.type = "replace" => e.job \in Works /\ held' = {e.job}
<1> DEFINE e == Head(evts)
<1>1. /\ evts # <<>> /\ evts' = Tail(evts)
      /\ held' = CASE e.type = "update"  -> held \cup {e.job}
                   [] e.type = "replace" -> {e.job}
                   [] e.type = "clear"   -> {}
  BY DEF SchedulerTakes
<1>2. Tail(evts) \in Seq(Offers) /\ e \in Offers /\ Elems(evts) = Elems(Tail(evts)) \cup {e}
  BY <1>1, TailQueue
<1> HIDE DEF e
<1>3. e.type \in {"update", "replace", "clear"} /\ (e.type # "clear" => e.job \in Works)
  BY <1>2, OfferKinds
<1>4. /\ e.type = "clear" => held' = {}
      /\ e.type = "update" => e.job \in Works /\ held' = held \cup {e.job}
      /\ e.type = "replace" => e.job \in Works /\ held' = {e.job}
  BY <1>1, <1>3
<1> QED BY <1>1, <1>2, <1>3, <1>4 DEF e

LEMMA SubmitCases ==
    ASSUME NanoTypes, SchedulerSubmits
    PROVE  /\ \E j \in held, s \in Found : /\ cmds' = Append(cmds, s) /\ s.id = j.id /\ s.tip = j.tip
                                           /\ Elems(cmds') = Elems(cmds) \cup {s}
           /\ cmds' \in Seq(Found) /\ budget' \in LimitType
           /\ UNCHANGED <<dev, ses, channel, target, future, prev, tokens, evts, held, up, down, alive>>
<1>1. PICK j \in held, q \in Diffs \cup {Block} :
          cmds' = Append(cmds, [id |-> j.id, tip |-> j.tip, q |-> q])
  BY DEF SchedulerSubmits
<1> DEFINE s == [id |-> j.id, tip |-> j.tip, q |-> q]
<1>2. s \in Found /\ s.id = j.id /\ s.tip = j.tip
  BY DEF NanoTypes, DeviceTypes, Works, Found
<1>3. cmds \in Seq(Found) /\ budget \in LimitType
  BY DEF NanoTypes, DeviceTypes, LinkTypes
<1>4. cmds' = Append(cmds, s)
  BY <1>1
<1> HIDE DEF s
<1>5. cmds' \in Seq(Found) /\ Elems(cmds') = Elems(cmds) \cup {s}
  BY <1>2, <1>3, <1>4, AppendQueue
<1>6. Use("shares")
  BY DEF SchedulerSubmits
<1>7. budget' \in LimitType
  BY <1>3, <1>6, UseType
<1>8. UNCHANGED <<dev, ses, channel, target, future, prev, tokens, evts, held, up, down, alive>>
  BY DEF SchedulerSubmits
<1> QED BY <1>2, <1>4, <1>5, <1>7, <1>8

\* What a message does to the device.
LEMMA ReadCases ==
    ASSUME NanoTypes, DeviceReads
    PROVE  LET m == Head(down)
           IN  /\ dev = "run" /\ down # <<>> /\ down' = Tail(down) /\ m \in Messages
               /\ UNCHANGED <<dev, ses, tokens, cmds, held, alive, budget>>
               /\ \/ up' = up
                  \/ m.type = "setupOk" /\ up' = Append(up, [type |-> "open"])
               /\ prev' = prev \/ (m.type = "prev" /\ prev' = m.tip)
               /\ \/ channel' = channel /\ (target' = target \/ target' \in Diffs)
                  \/ m.type = "opened" /\ channel' = TRUE /\ target' \in Diffs
               /\ \/ evts' = evts
                  \/ \E w \in Works, e \in Offers :
                       /\ evts' = Append(evts, e) /\ e.type # "clear" /\ e.job = w
                       /\ w.ses = ses /\ w.id = m.id
                       /\ \/ m.type = "job" /\ prev # None /\ w.tip = prev
                          \/ m.type = "prev" /\ w.tip = m.tip
<1> DEFINE m == Head(down)
           Result == /\ \/ up' = up
                        \/ m.type = "setupOk" /\ up' = Append(up, [type |-> "open"])
                     /\ prev' = prev \/ (m.type = "prev" /\ prev' = m.tip)
                     /\ \/ channel' = channel /\ (target' = target \/ target' \in Diffs)
                        \/ m.type = "opened" /\ channel' = TRUE /\ target' \in Diffs
                     /\ \/ evts' = evts
                        \/ \E w \in Works, e \in Offers :
                             /\ evts' = Append(evts, e) /\ e.type # "clear" /\ e.job = w
                             /\ w.ses = ses /\ w.id = m.id
                             /\ \/ m.type = "job" /\ prev # None /\ w.tip = prev
                                \/ m.type = "prev" /\ w.tip = m.tip
<1>1. dev = "run" /\ down # <<>> /\ down' = Tail(down)
  BY DEF DeviceReads
<1>2. UNCHANGED <<dev, ses, tokens, cmds, held, alive, budget>>
  BY DEF DeviceReads
<1>3. /\ down \in Seq(Messages) /\ ses \in Nat /\ prev \in Nat \cup {None} /\ target \in OptDiff
  BY DEF NanoTypes, DeviceTypes, LinkTypes
<1>4. m \in Messages
  BY <1>1, <1>3, TailQueue
<1>5. \/ /\ m.type = "setupOk" /\ up' = Append(up, [type |-> "open"])
         /\ UNCHANGED <<channel, target, future, prev, evts>>
      \/ m.type = "opened" /\ channel' = TRUE /\ target' = m.diff /\ UNCHANGED <<future, prev, evts, up>>
      \/ m.type = "job" /\ NewJob(m)
      \/ m.type = "prev" /\ NewPrevHash(m)
      \/ m.type = "target" /\ target' = m.diff /\ UNCHANGED <<channel, future, prev, evts, up>>
      \/ m.type \in {"success", "error"} /\ UNCHANGED <<channel, target, future, prev, evts, up>>
  BY DEF DeviceReads
<1> HIDE DEF m
<1>6. /\ m.type \in {"opened", "target"} => m.diff \in Diffs
      /\ m.type = "job" => m.id \in Nat
      /\ m.type = "prev" => m.id \in Nat /\ m.tip \in Nat
  BY <1>4, MessageKinds
<1>7. ASSUME NEW id \in Nat, NEW tip \in Nat
      PROVE  /\ Template(id, tip) \in Works /\ Template(id, tip).id = id
             /\ Template(id, tip).tip = tip /\ Template(id, tip).ses = ses
  BY <1>3 DEF Template, Works
<1>8. ASSUME NEW w \in Works
      PROVE  /\ [type |-> "update", job |-> w] \in Offers /\ [type |-> "replace", job |-> w] \in Offers
  BY MadeTypes
<1>9. ASSUME m.type = "job" /\ NewJob(m) PROVE Result
  <2>1. UNCHANGED <<channel, target, prev, up>>
    BY <1>9 DEF NewJob
  <2>2. evts' = evts \/ (prev # None /\ evts' = Append(evts, [type |-> "update", job |-> Template(m.id, prev)]))
    BY <1>9 DEF NewJob
  <2>3. CASE evts' = evts
    BY <2>1, <2>3
  <2>4. CASE prev # None /\ evts' = Append(evts, [type |-> "update", job |-> Template(m.id, prev)])
    <3> DEFINE w == Template(m.id, prev)
               e == [type |-> "update", job |-> w]
    <3>1. w \in Works /\ w.id = m.id /\ w.tip = prev /\ w.ses = ses
      BY <1>3, <1>6, <1>7, <1>9, <2>4
    <3> HIDE DEF w
    <3>2. e \in Offers /\ e.type # "clear" /\ e.job = w
      BY <1>8, <3>1
    <3>3. evts' = Append(evts, e)
      BY <2>4 DEF w
    <3> HIDE DEF e
    <3> QED BY <1>9, <2>1, <2>4, <3>1, <3>2, <3>3, Zenon
  <2> QED BY <2>2, <2>3, <2>4
<1>10. ASSUME m.type = "prev" /\ NewPrevHash(m) PROVE Result
  <2>1. UNCHANGED <<channel, target, up>> /\ prev' = m.tip
    BY <1>10 DEF NewPrevHash
  <2>2. evts' = evts \/ evts' = Append(evts, [type |-> "replace", job |-> Template(m.id, m.tip)])
    BY <1>10 DEF NewPrevHash
  <2>3. CASE evts' = evts
    BY <1>10, <2>1, <2>3
  <2>4. CASE evts' = Append(evts, [type |-> "replace", job |-> Template(m.id, m.tip)])
    <3> DEFINE w == Template(m.id, m.tip)
               e == [type |-> "replace", job |-> w]
    <3>1. w \in Works /\ w.id = m.id /\ w.tip = m.tip /\ w.ses = ses
      BY <1>6, <1>7, <1>10
    <3> HIDE DEF w
    <3>2. e \in Offers /\ e.type # "clear" /\ e.job = w
      BY <1>8, <3>1
    <3>3. evts' = Append(evts, e)
      BY <2>4 DEF w
    <3> HIDE DEF e
    <3> QED BY <1>10, <2>1, <3>1, <3>2, <3>3, Zenon
  <2> QED BY <2>2, <2>3, <2>4
<1>11. Result
  BY <1>5, <1>6, <1>9, <1>10
<1> QED BY <1>1, <1>2, <1>4, <1>11, Zenon DEF m

\* Retain keeps the end of the jobs and the active one.
LEMMA RetainType ==
    ASSUME NEW q \in Seq(Jobs), active \in Jobs \cup {None}
    PROVE  Retain(q) \in Seq(Jobs) /\ (Len(q) <= MaxPast => Len(Retain(q)) <= MaxPast)
<1> DEFINE all == IF active = None THEN q ELSE Append(q, active)
           n == Len(all)
<1>1. all \in Seq(Jobs) /\ n \in Nat /\ MaxPast \in Nat
  BY NanoPoolConstants
<1>2. Retain(q) = IF n > MaxPast THEN SubSeq(all, n - MaxPast + 1, n) ELSE all
  BY DEF Retain
<1>3. CASE n > MaxPast
  <2> DEFINE k == n - MaxPast
  <2>1. k \in Nat /\ k <= Len(all)
    BY <1>1, <1>3
  <2>2. Retain(q) = SubSeq(all, k + 1, Len(all)) /\ n - k = MaxPast
    BY <1>1, <1>2, <1>3
  <2> HIDE DEF all, k
  <2>3. SubSeq(all, k + 1, Len(all)) \in Seq(Jobs) /\ Len(SubSeq(all, k + 1, Len(all))) = Len(all) - k
    BY <1>1, <2>1, EndOfQueue, Zenon
  <2> QED BY <1>1, <2>2, <2>3
<1>4. CASE ~(n > MaxPast)
  <2>1. Retain(q) = all
    BY <1>2, <1>4
  <2> QED BY <1>1, <1>4, <2>1
<1> QED BY <1>3, <1>4
-----------------------------------------------------------------------------
(* The types hold.                                                         *)

\* The steps of the pool leave the device alone.
PoolOnly == NodeChanges \/ Refresh \/ HandlerSteps \/ LinkBreaks

LEMMA PoolFrame == ASSUME PoolOnly PROVE UNCHANGED deviceVars
BY DEF PoolOnly, NodeChanges, Refresh, HandlerSteps, Forward, HandleSetup, HandleOpen, OpenTooEarly,
   PushInitial, HandleShare, HandleVardiff, Answer, LinkBreaks, handlerRest

LEMMA DeviceTypesStep == ASSUME NanoTypes, [NanoNext]_nanoVars PROVE DeviceTypes'
<1>1. DeviceTypes /\ None \notin Diffs
  BY StratumV2Constants DEF NanoTypes
<1>2. ASSUME UNCHANGED deviceVars PROVE DeviceTypes'
  BY <1>1, <1>2 DEF deviceVars, DeviceTypes
<1>3. CASE SchedulerTakes
  <2>1. UNCHANGED <<dev, ses, channel, target, prev, cmds>>
    BY <1>3 DEF SchedulerTakes
  <2>2. evts' \in Seq(Offers) /\ held' \subseteq Works
    <3> DEFINE e == Head(evts)
    <3>1. evts \in Seq(Offers) /\ held \subseteq Works
      BY <1>1 DEF DeviceTypes
    <3>2. /\ evts' \in Seq(Offers) /\ e.type \in {"update", "replace", "clear"}
          /\ e.type = "clear" => held' = {}
          /\ e.type = "update" => e.job \in Works /\ held' = held \cup {e.job}
          /\ e.type = "replace" => e.job \in Works /\ held' = {e.job}
      BY <1>3, <3>1, TakeCases
    <3> HIDE DEF e
    <3> QED BY <3>1, <3>2
  <2> QED BY <1>1, <2>1, <2>2 DEF DeviceTypes
<1>4. CASE SchedulerSubmits
  <2>1. cmds' \in Seq(Found) /\ UNCHANGED <<dev, ses, channel, target, prev, evts, held>>
    BY <1>4, SubmitCases
  <2> QED BY <1>1, <2>1 DEF DeviceTypes
<1>5. CASE DeviceStarts \/ BackoffEnds \/ Refill
  <2>1. /\ dev' \in {dev, "connect"} /\ (cmds' = cmds \/ cmds' = <<>>)
        /\ UNCHANGED <<ses, channel, target, prev, evts, held>>
    BY <1>5 DEF DeviceStarts, BackoffEnds, Refill
  <2>2. <<>> \in Seq(Found)
    OBVIOUS
  <2> QED BY <1>1, <2>1, <2>2 DEF DeviceTypes
<1>6. CASE DeviceLoses
  <2>1. dev' = "backoff" /\ evts' = Append(evts, [type |-> "clear"]) /\ [type |-> "clear"] \in Offers
    BY <1>6, MadeTypes DEF DeviceLoses, ClearJobs
  <2>2. evts' \in Seq(Offers)
    BY <1>1, <2>1, AppendQueue DEF DeviceTypes
  <2> QED BY <1>1, <1>6, <2>1, <2>2 DEF DeviceTypes, DeviceLoses
<1>7. CASE DeviceSubmits
  <2>1. cmds # <<>> /\ cmds' = Tail(cmds) /\ UNCHANGED <<dev, ses, channel, target, prev, evts, held>>
    BY <1>7 DEF DeviceSubmits
  <2>2. cmds' \in Seq(Found)
    BY <1>1, <2>1, TailQueue DEF DeviceTypes
  <2> QED BY <1>1, <2>1, <2>2 DEF DeviceTypes
<1>8. CASE DeviceReads
  <2> DEFINE m == Head(down)
  <2>1. /\ m \in Messages /\ UNCHANGED <<dev, ses, cmds, held>>
        /\ prev' = prev \/ (m.type = "prev" /\ prev' = m.tip)
        /\ \/ channel' = channel /\ (target' = target \/ target' \in Diffs)
           \/ m.type = "opened" /\ channel' = TRUE /\ target' \in Diffs
        /\ evts' = evts \/ \E e \in Offers : evts' = Append(evts, e)
    BY <1>8, ReadCases
  <2> HIDE DEF m
  <2>2. prev' \in Nat \cup {None}
    BY <1>1, <2>1, MessageKinds DEF DeviceTypes
  <2>3. target' \in OptDiff /\ channel' \in BOOLEAN /\ (channel' => target' # None)
    <3>1. target \in OptDiff /\ channel \in BOOLEAN /\ (channel => target # None)
      BY <1>1 DEF DeviceTypes
    <3>2. CASE channel' = channel /\ target' = target
      BY <3>1, <3>2
    <3>3. CASE target' \in Diffs
      <4>1. target' # None /\ target' \in OptDiff
        BY <1>1, <3>3 DEF OptDiff
      <4>2. channel' \in BOOLEAN
        BY <2>1, <3>1
      <4> QED BY <4>1, <4>2
    <3> QED BY <2>1, <3>2, <3>3
  <2>4. evts' \in Seq(Offers)
    <3>1. evts \in Seq(Offers)
      BY <1>1 DEF DeviceTypes
    <3> QED BY <2>1, <3>1, AppendQueue
  <2> QED BY <1>1, <2>1, <2>2, <2>3, <2>4 DEF DeviceTypes
<1>9. CASE Accepts
  <2>1. /\ dev' = "run" /\ ses' = ses + 1 /\ channel' = FALSE /\ target' = None /\ prev' = None
        /\ UNCHANGED <<cmds, evts, held>>
    BY <1>9 DEF Accepts, DeviceConnects
  <2>2. ses' \in Nat /\ target' \in OptDiff /\ prev' \in Nat \cup {None}
    BY <1>1, <2>1 DEF DeviceTypes, OptDiff
  <2>3. channel' \in BOOLEAN /\ (channel' => target' # None)
    BY <2>1
  <2>4. cmds' \in Seq(Found) /\ evts' \in Seq(Offers) /\ held' \subseteq Works
    BY <1>1, <2>1 DEF DeviceTypes
  <2> QED BY <2>1, <2>2, <2>3, <2>4 DEF DeviceTypes
<1>10. CASE PoolOnly \/ UNCHANGED nanoVars
  BY <1>2, <1>10, PoolFrame DEF nanoVars
<1> QED
  BY <1>3, <1>4, <1>5, <1>6, <1>7, <1>8, <1>9, <1>10
     DEF NanoNext, DeviceOnly, SchedulerSteps, PoolOnly

\* What a step puts on the link.
LEMMA LinkTypesStep == ASSUME NanoTypes, OpenInv, [NanoNext]_nanoVars PROVE LinkTypes'
<1>1. /\ LinkTypes /\ cmds \in Seq(Found) /\ queue \in Seq(Broadcasts)
      /\ up \in Seq(Requests) /\ down \in Seq(Messages) /\ budget \in LimitType
  BY DEF NanoTypes, LinkTypes, DeviceTypes, PoolTypes
<1>2. ASSUME UNCHANGED linkVars PROVE LinkTypes'
  BY <1>1, <1>2 DEF linkVars, LinkTypes
<1>3. CASE SchedulerTakes \/ DeviceStarts \/ DeviceLoses \/ BackoffEnds \/ Refill \/ Refresh
           \/ UNCHANGED nanoVars
  BY <1>2, <1>3 DEF SchedulerTakes, DeviceStarts, DeviceLoses, BackoffEnds, Refill, Refresh, nanoVars
<1>4. CASE SchedulerSubmits
  <2>1. budget' \in LimitType /\ UNCHANGED <<up, down, alive>>
    BY <1>4, SubmitCases
  <2> QED BY <1>1, <2>1 DEF LinkTypes
<1>5. CASE DeviceSubmits
  <2>1. /\ cmds # <<>> /\ UNCHANGED <<down, alive, budget>>
        /\ up' = up \/ up' = Append(up, [type |-> "share", share |-> Head(cmds)])
    BY <1>5 DEF DeviceSubmits
  <2>2. [type |-> "share", share |-> Head(cmds)] \in Requests
    BY <1>1, <2>1, TailQueue, MadeTypes
  <2>4. Append(up, [type |-> "share", share |-> Head(cmds)]) \in Seq(Requests)
    BY <1>1, <2>2, AppendQueue
  <2>3. up' \in Seq(Requests)
    BY <1>1, <2>1, <2>4
  <2> QED BY <1>1, <2>1, <2>3 DEF LinkTypes
<1>6. CASE DeviceReads
  <2>1. /\ down # <<>> /\ down' = Tail(down) /\ UNCHANGED <<alive, budget>>
        /\ up' = up \/ up' = Append(up, [type |-> "open"])
    BY <1>6, ReadCases
  <2>2. down' \in Seq(Messages)
    BY <1>1, <2>1, TailQueue
  <2>3. [type |-> "open"] \in Requests
    BY MadeTypes
  <2>5. Append(up, [type |-> "open"]) \in Seq(Requests)
    BY <1>1, <2>3, AppendQueue
  <2>4. up' \in Seq(Requests)
    BY <1>1, <2>1, <2>5
  <2> QED BY <1>1, <2>1, <2>2, <2>4 DEF LinkTypes
<1>7. CASE Accepts
  <2>1. Use("connections") /\ up' = <<[type |-> "setup"]>> /\ down' = <<>> /\ alive' = TRUE
    BY <1>7 DEF Accepts, DeviceConnects
  <2>2. budget' \in LimitType
    BY <1>1, <2>1, UseType
  <2>3. up' \in Seq(Requests)
    BY <2>1, MadeTypes
  <2> QED BY <2>1, <2>2, <2>3 DEF LinkTypes
<1>8. CASE NodeChanges
  <2>1. (Use("templates") \/ Use("tips")) /\ UNCHANGED <<up, down, alive>>
    BY <1>8 DEF NodeChanges
  <2>2. budget' \in LimitType
    BY <1>1, <2>1, UseType
  <2> QED BY <1>1, <2>1, <2>2 DEF LinkTypes
<1>9. CASE Forward
  <2>1. /\ queue # <<>> /\ (down' = down \/ down' = Append(down, Head(queue)))
        /\ UNCHANGED <<up, alive, budget>>
    BY <1>9 DEF Forward, handlerRest
  <2>2. Head(queue) \in Messages
    <3>1. Head(queue) \in Broadcasts
      BY <1>1, <2>1, TailQueue
    <3> QED BY <3>1, MadeTypes
  <2>4. Append(down, Head(queue)) \in Seq(Messages)
    BY <1>1, <2>2, AppendQueue
  <2>3. down' \in Seq(Messages)
    BY <1>1, <2>1, <2>4
  <2> QED BY <1>1, <2>1, <2>3 DEF LinkTypes
<1>10. CASE HandleSetup
  <2>1. /\ up # <<>> /\ up' = Tail(up) /\ down' = Append(down, [type |-> "setupOk"])
        /\ UNCHANGED <<alive, budget>>
    BY <1>10 DEF HandleSetup, Receive, handlerRest
  <2>2. down' \in Seq(Messages) /\ up' \in Seq(Requests)
    BY <1>1, <2>1, AppendQueue, TailQueue, MadeTypes
  <2> QED BY <1>1, <2>1, <2>2 DEF LinkTypes
<1>11. CASE HandleOpen
  <2>1. PICK d \in Diffs : down' = Append(down, [type |-> "opened", diff |-> d])
    BY <1>11 DEF HandleOpen
  <2>2. up # <<>> /\ up' = Tail(up) /\ UNCHANGED <<alive, budget>>
    BY <1>11 DEF HandleOpen, Receive, handlerRest
  <2>3. [type |-> "opened", diff |-> d] \in Messages
    BY MadeTypes
  <2>4. down' \in Seq(Messages) /\ up' \in Seq(Requests)
    BY <1>1, <2>1, <2>2, <2>3, AppendQueue, TailQueue
  <2> QED BY <1>1, <2>2, <2>4 DEF LinkTypes
<1>12. CASE OpenTooEarly
  <2>1. up # <<>> /\ up' = Tail(up) /\ alive' = FALSE /\ UNCHANGED <<down, budget>>
    BY <1>12 DEF OpenTooEarly, Receive
  <2>2. up' \in Seq(Requests)
    BY <1>1, <2>1, TailQueue
  <2> QED BY <1>1, <2>1, <2>2 DEF LinkTypes
<1>13. CASE PushInitial
  <2>1. /\ down' = down \o <<JobMsg(active, TRUE), PrevMsg(active)>>
        /\ UNCHANGED <<up, alive, budget>> /\ handler = "initial"
    BY <1>13 DEF PushInitial, handlerRest
  <2>2. active \in Jobs
    BY <2>1 DEF OpenInv, NanoTypes, PoolTypes
  <2> DEFINE x == JobMsg(active, TRUE)
             y == PrevMsg(active)
  <2>3. x \in Messages /\ y \in Messages
    <3>1. active.id \in Nat /\ active.tip \in Nat
      BY <2>2 DEF Jobs
    <3> QED BY <3>1, JobMessages, MadeTypes
  <2> HIDE DEF x, y
  <2>4. Append(down, x) \in Seq(Messages)
    BY <1>1, <2>3, AppendQueue
  <2>5. Append(Append(down, x), y) \in Seq(Messages)
    BY <2>3, <2>4, AppendQueue
  <2>6. down' = Append(Append(down, x), y)
    <3>1. down \o <<x, y>> = Append(Append(down, x), y)
      BY <1>1, <2>3, ConcatTwo
    <3> QED BY <2>1, <3>1 DEF x, y
  <2> QED BY <1>1, <2>1, <2>5, <2>6 DEF LinkTypes
<1>14. CASE HandleShare
  <2>1. up # <<>> /\ up' = Tail(up) /\ UNCHANGED <<down, alive, budget>>
    BY <1>14 DEF HandleShare, Receive
  <2>2. up' \in Seq(Requests)
    BY <1>1, <2>1, TailQueue
  <2> QED BY <1>1, <2>1, <2>2 DEF LinkTypes
<1>15. CASE HandleVardiff
  <2>1. UNCHANGED <<up, down, alive>> /\ (UNCHANGED budget \/ Use("windows"))
    BY <1>15 DEF HandleVardiff, Retarget
  <2>2. budget' \in LimitType
    BY <1>1, <2>1, UseType
  <2> QED BY <1>1, <2>1, <2>2 DEF LinkTypes
<1>16. CASE Answer
  <2>1. down' = Append(down, [type |-> answer]) /\ handler = "answer" /\ UNCHANGED <<up, alive, budget>>
    BY <1>16 DEF Answer, handlerRest
  <2>2. answer \in {"success", "error"}
    BY <2>1 DEF NanoTypes, HandlerTypes
  <2>3. [type |-> answer] \in Messages
    BY <2>2, MadeTypes
  <2>4. down' \in Seq(Messages)
    BY <1>1, <2>1, <2>3, AppendQueue
  <2> QED BY <1>1, <2>1, <2>4 DEF LinkTypes
<1>17. CASE LinkBreaks
  <2>1. /\ alive' = FALSE /\ up' = <<>> /\ UNCHANGED budget
        /\ \E n \in {0, Len(down)} : down' = SubSeq(down, 1, n)
    BY <1>17 DEF LinkBreaks, Breaks
  <2>2. down' = <<>> \/ down' = down
    BY <1>1, <2>1
  <2>3. down' \in Seq(Messages) /\ up' \in Seq(Requests)
    BY <1>1, <2>1, <2>2
  <2> QED BY <1>1, <2>1, <2>3 DEF LinkTypes
<1> QED
  BY <1>3, <1>4, <1>5, <1>6, <1>7, <1>8, <1>9, <1>10, <1>11, <1>12, <1>13, <1>14, <1>15, <1>16, <1>17
     DEF NanoNext, DeviceOnly, SchedulerSteps, HandlerSteps
LEMMA PoolTypesStep == ASSUME NanoTypes, OpenInv, [NanoNext]_nanoVars PROVE PoolTypes'
<1>1. /\ node \in [n : Nat, tip : Nat] /\ active \in Jobs \cup {None} /\ past \in Seq(Jobs)
      /\ nextId \in Nat /\ lastPrev \in Nat \cup {None} /\ diff \in Diffs
      /\ queue \in Seq(Broadcasts) /\ firstId \in Nat \cup {None} /\ budget \in LimitType
      /\ None \notin Jobs
  BY NanoPoolConstants DEF NanoTypes, PoolTypes, LinkTypes
<1>2. ASSUME UNCHANGED <<node, active, past, nextId, lastPrev, diff, queue, firstId>> PROVE PoolTypes'
  BY <1>1, <1>2 DEF PoolTypes
<1>3. CASE DeviceOnly \/ HandleSetup \/ HandleShare \/ Answer \/ OpenTooEarly \/ UNCHANGED nanoVars
  BY <1>2, <1>3 DEF DeviceOnly, HandleSetup, HandleShare, Answer, OpenTooEarly, nanoVars, poolVars,
     handlerRest
<1>4. CASE Accepts \/ LinkBreaks
  <2>1. /\ queue' = <<>> /\ firstId' \in {firstId, None}
        /\ UNCHANGED <<node, active, past, nextId, lastPrev, diff>>
    BY <1>4 DEF Accepts, LinkBreaks
  <2> QED BY <1>1, <2>1 DEF PoolTypes
<1>5. CASE NodeChanges
  <2>1. /\ node' = [node EXCEPT !.n = @ + 1] \/ node' = [n |-> node.n + 1, tip |-> node.tip + 1]
        /\ UNCHANGED <<active, past, nextId, lastPrev, diff, queue, firstId>>
    BY <1>5 DEF NodeChanges
  <2>2. node' \in [n : Nat, tip : Nat]
    BY <1>1, <2>1
  <2> QED BY <1>1, <2>1, <2>2 DEF PoolTypes
<1>6. CASE Refresh
  <2> DEFINE j == [id |-> nextId, tpl |-> node.n, tip |-> node.tip,
                   prefix |-> IF active = None THEN "base" ELSE active.prefix]
  <2>1. /\ active' = j /\ past' = Retain(IF NewTip THEN <<>> ELSE past)
        /\ nextId' = nextId + 1 /\ lastPrev' = node.tip
        /\ Broadcast(<<JobMsg(j, TRUE), PrevMsg(j)>>) \/ Broadcast(<<JobMsg(j, FALSE)>>)
        /\ UNCHANGED <<node, diff, firstId>>
    BY <1>6 DEF Refresh, RefreshMsgs
  <2>2. j \in Jobs /\ j.id \in Nat /\ j.tip \in Nat
    BY <1>1 DEF Jobs
  <2> HIDE DEF j
  <2>3. queue' \in Seq(Broadcasts)
    <3>1. JobMsg(j, TRUE) \in Broadcasts /\ JobMsg(j, FALSE) \in Broadcasts /\ PrevMsg(j) \in Broadcasts
      BY <2>2, JobMessages
    <3>2. CASE Broadcast(<<JobMsg(j, TRUE), PrevMsg(j)>>)
      BY <1>1, <3>1, <3>2, BroadcastTwo
    <3>3. CASE Broadcast(<<JobMsg(j, FALSE)>>)
      BY <1>1, <3>1, <3>3, BroadcastOne
    <3> QED BY <2>1, <3>2, <3>3
  <2>4. past' \in Seq(Jobs)
    <3>1. PICK q \in Seq(Jobs) : past' = Retain(q)
      <4>1. <<>> \in Seq(Jobs)
        OBVIOUS
      <4> QED BY <1>1, <2>1, <4>1
    <3> QED BY <1>1, <3>1, RetainType
  <2>5. node.tip \in Nat
    BY <1>1
  <2> QED BY <1>1, <2>1, <2>2, <2>3, <2>4, <2>5 DEF PoolTypes
<1>7. CASE Forward
  <2>1. queue # <<>> /\ queue' = Tail(queue)
        /\ UNCHANGED <<node, active, past, nextId, lastPrev, diff, firstId>>
    BY <1>7 DEF Forward, handlerRest
  <2>2. queue' \in Seq(Broadcasts)
    BY <1>1, <2>1, TailQueue
  <2> QED BY <1>1, <2>1, <2>2 DEF PoolTypes
<1>8. CASE HandleOpen
  <2>1. /\ active # None /\ diff' \in Diffs /\ active' = [active EXCEPT !.prefix = "channel"]
        /\ firstId' = active.id /\ UNCHANGED <<node, past, nextId, lastPrev, queue>>
    BY <1>8 DEF HandleOpen, LatchPrefix, handlerRest
  <2>2. active' \in Jobs /\ active.id \in Nat
    BY <1>1, <2>1 DEF Jobs
  <2> QED BY <1>1, <2>1, <2>2 DEF PoolTypes
<1>9. CASE PushInitial
  <2>1. /\ handler = "initial" /\ firstId' = active.id
        /\ UNCHANGED <<node, active, past, nextId, lastPrev, diff, queue>>
    BY <1>9 DEF PushInitial, handlerRest
  <2>2. active # None
    BY <2>1 DEF OpenInv
  <2>3. active.id \in Nat
    BY <1>1, <2>2 DEF Jobs
  <2> QED BY <1>1, <2>1, <2>3 DEF PoolTypes
<1>10. CASE HandleVardiff
  <2>1. UNCHANGED <<node, lastPrev, firstId>> /\ handler = "vardiff"
    BY <1>10 DEF HandleVardiff
  <2>2. active # None
    BY <2>1 DEF OpenInv
  <2>3. CASE UNCHANGED <<active, past, nextId, diff, queue>>
    BY <1>2, <2>1, <2>3
  <2>4. CASE Retarget
    <3> DEFINE j == [active EXCEPT !.id = nextId]
    <3>1. PICK d \in Diffs :
            /\ diff' = d
            /\ \/ UNCHANGED <<active, past, nextId, queue>>
               \/ /\ active' = j /\ past' = Retain(past) /\ nextId' = nextId + 1
                  /\ Broadcast(<<TargetMsg(d), JobMsg(j, FALSE)>>)
      <4>1. PICK d \in Diffs :
              /\ diff' = d
              /\ IF Fires(d)
                 THEN /\ active' = j /\ past' = ReissuePast /\ nextId' = nextId + 1
                      /\ Broadcast(<<TargetMsg(d), JobMsg(j, FALSE)>>)
                 ELSE UNCHANGED <<active, past, nextId, queue, lagged>>
        BY <2>4, Zenon DEF Retarget
      <4> HIDE DEF j
      <4>2. \/ UNCHANGED <<active, past, nextId, queue>>
            \/ /\ active' = j /\ past' = Retain(past) /\ nextId' = nextId + 1
               /\ Broadcast(<<TargetMsg(d), JobMsg(j, FALSE)>>)
        BY <4>1 DEF ReissuePast
      <4> QED BY <4>1, <4>2
    <3>2. j \in Jobs /\ j.id \in Nat /\ j.tip \in Nat
      BY <1>1, <2>2 DEF Jobs
    <3> HIDE DEF j
    <3>3. CASE UNCHANGED <<active, past, nextId, queue>>
      BY <1>1, <2>1, <3>1, <3>3 DEF PoolTypes
    <3>4. CASE /\ active' = j /\ past' = Retain(past) /\ nextId' = nextId + 1
               /\ Broadcast(<<TargetMsg(d), JobMsg(j, FALSE)>>)
      <4>1. TargetMsg(d) \in Broadcasts /\ JobMsg(j, FALSE) \in Broadcasts
        BY <3>2, JobMessages, TargetMessage
      <4>2. queue' \in Seq(Broadcasts)
        BY <1>1, <3>4, <4>1, BroadcastTwo
      <4>3. past' \in Seq(Jobs)
        BY <1>1, <3>4, RetainType
      <4> QED BY <1>1, <2>1, <3>1, <3>2, <3>4, <4>2, <4>3 DEF PoolTypes
    <3> QED BY <3>1, <3>3, <3>4
  <2> QED BY <1>10, <2>3, <2>4 DEF HandleVardiff
<1> QED
  BY <1>3, <1>4, <1>5, <1>6, <1>7, <1>8, <1>9, <1>10 DEF NanoNext, HandlerSteps

LEMMA HandlerTypesStep == ASSUME NanoTypes, OpenInv, [NanoNext]_nanoVars PROVE HandlerTypes'
<1>1. HandlerTypes /\ None \notin {"success", "error"} /\ queue \in Seq(Broadcasts) /\ budget \in LimitType
  BY NanoPoolConstants DEF NanoTypes, LinkTypes, PoolTypes
<1>2. ASSUME UNCHANGED <<handler, answer, setup, open, lagged, refused>> PROVE HandlerTypes'
  BY <1>1, <1>2 DEF HandlerTypes
<1>3. CASE DeviceOnly \/ NodeChanges \/ Forward \/ UNCHANGED nanoVars
  BY <1>2, <1>3 DEF DeviceOnly, NodeChanges, Forward, nanoVars, poolVars, handlerRest
<1>4. ASSUME NEW ms, Broadcast(ms) PROVE lagged' \in BOOLEAN
  BY <1>1, <1>4 DEF Broadcast, HandlerTypes
<1>5. CASE Accepts
  <2>1. /\ handler' = "idle" /\ answer' = None /\ setup' = FALSE /\ open' = FALSE
        /\ lagged' = FALSE /\ refused' = refused
    BY <1>5 DEF Accepts
  <2> QED BY <1>1, <2>1 DEF HandlerTypes
<1>6. CASE Refresh
  <2>1. UNCHANGED <<handler, answer, setup, open, refused>> /\ \E ms : Broadcast(ms)
    BY <1>6 DEF Refresh
  <2>2. lagged' \in BOOLEAN
    BY <1>4, <2>1
  <2> QED BY <1>1, <2>1, <2>2 DEF HandlerTypes
<1>7. CASE HandleSetup \/ HandleOpen \/ OpenTooEarly \/ PushInitial
  <2>1. /\ handler \in {"idle", "initial"} /\ handler' \in {"idle", "initial", "gone"}
        /\ UNCHANGED <<answer, lagged, refused>>
        /\ setup' = setup \/ setup' = TRUE
        /\ open' = open \/ open' = TRUE
    BY <1>7 DEF HandleSetup, HandleOpen, OpenTooEarly, PushInitial, Receive, handlerRest
  <2>2. setup' \in BOOLEAN /\ open' \in BOOLEAN
    BY <1>1, <2>1 DEF HandlerTypes
  <2> QED BY <1>1, <2>1, <2>2 DEF HandlerTypes
<1>8. CASE HandleShare
  <2>1. /\ \/ answer' = "error" /\ handler' = "answer"
           \/ answer' = "success" /\ handler' = "vardiff"
        /\ UNCHANGED <<setup, open, lagged>>
    BY <1>8 DEF HandleShare, NotFound, TooLow, Accepted
  <2>2. refused' \in BOOLEAN
    BY <1>1, <1>8 DEF HandleShare, NotFound, TooLow, Accepted, HandlerTypes
  <2> QED BY <1>1, <2>1, <2>2 DEF HandlerTypes
<1>9. CASE HandleVardiff
  <2>1. /\ handler = "vardiff" /\ handler' = "answer" /\ UNCHANGED <<answer, setup, open, refused>>
        /\ UNCHANGED lagged \/ \E ms : Broadcast(ms)
    BY <1>9 DEF HandleVardiff, Retarget
  <2>2. lagged' \in BOOLEAN
    BY <1>1, <1>4, <2>1 DEF HandlerTypes
  <2> QED BY <1>1, <2>1, <2>2 DEF HandlerTypes
<1>10. CASE Answer
  <2>1. handler' = "idle" /\ answer' = None /\ UNCHANGED <<setup, open, lagged, refused>>
    BY <1>10 DEF Answer, handlerRest
  <2> QED BY <1>1, <2>1 DEF HandlerTypes
<1>11. CASE LinkBreaks
  <2>1. handler' = "gone" /\ answer' = None /\ open' = FALSE /\ UNCHANGED <<setup, lagged, refused>>
    BY <1>11 DEF LinkBreaks
  <2> QED BY <1>1, <2>1 DEF HandlerTypes
<1> QED
  BY <1>3, <1>5, <1>6, <1>7, <1>8, <1>9, <1>10, <1>11 DEF NanoNext, HandlerSteps
\* The steps that make a job active.
LEMMA RefreshCases ==
    ASSUME NanoTypes, Refresh
    PROVE  \E j \in Jobs :
             /\ active' = j /\ j.id = nextId /\ j.tip = node.tip
             /\ active # None => j.prefix = active.prefix
             /\ nextId' = nextId + 1 /\ lastPrev' = node.tip
             /\ \/ NewTip /\ past' = Retain(<<>>) /\ Broadcast(<<JobMsg(j, TRUE), PrevMsg(j)>>)
                \/ ~NewTip /\ past' = Retain(past) /\ Broadcast(<<JobMsg(j, FALSE)>>)
<1> DEFINE j == [id |-> nextId, tpl |-> node.n, tip |-> node.tip,
                 prefix |-> IF active = None THEN "base" ELSE active.prefix]
<1>1. /\ active' = j /\ past' = Retain(IF NewTip THEN <<>> ELSE past)
      /\ nextId' = nextId + 1 /\ lastPrev' = node.tip
      /\ Broadcast(IF NewTip THEN <<JobMsg(j, TRUE), PrevMsg(j)>> ELSE <<JobMsg(j, FALSE)>>)
  BY DEF Refresh, RefreshMsgs
<1>2. j \in Jobs /\ j.id = nextId /\ j.tip = node.tip /\ (active # None => j.prefix = active.prefix)
  BY DEF NanoTypes, PoolTypes, Jobs
<1> HIDE DEF j
<1>3. CASE NewTip
  BY <1>1, <1>2, <1>3
<1>4. CASE ~NewTip
  BY <1>1, <1>2, <1>4
<1> QED BY <1>3, <1>4

LEMMA VardiffCases ==
    ASSUME NanoTypes, OpenInv, HandleVardiff
    PROVE  \/ UNCHANGED <<active, past, nextId, queue, lagged>>
           \/ \E j \in Jobs, d \in Diffs :
                /\ active' = j /\ j.id = nextId /\ j.tip = active.tip /\ j.prefix = active.prefix
                /\ active # None /\ past' = Retain(past) /\ nextId' = nextId + 1
                /\ Broadcast(<<TargetMsg(d), JobMsg(j, FALSE)>>)
<1> DEFINE j == [active EXCEPT !.id = nextId]
<1>1. handler = "vardiff" /\ (Retarget \/ UNCHANGED <<budget, active, past, nextId, diff, queue, lagged>>)
  BY DEF HandleVardiff
<1>2. active # None
  BY <1>1 DEF OpenInv
<1>3. j \in Jobs /\ j.id = nextId /\ j.tip = active.tip /\ j.prefix = active.prefix
  BY <1>2 DEF NanoTypes, PoolTypes, Jobs
<1>4. CASE Retarget
  <2>1. PICK d \in Diffs :
            IF Fires(d)
            THEN /\ active' = j /\ past' = ReissuePast /\ nextId' = nextId + 1
                 /\ Broadcast(<<TargetMsg(d), JobMsg(j, FALSE)>>)
            ELSE UNCHANGED <<active, past, nextId, queue, lagged>>
    BY <1>4, Zenon DEF Retarget
  <2> HIDE DEF j
  <2>2. CASE Fires(d)
    BY <1>2, <1>3, <2>1, <2>2 DEF ReissuePast
  <2>3. CASE ~Fires(d)
    BY <2>1, <2>3
  <2> QED BY <2>2, <2>3
<1>5. CASE UNCHANGED <<budget, active, past, nextId, diff, queue, lagged>>
  BY <1>5
<1> QED BY <1>1, <1>4, <1>5

LEMMA OpenStep == ASSUME NanoTypes, OpenInv, [NanoNext]_nanoVars PROVE OpenInv'
<1>1. /\ up \in Seq(Requests) /\ down \in Seq(Messages) /\ cmds \in Seq(Found)
      /\ queue \in Seq(Broadcasts) /\ None \notin Jobs /\ None \notin Nat /\ active \in Jobs \cup {None}
  BY NanoPoolConstants, StratumV2Constants DEF NanoTypes, PoolTypes, LinkTypes, DeviceTypes
<1> DEFINE Opened(s) == \A m \in Elems(s) : m.type = "opened" => open
           Shared(s) == \A m \in Elems(s) : m.type = "share" => open
<1>2. /\ alive => Opened(down) /\ Shared(up)
      /\ alive <=> handler # "gone"
      /\ open => alive /\ active # None /\ firstId # None
      /\ alive /\ channel => open
      /\ handler \in {"initial", "vardiff"} => open
  BY DEF OpenInv
<1> HIDE DEF Opened, Shared
<1>3. ASSUME UNCHANGED <<alive, handler, open, active, firstId, channel>>,
             alive => Opened(down') /\ Shared(up')
      PROVE  OpenInv'
  <2>1. alive' => \A m \in Elems(down') : m.type = "opened" => open'
    BY <1>3 DEF Opened
  <2>2. alive' => \A m \in Elems(up') : m.type = "share" => open'
    BY <1>3 DEF Shared
  <2> QED BY <1>2, <1>3, <2>1, <2>2 DEF OpenInv
<1>4. CASE SchedulerSteps /\ UNCHANGED poolVars
  <2>1. UNCHANGED <<alive, channel, down, up>>
    BY <1>4 DEF SchedulerSteps, SchedulerTakes, SchedulerSubmits, linkVars
  <2> QED BY <1>2, <1>3, <1>4, <2>1 DEF poolVars
<1>5. CASE (DeviceStarts \/ DeviceLoses \/ BackoffEnds \/ Refill) /\ UNCHANGED poolVars
  <2>1. UNCHANGED <<alive, channel, down, up>>
    BY <1>5 DEF DeviceStarts, DeviceLoses, BackoffEnds, Refill, linkVars
  <2> QED BY <1>2, <1>3, <1>5, <2>1 DEF poolVars
<1>6. CASE DeviceSubmits /\ UNCHANGED poolVars
  <2> DEFINE x == [type |-> "share", share |-> Head(cmds)]
  <2>1. /\ cmds # <<>> /\ UNCHANGED <<alive, channel, down>>
        /\ up' = up \/ (channel /\ up' = Append(up, x))
    BY <1>6 DEF DeviceSubmits
  <2>2. x \in Requests /\ x.type = "share"
    BY <1>1, <2>1, TailQueue, MadeTypes
  <2> HIDE DEF x
  <2>3. Elems(Append(up, x)) = Elems(up) \cup {x}
    BY <1>1, <2>2, AppendQueue
  <2>4. alive => Shared(up')
    BY <1>2, <2>1, <2>3 DEF Shared
  <2> QED BY <1>2, <1>3, <1>6, <2>1, <2>4 DEF poolVars
<1>7. CASE DeviceReads /\ UNCHANGED poolVars
  <2> DEFINE m == Head(down)
             x == [type |-> "open"]
  <2>1. /\ down # <<>> /\ down' = Tail(down) /\ m \in Messages /\ alive' = alive
        /\ up' = up \/ up' = Append(up, x)
        /\ channel' = channel \/ m.type = "opened"
    BY <1>7, ReadCases
  <2>2. Elems(down) = Elems(down') \cup {m}
    BY <1>1, <2>1, TailQueue
  <2>3. x \in Requests /\ x.type # "share"
    BY MadeTypes
  <2> HIDE DEF m, x
  <2>4. Elems(Append(up, x)) = Elems(up) \cup {x}
    BY <1>1, <2>3, AppendQueue
  <2>5. alive => Opened(down') /\ Shared(up')
    BY <1>2, <2>1, <2>2, <2>3, <2>4 DEF Opened, Shared
  <2>6. alive /\ channel' => open
    BY <1>2, <2>1, <2>2 DEF Opened
  <2>7. UNCHANGED <<handler, open, active, firstId>>
    BY <1>7 DEF poolVars
  <2>8. alive' => \A y \in Elems(down') : y.type = "opened" => open'
    BY <2>1, <2>5, <2>7 DEF Opened
  <2>9. alive' => \A y \in Elems(up') : y.type = "share" => open'
    BY <2>1, <2>5, <2>7 DEF Shared
  <2> QED BY <1>2, <2>1, <2>6, <2>7, <2>8, <2>9 DEF OpenInv
<1>8. CASE Accepts
  <2>1. /\ alive' = TRUE /\ handler' = "idle" /\ open' = FALSE /\ channel' = FALSE
        /\ down' = <<>> /\ up' = <<[type |-> "setup"]>>
    BY <1>8 DEF Accepts, DeviceConnects
  <2>2. Elems(down') = {}
    BY <2>1, EmptyQueue
  <2>3. \A m \in Elems(up') : m.type = "setup"
    BY <2>1 DEF Elems
  <2> QED BY <2>1, <2>2, <2>3 DEF OpenInv
<1>9. CASE NodeChanges
  BY <1>2, <1>3, <1>9 DEF NodeChanges, deviceVars
<1>10. CASE Refresh
  <2>1. UNCHANGED <<alive, handler, open, firstId, channel, down, up>>
    BY <1>10 DEF Refresh, deviceVars, linkVars
  <2>2. active' \in Jobs
    BY <1>10, RefreshCases
  <2>3. active' # None
    BY <1>1, <2>2
  <2> QED BY <2>1, <2>3 DEF OpenInv
<1>11. CASE Forward
  <2> DEFINE x == Head(queue)
  <2>1. /\ queue # <<>> /\ (down' = down \/ down' = Append(down, x))
        /\ UNCHANGED <<alive, handler, open, active, firstId, channel, up>>
    BY <1>11 DEF Forward, handlerRest, deviceVars
  <2>2. x \in Broadcasts
    BY <1>1, <2>1, TailQueue
  <2>3. x \in Messages /\ x.type # "opened"
    BY <2>2, MadeTypes DEF Broadcasts
  <2> HIDE DEF x
  <2>4. Elems(Append(down, x)) = Elems(down) \cup {x}
    BY <1>1, <2>3, AppendQueue
  <2>5. alive => Opened(down')
    BY <1>2, <2>1, <2>3, <2>4 DEF Opened
  <2> QED BY <1>2, <1>3, <2>1, <2>5
<1>12. CASE HandleSetup \/ Answer
  <2>1. /\ \E x \in Messages : x.type # "opened" /\ down' = Append(down, x)
        /\ UNCHANGED <<alive, open, active, firstId, channel>>
        /\ handler # "gone" /\ handler' = "idle"
        /\ up' = up \/ (up # <<>> /\ up' = Tail(up))
    <3>1. CASE HandleSetup
      BY <3>1, MadeTypes DEF HandleSetup, Receive, handlerRest, deviceVars
    <3>2. CASE Answer
      <4>1. answer \in {"success", "error"}
        BY <3>2 DEF Answer, NanoTypes, HandlerTypes
      <4>2. [type |-> answer] \in Messages /\ [type |-> answer].type # "opened"
        BY <4>1, MadeTypes
      <4> QED BY <3>2, <4>2 DEF Answer, handlerRest, deviceVars
    <3> QED BY <1>12, <3>1, <3>2
  <2>2. PICK x \in Messages : x.type # "opened" /\ down' = Append(down, x)
    BY <2>1
  <2>3. Elems(down') = Elems(down) \cup {x} /\ Elems(up') \subseteq Elems(up)
    <3>1. Elems(Append(down, x)) = Elems(down) \cup {x}
      BY <1>1, AppendQueue
    <3>2. CASE up' = up
      BY <2>2, <3>1, <3>2
    <3>3. CASE up # <<>> /\ up' = Tail(up)
      <4>1. Elems(up) = Elems(Tail(up)) \cup {Head(up)}
        BY <1>1, <3>3, TailQueue
      <4> QED BY <2>2, <3>1, <3>3, <4>1
    <3> QED BY <2>1, <3>2, <3>3
  <2>4. alive' => \A m \in Elems(down') : m.type = "opened" => open'
    BY <1>2, <2>1, <2>2, <2>3 DEF Opened
  <2>5. alive' => \A m \in Elems(up') : m.type = "share" => open'
    BY <1>2, <2>1, <2>3 DEF Shared
  <2> QED BY <1>2, <2>1, <2>4, <2>5 DEF OpenInv
<1>13. CASE HandleOpen \/ PushInitial
  <2>1. /\ open' /\ alive' = alive /\ active' # None /\ firstId' = active.id /\ active # None
        /\ handler \in {"idle", "initial"} /\ handler' \in {"idle", "initial"}
    <3>1. CASE HandleOpen
      <4>1. active # None /\ active' = [active EXCEPT !.prefix = "channel"]
        BY <3>1 DEF HandleOpen, LatchPrefix
      <4>2. active' \in Jobs
        BY <1>1, <4>1 DEF Jobs
      <4> QED BY <1>1, <3>1, <4>1, <4>2 DEF HandleOpen, Receive, handlerRest
    <3>2. CASE PushInitial
      BY <1>2, <3>2 DEF PushInitial, handlerRest
    <3> QED BY <1>13, <3>1, <3>2
  <2>2. firstId' # None
    BY <1>1, <2>1 DEF Jobs
  <2>3. alive'
    BY <1>2, <2>1
  <2> QED BY <2>1, <2>2, <2>3 DEF OpenInv
<1>14. CASE OpenTooEarly
  <2>1. /\ alive' = FALSE /\ handler' = "gone" /\ active = None /\ open' = open
    BY <1>14 DEF OpenTooEarly
  <2> QED BY <1>2, <2>1 DEF OpenInv
<1>15. CASE HandleShare
  <2>1. /\ handler = "idle" /\ up # <<>> /\ up' = Tail(up) /\ Head(up).type = "share"
        /\ handler' \in {"answer", "vardiff"}
        /\ UNCHANGED <<alive, open, active, firstId, channel, down>>
    BY <1>15 DEF HandleShare, Receive, NotFound, TooLow, Accepted, deviceVars
  <2>2. Elems(up) = Elems(up') \cup {Head(up)}
    BY <1>1, <2>1, TailQueue
  <2>3. alive /\ open
    BY <1>2, <2>1, <2>2 DEF Shared
  <2> QED BY <1>2, <2>1, <2>3 DEF OpenInv
<1>16. CASE HandleVardiff
  <2>1. /\ handler = "vardiff" /\ handler' = "answer"
        /\ UNCHANGED <<alive, open, firstId, channel, down, up>>
    BY <1>16 DEF HandleVardiff, deviceVars
  <2>2. open /\ alive
    BY <1>2, <2>1
  <2>3. active' # None
    <3>1. active' = active \/ active' \in Jobs
      BY <1>16, VardiffCases
    <3>2. active # None
      BY <1>2, <2>2
    <3> QED BY <1>1, <3>1, <3>2
  <2> QED BY <1>2, <2>1, <2>2, <2>3 DEF OpenInv
<1>17. CASE LinkBreaks
  <2>1. alive' = FALSE /\ handler' = "gone" /\ open' = FALSE
    BY <1>17 DEF LinkBreaks, Breaks
  <2> QED BY <2>1 DEF OpenInv
<1>18. CASE UNCHANGED nanoVars
  BY <1>2, <1>3, <1>18 DEF nanoVars, deviceVars, linkVars, poolVars
<1> QED
  BY <1>4, <1>5, <1>6, <1>7, <1>8, <1>9, <1>10, <1>11, <1>12, <1>13, <1>14, <1>15, <1>16, <1>17, <1>18
     DEF NanoNext, DeviceOnly, HandlerSteps
LEMMA TypesInit == NanoInit => NanoTypes /\ OpenInv
<1> SUFFICES ASSUME NanoInit PROVE NanoTypes /\ OpenInv
  OBVIOUS
<1>1. DeviceInit
  BY DEF NanoInit
<1>2. DeviceTypes
  <2>1. dev = "wait" /\ ses = 0 /\ channel = FALSE /\ target = None /\ prev = None /\ held = {}
    BY <1>1 DEF DeviceInit
  <2>2. cmds \in Seq(Found) /\ evts \in Seq(Offers)
    BY <1>1 DEF DeviceInit
  <2> QED BY <2>1, <2>2 DEF DeviceTypes, OptDiff
<1>3. LinkTypes
  <2>1. up \in Seq(Requests) /\ down \in Seq(Messages) /\ alive = FALSE
    BY <1>1 DEF DeviceInit
  <2>2. budget \in LimitType
    BY <1>1, StratumV2Constants DEF DeviceInit
  <2> QED BY <2>1, <2>2 DEF LinkTypes
<1>4. PoolTypes
  <2>1. diff \in Diffs
    BY StratumV2Constants DEF NanoInit
  <2>2. past \in Seq(Jobs) /\ queue \in Seq(Broadcasts) /\ node \in [n : Nat, tip : Nat]
    BY DEF NanoInit
  <2>3. active = None /\ nextId = 1 /\ lastPrev = None /\ firstId = None
    BY DEF NanoInit
  <2> QED BY <2>1, <2>2, <2>3 DEF PoolTypes
<1>5. HandlerTypes /\ OpenInv
  <2>1. /\ handler = "gone" /\ answer = None /\ setup = FALSE /\ open = FALSE /\ lagged = FALSE
        /\ refused = FALSE /\ alive = FALSE
    BY <1>1 DEF NanoInit, DeviceInit
  <2>2. HandlerTypes
    BY <2>1 DEF HandlerTypes
  <2>3. OpenInv
    BY <2>1 DEF OpenInv
  <2> QED BY <2>2, <2>3
<1> QED BY <1>2, <1>3, <1>4, <1>5 DEF NanoTypes

LEMMA TypesStep == ASSUME NanoTypes, OpenInv, [NanoNext]_nanoVars PROVE NanoTypes' /\ OpenInv'
BY DeviceTypesStep, LinkTypesStep, PoolTypesStep, HandlerTypesStep, OpenStep DEF NanoTypes

-----------------------------------------------------------------------------
(* The sessions of the device.                                             *)

\* Every job the scheduler has, or will have taken, is void.
Withdrawn == IF evts = <<>> THEN held = {} ELSE evts[Len(evts)].type = "clear"

SessionInv ==
    /\ dev = "run" => ses # 0
    /\ dev # "run" => Withdrawn
    /\ \A e \in Elems(evts) : e.type # "clear" => e.job.ses \in 1..ses
    /\ \A w \in held : w.ses \in 1..ses

LEMMA SessionStep == ASSUME NanoTypes, SessionInv, [NanoNext]_nanoVars PROVE SessionInv'
<1>1. evts \in Seq(Offers) /\ ses \in Nat
  BY DEF NanoTypes, DeviceTypes
<1>2. ASSUME UNCHANGED <<dev, ses, evts, held>> PROVE SessionInv'
  BY <1>2 DEF SessionInv, Withdrawn, Elems
<1>3. CASE SchedulerTakes
  <2> DEFINE e == Head(evts)
  <2>1. /\ evts # <<>> /\ evts' = Tail(evts) /\ Elems(evts) = Elems(evts') \cup {e}
        /\ e.type \in {"update", "replace", "clear"}
        /\ e.type = "clear" => held' = {}
        /\ e.type = "update" => held' = held \cup {e.job}
        /\ e.type = "replace" => held' = {e.job}
        /\ UNCHANGED <<dev, ses>>
    BY <1>1, <1>3, TakeCases DEF SchedulerTakes
  <2>2. dev # "run" => Withdrawn'
    <3> SUFFICES ASSUME dev # "run" PROVE Withdrawn'
      OBVIOUS
    <3>1. evts[Len(evts)].type = "clear"
      BY <2>1 DEF SessionInv, Withdrawn
    <3>2. CASE Tail(evts) = <<>>
      <4>1. Len(evts) = 1
        BY <1>1, <2>1, <3>2, LastOne
      <4>2. e = evts[1]
        BY <1>1, <2>1
      <4>3. e.type = "clear"
        BY <3>1, <4>1, <4>2
      <4> QED BY <2>1, <3>2, <4>3 DEF Withdrawn
    <3>3. CASE Tail(evts) # <<>>
      <4>1. Tail(evts)[Len(Tail(evts))] = evts[Len(evts)]
        BY <1>1, <2>1, <3>3
      <4> QED BY <2>1, <3>1, <3>3, <4>1 DEF Withdrawn
    <3> QED BY <3>2, <3>3
  <2> HIDE DEF e
  <2>3. /\ \A x \in Elems(evts') : x.type # "clear" => x.job.ses \in 1..ses
        /\ \A w \in held' : w.ses \in 1..ses
    BY <2>1 DEF SessionInv
  <2> QED BY <2>1, <2>2, <2>3 DEF SessionInv
<1>4. CASE SchedulerSubmits \/ Refill \/ DeviceSubmits \/ PoolOnly \/ UNCHANGED nanoVars
  <2>1. UNCHANGED <<dev, ses, evts, held>>
    BY <1>4, PoolFrame DEF SchedulerSubmits, Refill, DeviceSubmits, nanoVars, deviceVars
  <2> QED BY <1>2, <2>1
<1>5. CASE DeviceStarts \/ BackoffEnds
  <2>1. dev # "run" /\ dev' # "run" /\ UNCHANGED <<ses, evts, held>>
    BY <1>5 DEF DeviceStarts, BackoffEnds
  <2> QED BY <2>1 DEF SessionInv, Withdrawn
<1>6. CASE DeviceLoses
  <2> DEFINE x == [type |-> "clear"]
  <2>1. dev' = "backoff" /\ evts' = Append(evts, x) /\ UNCHANGED <<ses, held>>
    BY <1>6 DEF DeviceLoses, ClearJobs
  <2>2. x \in Offers /\ x.type = "clear"
    BY MadeTypes
  <2> HIDE DEF x
  <2>3. Elems(evts') = Elems(evts) \cup {x} /\ evts' # <<>>
    BY <1>1, <2>1, <2>2, AppendQueue
  <2>4. evts'[Len(evts')] = x
    BY <1>1, <2>1
  <2> QED BY <2>1, <2>2, <2>3, <2>4 DEF SessionInv, Withdrawn
<1>7. CASE DeviceReads
  <2>1. /\ dev = "run" /\ UNCHANGED <<dev, ses, held>>
        /\ \/ evts' = evts
           \/ \E w \in Works, e \in Offers : evts' = Append(evts, e) /\ e.job = w /\ w.ses = ses
    BY <1>7, ReadCases
  <2>2. CASE evts' = evts
    BY <1>2, <2>1, <2>2
  <2>3. CASE evts' # evts
    <3>1. PICK w \in Works, e \in Offers : evts' = Append(evts, e) /\ e.job = w /\ w.ses = ses
      BY <2>1, <2>3
    <3>2. Elems(evts') = Elems(evts) \cup {e}
      BY <1>1, <3>1, AppendQueue
    <3>3. ses \in 1..ses
      BY <1>1, <2>1 DEF SessionInv
    <3> QED BY <2>1, <3>1, <3>2, <3>3 DEF SessionInv
  <2> QED BY <2>2, <2>3
<1>8. CASE Accepts
  <2>1. dev' = "run" /\ ses' = ses + 1 /\ UNCHANGED <<evts, held>>
    BY <1>8 DEF Accepts, DeviceConnects
  <2>2. 1..ses \subseteq 1..ses' /\ ses' # 0
    BY <1>1, <2>1
  <2> QED BY <2>1, <2>2 DEF SessionInv
<1> QED
  BY <1>3, <1>4, <1>5, <1>6, <1>7, <1>8 DEF NanoNext, DeviceOnly, SchedulerSteps, PoolOnly

LEMMA SessionHolds == NanoSpec => [](NanoTypes /\ OpenInv /\ SessionInv)
<1>1. NanoInit => SessionInv
  <2> SUFFICES ASSUME NanoInit PROVE SessionInv
    OBVIOUS
  <2>1. dev = "wait" /\ evts = <<>> /\ held = {}
    BY DEF NanoInit, DeviceInit
  <2> QED BY <2>1, EmptyQueue DEF SessionInv, Withdrawn
<1>2. ASSUME NanoTypes /\ OpenInv /\ SessionInv, [NanoNext]_nanoVars
      PROVE  (NanoTypes /\ OpenInv /\ SessionInv)'
  BY <1>2, TypesStep, SessionStep
<1> QED BY <1>1, <1>2, TypesInit, PTL DEF NanoSpec

-----------------------------------------------------------------------------
(* What the scheduler of the device sees is a JobSource.                   *)

\* The refinement mapping: an event is its session, 0 for ClearJobs.
Mark(e) == IF e.type = "clear" THEN 0 ELSE e.job.ses
Out(s)  == [i \in DOMAIN s |-> Mark(s[i])]
Has     == {w.ses : w \in held}

LEMMA OutType == ASSUME NEW s \in Seq(Offers)
                 PROVE  Out(s) \in Seq(Nat) /\ Len(Out(s)) = Len(s) /\ DOMAIN Out(s) = DOMAIN s
<1>1. \A e \in Offers : Mark(e) \in Nat
  BY DEF Mark, Offers, Works
<1>2. \A i \in DOMAIN s : Mark(s[i]) \in Nat
  BY <1>1
<1> QED BY <1>2 DEF Out

LEMMA OutAppend ==
    ASSUME NEW s \in Seq(Offers), NEW e \in Offers
    PROVE  Out(Append(s, e)) = Append(Out(s), Mark(e))
<1> DEFINE u == Append(s, e)
           n == Len(s)
           v == Append(Out(s), Mark(e))
<1>1. /\ u \in Seq(Offers) /\ Len(u) = n + 1 /\ n \in Nat /\ DOMAIN s = 1..n /\ DOMAIN u = 1..(n + 1)
      /\ \A i \in 1..n : u[i] = s[i]
      /\ u[n + 1] = e
  OBVIOUS
<1>2. Out(s) \in Seq(Nat) /\ Len(Out(s)) = n /\ Mark(e) \in Nat
  BY OutType DEF Mark, Offers, Works
<1>3. /\ v \in Seq(Nat) /\ Len(v) = n + 1 /\ v[n + 1] = Mark(e)
      /\ \A i \in 1..n : v[i] = Out(s)[i]
  BY <1>2
<1> HIDE DEF u, n, v
<1>4. Out(u) \in Seq(Nat) /\ Len(Out(u)) = n + 1
  BY <1>1, OutType
<1>5. ASSUME NEW i \in 1..(n + 1) PROVE Out(u)[i] = v[i]
  <2>1. Out(u)[i] = Mark(u[i])
    BY <1>1 DEF Out
  <2>2. CASE i = n + 1
    BY <1>1, <1>3, <2>1, <2>2
  <2>3. CASE i \in 1..n
    BY <1>1, <1>3, <2>1, <2>3 DEF Out
  <2> QED BY <1>1, <2>2, <2>3
<1>6. Out(u) = v
  BY <1>3, <1>4, <1>5, SeqEqual
<1> QED BY <1>6 DEF u, v

LEMMA OutTail ==
    ASSUME NEW s \in Seq(Offers), s # <<>>
    PROVE  Out(Tail(s)) = Tail(Out(s)) /\ Out(s) # <<>> /\ Head(Out(s)) = Mark(Head(s))
<1> DEFINE u == Tail(s)
           n == Len(s)
           v == Tail(Out(s))
<1>1. /\ u \in Seq(Offers) /\ n \in Nat /\ n # 0 /\ Len(u) = n - 1
      /\ DOMAIN s = 1..n /\ DOMAIN u = 1..(n - 1) /\ s[1] = Head(s)
      /\ \A i \in 1..(n - 1) : u[i] = s[i + 1]
  OBVIOUS
<1>2. Out(s) \in Seq(Nat) /\ Len(Out(s)) = n
  BY OutType
<1>3. Out(s) # <<>>
  BY <1>1, <1>2
<1>4. /\ v \in Seq(Nat) /\ Len(v) = n - 1 /\ Head(Out(s)) = Out(s)[1]
      /\ \A i \in 1..(n - 1) : v[i] = Out(s)[i + 1]
  BY <1>2, <1>3
<1> HIDE DEF u, n, v
<1>5. Out(u) \in Seq(Nat) /\ Len(Out(u)) = n - 1
  BY <1>1, OutType
<1>6. Head(Out(s)) = Mark(Head(s))
  BY <1>1, <1>4 DEF Out
<1>7. ASSUME NEW i \in 1..(n - 1) PROVE Out(u)[i] = v[i]
  <2>1. Out(u)[i] = Mark(u[i])
    BY <1>1 DEF Out
  <2>2. i + 1 \in DOMAIN s
    BY <1>1
  <2> QED BY <1>1, <1>4, <2>1, <2>2 DEF Out
<1>8. Out(u) = v
  BY <1>4, <1>5, <1>7, SeqEqual
<1> QED BY <1>3, <1>6, <1>8 DEF u, v

LEMMA NothingStands == ASSUME NanoTypes, Withdrawn PROVE Source!Standing = {}
<1>1. evts \in Seq(Offers)
  BY DEF NanoTypes, DeviceTypes
<1> DEFINE o == Out(evts)
           clears == {i \in DOMAIN o : o[i] = 0}
           after  == {i \in DOMAIN o : \A c \in clears : c < i}
<1>2. Source!Standing = {o[i] : i \in after} \cup (IF clears = {} THEN Has ELSE {})
  BY DEF Source!Standing, Out, Mark, Has
<1>3. CASE evts = <<>>
  <2>1. DOMAIN o = {}
    BY <1>3 DEF Out
  <2>2. Has = {}
    BY <1>3 DEF Withdrawn, Has
  <2> QED BY <1>2, <2>1, <2>2
<1>4. CASE evts # <<>>
  <2>1. Len(evts) \in DOMAIN evts /\ DOMAIN evts = 1..Len(evts) /\ Len(evts) \in Nat
    BY <1>1, <1>4
  <2>2. Len(evts) \in clears
    BY <1>4, <2>1 DEF Withdrawn, Out, Mark
  <2>3. DOMAIN o = 1..Len(evts)
    BY <2>1 DEF Out
  <2>4. after = {}
    <3> SUFFICES ASSUME NEW i \in after PROVE FALSE
      OBVIOUS
    <3>1. i \in 1..Len(evts) /\ Len(evts) < i
      BY <2>2, <2>3
    <3> QED BY <2>1, <3>1
  <2> QED BY <1>2, <2>2, <2>4
<1> QED BY <1>3, <1>4

\* Every step of pool and device is a step of JobSource, or one it does not show.
LEMMA SourceStep ==
    ASSUME NanoTypes, SessionInv, [NanoNext]_nanoVars
    PROVE  [Source!Next]_(Source!jobSourceVars)
<1>1. evts \in Seq(Offers) /\ held \subseteq Works /\ ses \in Nat
  BY DEF NanoTypes, DeviceTypes
<1>2. ASSUME UNCHANGED <<evts, held, ses>>, (dev = "run") = (dev' = "run")
      PROVE  UNCHANGED Source!jobSourceVars
  BY <1>2 DEF Source!jobSourceVars
<1>3. CASE SchedulerTakes
  <2> DEFINE e == Head(evts)
  <2>1. /\ evts # <<>> /\ evts' = Tail(evts) /\ Elems(evts) = Elems(evts') \cup {e}
        /\ e.type \in {"update", "replace", "clear"}
        /\ e.type = "clear" => held' = {}
        /\ e.type = "update" => held' = held \cup {e.job}
        /\ e.type = "replace" => held' = {e.job}
        /\ UNCHANGED <<dev, ses>>
    BY <1>1, <1>3, TakeCases DEF SchedulerTakes
  <2>2. Out(evts) # <<>> /\ Out(evts)' = Tail(Out(evts)) /\ Head(Out(evts)) = Mark(e)
    <3>1. Out(evts)' = Out(Tail(evts))
      BY <2>1 DEF Out
    <3> QED BY <1>1, <2>1, <3>1, OutTail
  <2> HIDE DEF e
  <2>3. e.type # "clear" => e.job.ses \in 1..ses
    BY <2>1 DEF SessionInv
  <2>4. Has' \in IF Mark(e) = 0 THEN {{}} ELSE {Has \cup {Mark(e)}, {Mark(e)}}
    <3>1. CASE e.type = "clear"
      BY <2>1, <3>1 DEF Has, Mark
    <3>2. CASE e.type = "update"
      <4>1. Mark(e) = e.job.ses /\ Mark(e) # 0
        BY <1>1, <2>3, <3>2 DEF Mark
      <4>2. Has' = Has \cup {e.job.ses}
        BY <2>1, <3>2 DEF Has
      <4> QED BY <4>1, <4>2
    <3>3. CASE e.type = "replace"
      <4>1. Mark(e) = e.job.ses /\ Mark(e) # 0
        BY <1>1, <2>3, <3>3 DEF Mark
      <4>2. Has' = {e.job.ses}
        BY <2>1, <3>3 DEF Has
      <4> QED BY <4>1, <4>2
    <3> QED BY <2>1, <3>1, <3>2, <3>3
  <2>5. Has' \in IF Head(Out(evts)) = 0 THEN {{}} ELSE {Has \cup {Head(Out(evts))}, {Head(Out(evts))}}
    BY <2>2, <2>4
  <2>6. Source!Take
    BY <2>1, <2>2, <2>5 DEF Source!Take, Out, Mark, Has
  <2> QED BY <2>6 DEF Source!Next
<1>4. CASE SchedulerSubmits \/ Refill \/ DeviceSubmits \/ PoolOnly \/ UNCHANGED nanoVars
  <2>1. UNCHANGED <<dev, ses, evts, held>>
    BY <1>4, PoolFrame DEF SchedulerSubmits, Refill, DeviceSubmits, nanoVars, deviceVars
  <2> QED BY <1>2, <2>1
<1>5. CASE DeviceStarts \/ BackoffEnds
  <2>1. dev # "run" /\ dev' # "run" /\ UNCHANGED <<ses, evts, held>>
    BY <1>5 DEF DeviceStarts, BackoffEnds
  <2> QED BY <1>2, <2>1
<1>6. CASE DeviceLoses
  <2>1. dev' = "backoff" /\ evts' = Append(evts, [type |-> "clear"]) /\ UNCHANGED <<ses, held>>
    BY <1>6 DEF DeviceLoses, ClearJobs
  <2>2. Out(evts)' = Append(Out(evts), 0)
    <3>1. Out(evts)' = Out(Append(evts, [type |-> "clear"])) /\ Mark([type |-> "clear"]) = 0
      BY <2>1 DEF Out, Mark
    <3>2. [type |-> "clear"] \in Offers
      BY MadeTypes
    <3> QED BY <1>1, <3>1, <3>2, OutAppend
  <2>3. Source!Down
    BY <2>1, <2>2 DEF Source!Down, Out, Mark
  <2> QED BY <2>3 DEF Source!Next
<1>7. CASE DeviceReads
  <2>1. /\ dev = "run" /\ UNCHANGED <<dev, ses, held>>
        /\ \/ evts' = evts
           \/ \E w \in Works, e \in Offers :
                evts' = Append(evts, e) /\ e.type # "clear" /\ e.job = w /\ w.ses = ses
    BY <1>7, ReadCases
  <2>2. CASE evts' = evts
    BY <1>2, <2>1, <2>2
  <2>3. CASE evts' # evts
    <3>1. PICK w \in Works, e \in Offers :
              evts' = Append(evts, e) /\ e.type # "clear" /\ e.job = w /\ w.ses = ses
      BY <2>1, <2>3
    <3>2. Mark(e) = ses /\ ses # 0
      BY <2>1, <3>1 DEF SessionInv, Mark
    <3>3. Out(evts)' = Append(Out(evts), ses)
      <4>1. Out(evts)' = Out(Append(evts, e))
        BY <3>1 DEF Out
      <4> QED BY <1>1, <3>2, <4>1, OutAppend
    <3>4. Source!Offer
      BY <2>1, <3>2, <3>3 DEF Source!Offer, Out, Mark
    <3> QED BY <3>4 DEF Source!Next
  <2> QED BY <2>2, <2>3
<1>8. CASE Accepts
  <2>1. dev = "connect" /\ dev' = "run" /\ ses' = ses + 1 /\ UNCHANGED <<evts, held>>
    BY <1>8 DEF Accepts, DeviceConnects
  <2>2. Source!Standing = {}
    BY <2>1, NothingStands DEF SessionInv
  <2>3. ses + 1 \in Nat \ {0}
    BY <1>1
  <2>4. Source!Up
    BY <2>1, <2>2, <2>3 DEF Source!Up
  <2> QED BY <2>4 DEF Source!Next
<1> QED
  BY <1>3, <1>4, <1>5, <1>6, <1>7, <1>8 DEF NanoNext, DeviceOnly, SchedulerSteps, PoolOnly

\* Whatever the pool sends, in whatever order, and whenever the link breaks:
\* what the Stratum v2 source tells its scheduler is what JobSource allows, jobs
\* of the connection that is up and ClearJobs between the jobs of a connection
\* and those of the next (stratum_v2.rs:343).
THEOREM PoolDeviceIsAJobSource == NanoSpec => ImplementsJobSource
<1>1. NanoSpec => [](NanoTypes /\ OpenInv /\ SessionInv)
  BY SessionHolds
<1>2. NanoInit => Source!Init
  <2> SUFFICES ASSUME NanoInit PROVE Source!Init
    OBVIOUS
  <2>1. evts = <<>> /\ held = {} /\ dev = "wait"
    BY DEF NanoInit, DeviceInit
  <2>2. [i \in DOMAIN evts |-> IF evts[i].type = "clear" THEN 0 ELSE evts[i].job.ses] = <<>>
    BY <2>1
  <2>3. {j.ses : j \in held} = {}
    BY <2>1
  <2> QED BY <2>1, <2>2, <2>3 DEF Source!Init
<1>3. ASSUME NanoTypes /\ OpenInv /\ SessionInv, [NanoNext]_nanoVars
      PROVE  [Source!Next]_(Source!jobSourceVars)
  BY <1>3, SourceStep
<1> QED BY <1>1, <1>2, <1>3, PTL DEF NanoSpec, ImplementsJobSource, Source!Spec
-----------------------------------------------------------------------------
(* The pool knows the work it has given out.                               *)

Known == IF active = None THEN {} ELSE {active} \cup Elems(past)

\* The jobs of q bear the ids before n, in order, and no later tip than t.
InOrder(q, n, t) == \A i \in DOMAIN q : q[i].id + (Len(q) + 1) = n + i /\ q[i].tip <= t

\* The known jobs are the last ones, and the active one is of the latest tip.
Numbered ==
    IF active = None THEN past = <<>> /\ lastPrev = None /\ firstId = None
    ELSE /\ active.id + 1 = nextId /\ active.tip = lastPrev /\ lastPrev \in Nat
         /\ lastPrev <= node.tip /\ Len(past) <= MaxPast /\ InOrder(past, active.id, lastPrev)
         /\ firstId # None => firstId <= active.id

\* The jobs given since the channel opened can be rebuilt.
PrefixInv == open => \A j \in Known : j.id >= firstId => j.prefix = "channel"

\* Retain keeps the order and forgets only what is far behind.
LEMMA RetainOrder ==
    ASSUME NEW q \in Seq(Jobs), active \in Jobs, NEW t \in Nat, active.tip <= t,
           InOrder(q, active.id, t)
    PROVE  LET r == Retain(q)
           IN  /\ r \in Seq(Jobs) /\ Len(r) <= MaxPast /\ InOrder(r, active.id + 1, t)
               /\ Elems(r) \subseteq Elems(q) \cup {active}
               /\ \A j \in Elems(q) \cup {active} : j \in Elems(r) \/ j.id + MaxPast <= active.id
<1> DEFINE all == Append(q, active)
           l == Len(q)
           n == Len(all)
           Result(r) == /\ r \in Seq(Jobs) /\ Len(r) <= MaxPast /\ InOrder(r, active.id + 1, t)
                        /\ Elems(r) \subseteq Elems(q) \cup {active}
                        /\ \A j \in Elems(q) \cup {active} : j \in Elems(r) \/ j.id + MaxPast <= active.id
<1>1. all \in Seq(Jobs) /\ Elems(all) = Elems(q) \cup {active}
  BY AppendQueue
<1>2. /\ l \in Nat /\ n = l + 1 /\ DOMAIN q = 1..l /\ DOMAIN all = 1..n
      /\ \A i \in DOMAIN q : all[i] = q[i]
      /\ all[n] = active
  OBVIOUS
<1>3. MaxPast \in Nat /\ None \notin Jobs
  BY NanoPoolConstants
<1>4. Retain(q) = IF n > MaxPast THEN SubSeq(all, n - MaxPast + 1, n) ELSE all
  BY <1>3 DEF Retain
<1>5. active.id \in Nat /\ \A i \in DOMAIN q : q[i].id \in Nat
  <2>1. \A i \in DOMAIN q : q[i] \in Jobs
    OBVIOUS
  <2> QED BY <2>1 DEF Jobs
<1>6. \A i \in DOMAIN q : q[i].id + (l + 1) = active.id + i /\ q[i].tip <= t
  BY DEF InOrder
<1> HIDE DEF l, n, all
<1>7. ASSUME NEW i \in DOMAIN all PROVE all[i].id \in Nat /\ all[i].id + n = active.id + i /\ all[i].tip <= t
  <2>1. CASE i = n
    BY <1>2, <1>5, <2>1
  <2>2. CASE i # n
    <3>1. i \in DOMAIN q /\ all[i] = q[i] /\ i \in Nat
      BY <1>2, <2>2
    <3>2. q[i].id \in Nat /\ q[i].id + (l + 1) = active.id + i /\ q[i].tip <= t
      BY <1>5, <1>6, <3>1
    <3>3. PICK x \in Nat, a \in Nat : x = q[i].id /\ a = active.id
      BY <1>5, <3>2
    <3>4. l \in Nat /\ n = l + 1 /\ i \in Nat /\ x + (l + 1) = a + i
      BY <1>2, <3>1, <3>2, <3>3
    <3>5. x + n = a + i
      BY <3>4
    <3> QED BY <3>1, <3>2, <3>3, <3>5
  <2> QED BY <2>1, <2>2
<1>8. CASE ~(n > MaxPast)
  <2>1. Retain(q) = all /\ Len(all) <= MaxPast
    BY <1>2, <1>3, <1>4, <1>8 DEF n
  <2>2. InOrder(all, active.id + 1, t)
    <3> SUFFICES ASSUME NEW i \in DOMAIN all
                 PROVE  all[i].id + (n + 1) = (active.id + 1) + i /\ all[i].tip <= t
      BY DEF InOrder, n
    <3>1. i \in Nat /\ all[i].id \in Nat /\ all[i].id + n = active.id + i /\ all[i].tip <= t
      BY <1>2, <1>7
    <3>2. PICK x \in Nat, a \in Nat : x = all[i].id /\ a = active.id
      BY <1>5, <3>1
    <3>3. n \in Nat /\ i \in Nat /\ x + n = a + i
      BY <1>2, <3>1, <3>2
    <3>4. x + (n + 1) = (a + 1) + i
      BY <3>3
    <3> QED BY <3>1, <3>2, <3>4
  <2> QED BY <1>1, <2>1, <2>2
<1>9. CASE n > MaxPast
  <2> DEFINE k == n - MaxPast
             r == SubSeq(all, k + 1, Len(all))
  <2>1. k \in Nat /\ k <= n /\ k + MaxPast = n
    BY <1>2, <1>3, <1>9
  <2>2. Retain(q) = r
    BY <1>4, <1>9 DEF n
  <2> HIDE DEF k
  <2>3. /\ r \in Seq(Jobs) /\ Elems(r) \subseteq Elems(all)
        /\ Len(r) = Len(all) - k
        /\ \A i \in DOMAIN r : i + k \in DOMAIN all /\ r[i] = all[i + k]
        /\ \A i \in DOMAIN all : i > k => i - k \in DOMAIN r /\ r[i - k] = all[i]
    BY <1>1, <2>1, EndOfQueue, Zenon DEF n
  <2> HIDE DEF r
  <2>4. Len(r) = MaxPast
    BY <1>2, <1>3, <2>1, <2>3 DEF n
  <2>5. DOMAIN r \subseteq Nat
    BY <2>3
  <2>6. InOrder(r, active.id + 1, t)
    <3> SUFFICES ASSUME NEW i \in DOMAIN r
                 PROVE  r[i].id + (MaxPast + 1) = (active.id + 1) + i /\ r[i].tip <= t
      BY <2>4 DEF InOrder
    <3>1. r[i] = all[i + k] /\ i + k \in DOMAIN all /\ i \in Nat
      BY <2>3, <2>5
    <3>2. all[i + k].id \in Nat /\ all[i + k].id + n = active.id + (i + k) /\ all[i + k].tip <= t
      BY <1>7, <3>1
    <3>3. PICK x \in Nat, a \in Nat : x = all[i + k].id /\ a = active.id
      BY <1>5, <3>2
    <3>4. i \in Nat /\ x + n = a + (i + k)
      BY <3>1, <3>2, <3>3
    <3>5. x + (MaxPast + 1) = (a + 1) + i
      BY <1>3, <2>1, <3>4
    <3> QED BY <3>1, <3>2, <3>3, <3>5
  <2>7. ASSUME NEW j \in Elems(q) \cup {active} PROVE j \in Elems(r) \/ j.id + MaxPast <= active.id
    <3>1. PICK i \in DOMAIN all : j = all[i]
      BY <1>1 DEF Elems
    <3>2. i \in Nat /\ all[i].id \in Nat /\ all[i].id + n = active.id + i
      BY <1>2, <1>7
    <3>3. CASE i > k
      <4>1. i - k \in DOMAIN r /\ r[i - k] = all[i]
        BY <2>3, <3>3
      <4> QED BY <3>1, <4>1 DEF Elems
    <3>4. CASE ~(i > k)
      <4>1. all[i].id + MaxPast <= active.id
        BY <1>2, <1>3, <1>5, <2>1, <3>2, <3>4
      <4> QED BY <3>1, <4>1
    <3> QED BY <3>3, <3>4
  <2>8. Len(r) <= MaxPast
    BY <1>3, <2>4
  <2> QED BY <1>1, <2>2, <2>3, <2>6, <2>7, <2>8
<1>10. Result(Retain(q))
  BY <1>8, <1>9
<1> QED BY <1>10

\* The new active job, behind the jobs of q.
LEMMA NumberedNew ==
    ASSUME NanoTypes, Numbered, active # None, NEW q \in Seq(Jobs), InOrder(q, active.id, lastPrev),
           NEW j \in Jobs, active' = j, j.id = nextId, j.tip = lastPrev', lastPrev' \in Nat,
           lastPrev <= lastPrev', lastPrev' <= node.tip, past' = Retain(q), nextId' = nextId + 1,
           UNCHANGED <<node, firstId>>
    PROVE  Numbered' /\ Elems(past') \subseteq Elems(q) \cup {active}
<1>1. /\ active \in Jobs /\ active.id \in Nat /\ lastPrev \in Nat /\ active.tip <= lastPrev
      /\ active.id + 1 = nextId /\ firstId \in Nat \cup {None} /\ (firstId # None => firstId <= active.id)
  BY DEF NanoTypes, PoolTypes, Numbered, Jobs
<1>2. PICK r : r = Retain(q)
  OBVIOUS
<1>3. /\ r \in Seq(Jobs) /\ Len(r) <= MaxPast /\ InOrder(r, active.id + 1, lastPrev)
      /\ Elems(r) \subseteq Elems(q) \cup {active}
  BY <1>1, <1>2, RetainOrder
<1>4. InOrder(r, j.id, lastPrev')
  <2>1. \A i \in DOMAIN r : r[i].tip \in Nat
    <3>1. \A i \in DOMAIN r : r[i] \in Jobs
      BY <1>3
    <3> QED BY <3>1 DEF Jobs
  <2>2. \A i \in DOMAIN r : r[i].id + (Len(r) + 1) = j.id + i /\ r[i].tip <= lastPrev
    BY <1>1, <1>3 DEF InOrder
  <2>3. \A i \in DOMAIN r : r[i].tip <= lastPrev'
    BY <1>1, <2>1, <2>2
  <2> QED BY <2>2, <2>3 DEF InOrder
<1>5. active' # None /\ active'.id + 1 = nextId' /\ active'.tip = lastPrev'
  BY NanoPoolConstants
<1>6. firstId' # None => firstId' <= active'.id
  BY <1>1, StratumV2Constants
<1>7. past' = r /\ InOrder(past, active.id, lastPrev)' /\ Len(past') <= MaxPast
  BY <1>2, <1>3, <1>4 DEF InOrder
<1>8. (lastPrev <= node.tip)' /\ lastPrev' \in Nat
  OBVIOUS
<1> QED BY <1>3, <1>5, <1>6, <1>7, <1>8 DEF Numbered

LEMMA NumberedStep ==
    ASSUME NanoTypes, OpenInv, Numbered, [NanoNext]_nanoVars PROVE Numbered'
<1>1. /\ active \in Jobs \cup {None} /\ lastPrev \in Nat \cup {None} /\ nextId \in Nat
      /\ node.tip \in Nat /\ past \in Seq(Jobs) /\ firstId \in Nat \cup {None} /\ None \notin Jobs
      /\ None \notin Nat
  BY NanoPoolConstants, StratumV2Constants DEF NanoTypes, PoolTypes
<1>2. ASSUME UNCHANGED <<node, active, past, nextId, lastPrev, firstId>> PROVE Numbered'
  BY <1>2 DEF Numbered, InOrder
<1>3. CASE DeviceOnly \/ Forward \/ HandleSetup \/ OpenTooEarly \/ HandleShare \/ Answer \/ LinkBreaks
           \/ UNCHANGED nanoVars
  <2>1. UNCHANGED <<node, active, past, nextId, lastPrev, firstId>>
    BY <1>3 DEF DeviceOnly, poolVars, nanoVars, Forward, HandleSetup, OpenTooEarly, HandleShare,
       Answer, LinkBreaks, handlerRest
  <2> QED BY <1>2, <2>1
<1>4. CASE NodeChanges
  <2>1. UNCHANGED <<active, past, nextId, lastPrev, firstId>>
    BY <1>4 DEF NodeChanges
  <2>2. node'.tip = node.tip \/ node'.tip = node.tip + 1
    BY <1>4 DEF NodeChanges, NanoTypes, PoolTypes
  <2>3. lastPrev \in Nat /\ lastPrev <= node.tip => lastPrev <= node'.tip
    BY <1>1, <2>2
  <2> QED BY <2>1, <2>3 DEF Numbered, InOrder
<1>5. CASE Accepts
  <2>1. UNCHANGED <<node, active, past, nextId, lastPrev>> /\ firstId' = None
    BY <1>5 DEF Accepts
  <2> QED BY <2>1 DEF Numbered, InOrder
<1>6. CASE HandleOpen \/ PushInitial
  <2>1. active # None
    BY <1>6 DEF HandleOpen, PushInitial, OpenInv
  <2>2. UNCHANGED <<node, past, nextId, lastPrev>> /\ firstId' = active.id
    BY <1>6 DEF HandleOpen, PushInitial, handlerRest
  <2>3. active' = active \/ active' = [active EXCEPT !.prefix = "channel"]
    BY <1>6 DEF HandleOpen, PushInitial, LatchPrefix
  <2>4. active' \in Jobs /\ active'.id = active.id /\ active'.tip = active.tip
    BY <1>1, <2>1, <2>3 DEF Jobs
  <2>5. active.id \in Nat /\ active.id <= active.id
    BY <1>1, <2>1 DEF Jobs
  <2> QED BY <1>1, <2>1, <2>2, <2>4, <2>5 DEF Numbered, InOrder
<1>7. CASE Refresh
  <2>1. PICK j \in Jobs :
             /\ active' = j /\ j.id = nextId /\ j.tip = node.tip
             /\ nextId' = nextId + 1 /\ lastPrev' = node.tip
             /\ past' = Retain(<<>>) \/ past' = Retain(past)
    BY <1>7, RefreshCases, Zenon
  <2>2. UNCHANGED <<node, firstId>>
    BY <1>7 DEF Refresh
  <2>3. PICK none \in Seq(Jobs) : none = <<>>
    <3>1. <<>> \in Seq(Jobs)
      OBVIOUS
    <3> QED BY <3>1, Zenon
  <2>4. CASE active = None
    <3>1. past = <<>> /\ firstId = None
      BY <2>4 DEF Numbered
    <3>2. Retain(<<>>) = <<>>
      BY <2>4, NanoPoolConstants DEF Retain
    <3>3. past' = <<>> /\ Len(past') <= MaxPast
      BY <2>1, <3>1, <3>2, NanoPoolConstants
    <3>4. InOrder(past, active.id, lastPrev)'
      BY <3>3 DEF InOrder
    <3> QED BY <1>1, <2>1, <2>2, <3>1, <3>3, <3>4 DEF Numbered
  <2>5. CASE active # None
    <3>1. lastPrev <= node.tip /\ lastPrev \in Nat /\ InOrder(past, active.id, lastPrev)
      BY <2>5 DEF Numbered
    <3>2. InOrder(none, active.id, lastPrev)
      BY <2>3 DEF InOrder
    <3>3. lastPrev <= lastPrev' /\ lastPrev' <= node.tip /\ lastPrev' \in Nat /\ j.tip = lastPrev'
      BY <1>1, <2>1, <3>1
    <3>4. CASE past' = Retain(past)
      BY <1>1, <2>1, <2>2, <2>5, <3>1, <3>3, <3>4, NumberedNew
    <3>5. CASE past' = Retain(none)
      BY <2>1, <2>2, <2>5, <3>2, <3>3, <3>5, NumberedNew
    <3> QED BY <2>1, <2>3, <3>4, <3>5
  <2> QED BY <2>4, <2>5
<1>8. CASE HandleVardiff
  <2>1. UNCHANGED <<node, lastPrev, firstId>>
    BY <1>8 DEF HandleVardiff
  <2>2. CASE UNCHANGED <<active, past, nextId, queue, lagged>>
    BY <1>2, <2>1, <2>2
  <2>3. CASE ~(UNCHANGED <<active, past, nextId, queue, lagged>>)
    <3>1. PICK j \in Jobs :
            /\ active' = j /\ j.id = nextId /\ j.tip = active.tip
            /\ active # None /\ past' = Retain(past) /\ nextId' = nextId + 1
      BY <1>8, <2>3, VardiffCases, Zenon
    <3>2. /\ lastPrev <= node.tip /\ lastPrev \in Nat /\ InOrder(past, active.id, lastPrev)
          /\ active.tip = lastPrev
      BY <3>1 DEF Numbered
    <3>3. lastPrev <= lastPrev' /\ lastPrev' <= node.tip /\ lastPrev' \in Nat /\ j.tip = lastPrev'
      BY <1>1, <2>1, <3>1, <3>2
    <3> QED BY <1>1, <2>1, <3>1, <3>2, <3>3, NumberedNew
  <2> QED BY <2>2, <2>3
<1> QED
  BY <1>3, <1>4, <1>5, <1>6, <1>7, <1>8 DEF NanoNext, HandlerSteps

\* The pool can judge a share of job id under the present tip.
RightId(id) ==
    firstId # None =>
        \/ id < firstId
        \/ id + MaxPast < active.id
        \/ \E j \in Known : j.id = id /\ j.tip = lastPrev

\* Tip t may stand with job id: it is past, or the pool can judge the two.
Fits(t, id) ==
    lastPrev # None /\ t <= lastPrev /\ id < nextId /\ (t = lastPrev => RightId(id))

\* What fits goes on fitting.
LEMMA FitsNew ==
    ASSUME NanoTypes, Numbered, active # None, NEW j \in Jobs, active' = j, j.id = nextId,
           past' = Retain(past), nextId' = nextId + 1, UNCHANGED <<lastPrev, firstId>>,
           NEW t \in Nat, NEW id \in Nat, Fits(t, id)
    PROVE  Fits(t, id)'
<1>1. /\ active \in Jobs /\ active.id \in Nat /\ lastPrev \in Nat /\ active.tip <= lastPrev
      /\ active.id + 1 = nextId /\ past \in Seq(Jobs) /\ InOrder(past, active.id, lastPrev)
      /\ MaxPast \in Nat /\ None \notin Jobs /\ active' # None
  BY NanoPoolConstants DEF NanoTypes, PoolTypes, Numbered, Jobs
<1>2. PICK r : r = Retain(past)
  OBVIOUS
<1>3. \A k \in Elems(past) \cup {active} : k \in Elems(r) \/ k.id + MaxPast <= active.id
  BY <1>1, <1>2, RetainOrder
<1>4. Known = {active} \cup Elems(past) /\ Known' = {j} \cup Elems(r)
  BY <1>1, <1>2 DEF Known, Elems
<1>5. id < nextId /\ id < nextId'
  BY <1>1 DEF Fits
<1>6. ASSUME RightId(id), firstId # None PROVE RightId(id)'
  <2>1. CASE id < firstId
    BY <2>1 DEF RightId
  <2>2. CASE id + MaxPast < active.id
    <3>1. id + MaxPast < j.id
      BY <1>1, <2>2
    <3> QED BY <3>1 DEF RightId
  <2>3. CASE \E k \in Known : k.id = id /\ k.tip = lastPrev
    <3>1. PICK k \in Known : k.id = id /\ k.tip = lastPrev
      BY <2>3
    <3>2. CASE k \in Elems(r)
      BY <1>4, <3>1, <3>2 DEF RightId
    <3>3. CASE k.id + MaxPast <= active.id
      <4>1. id + MaxPast < j.id
        BY <1>1, <3>1, <3>3
      <4> QED BY <4>1 DEF RightId
    <3> QED BY <1>3, <1>4, <3>1, <3>2, <3>3
  <2> QED BY <1>6, <2>1, <2>2, <2>3 DEF RightId
<1>7. RightId(id) => RightId(id)'
  BY <1>6 DEF RightId
<1> QED BY <1>5, <1>7 DEF Fits

\* The pool's jobs after a step: those of before, a new first job, a new tip,
\* or a new job under the same tip.
LEMMA FitsStep ==
    ASSUME NanoTypes, OpenInv, Numbered, [NanoNext]_nanoVars,
           NEW t \in Nat, NEW id \in Nat, Fits(t, id)
    PROVE  Fits(t, id)'
<1>1. /\ active \in Jobs /\ lastPrev \in Nat /\ nextId \in Nat /\ active.id \in Nat /\ active # None
      /\ node.tip \in Nat /\ past \in Seq(Jobs) /\ None \notin Jobs /\ None \notin Nat
      /\ lastPrev <= node.tip /\ active.tip = lastPrev /\ active.id + 1 = nextId
      /\ firstId \in Nat \cup {None}
  <2>1. lastPrev # None
    BY DEF Fits
  <2>2. active # None
    BY <2>1 DEF Numbered
  <2> QED BY <2>1, <2>2, NanoPoolConstants, StratumV2Constants DEF NanoTypes, PoolTypes, Jobs, Numbered
<1>2. ASSUME UNCHANGED <<active, past, nextId, lastPrev, firstId>> PROVE Fits(t, id)'
  BY <1>2 DEF Fits, RightId, Known, Elems
<1>3. CASE DeviceOnly \/ Forward \/ HandleSetup \/ OpenTooEarly \/ HandleShare \/ Answer \/ LinkBreaks
           \/ NodeChanges \/ UNCHANGED nanoVars
  <2>1. UNCHANGED <<active, past, nextId, lastPrev, firstId>>
    BY <1>3 DEF DeviceOnly, poolVars, nanoVars, Forward, HandleSetup, OpenTooEarly, HandleShare,
       Answer, LinkBreaks, NodeChanges, handlerRest
  <2> QED BY <1>2, <2>1
<1>4. CASE Accepts
  <2>1. UNCHANGED <<nextId, lastPrev>> /\ firstId' = None
    BY <1>4 DEF Accepts
  <2> QED BY <2>1 DEF Fits, RightId
<1>5. CASE HandleOpen \/ PushInitial
  <2>1. UNCHANGED <<past, nextId, lastPrev>> /\ firstId' = active.id
    BY <1>5 DEF HandleOpen, PushInitial, handlerRest
  <2>2. active' = active \/ active' = [active EXCEPT !.prefix = "channel"]
    BY <1>5 DEF HandleOpen, PushInitial, LatchPrefix
  <2>3. active' \in Jobs /\ active'.id = active.id /\ active'.tip = active.tip
    BY <1>1, <2>2 DEF Jobs
  <2>4. active' \in Known'
    BY <1>1, <2>3 DEF Known
  <2>5. id < nextId
    BY DEF Fits
  <2>6. id < active.id \/ id = active.id
    BY <1>1, <2>5
  <2>7. RightId(id)'
    BY <1>1, <2>1, <2>3, <2>4, <2>6 DEF RightId
  <2> QED BY <2>1, <2>7 DEF Fits
<1>6. CASE Refresh
  <2>1. PICK j \in Jobs :
             /\ active' = j /\ j.id = nextId /\ nextId' = nextId + 1 /\ lastPrev' = node.tip
             /\ NewTip \/ past' = Retain(past)
    BY <1>6, RefreshCases, Zenon
  <2>2. UNCHANGED firstId
    BY <1>6 DEF Refresh
  <2>3. CASE NewTip
    <3>1. lastPrev # node.tip
      BY <2>3 DEF NewTip
    <3>2. t <= lastPrev' /\ t # lastPrev' /\ id < nextId' /\ lastPrev' # None
      BY <1>1, <2>1, <3>1 DEF Fits
    <3> QED BY <3>2 DEF Fits
  <2>4. CASE ~NewTip
    <3>1. lastPrev' = lastPrev /\ past' = Retain(past)
      BY <2>1, <2>4 DEF NewTip
    <3> QED BY <1>1, <2>1, <2>2, <3>1, FitsNew
  <2> QED BY <2>3, <2>4
<1>7. CASE HandleVardiff
  <2>1. UNCHANGED <<lastPrev, firstId>>
    BY <1>7 DEF HandleVardiff
  <2>2. CASE UNCHANGED <<active, past, nextId, queue, lagged>>
    BY <1>2, <2>1, <2>2
  <2>3. CASE ~(UNCHANGED <<active, past, nextId, queue, lagged>>)
    <3>1. PICK j \in Jobs :
            active' = j /\ j.id = nextId /\ past' = Retain(past) /\ nextId' = nextId + 1
      BY <1>7, <2>3, VardiffCases, Zenon
    <3> QED BY <1>1, <2>1, <3>1, FitsNew
  <2> QED BY <2>2, <2>3
<1> QED
  BY <1>3, <1>4, <1>5, <1>6, <1>7 DEF NanoNext, HandlerSteps

LEMMA PastIds ==
    ASSUME NEW q \in Seq(Jobs), NEW a \in Nat, NEW t, InOrder(q, a, t), NEW j \in Elems(q)
    PROVE  j.id < a /\ j.id \in Nat
<1>1. PICK i \in DOMAIN q : j = q[i]
  BY DEF Elems
<1> DEFINE n == Len(q)
<1>2. n \in Nat /\ i \in 1..n /\ q[i] \in Jobs
  OBVIOUS
<1>3. q[i].id + (n + 1) = a + i
  BY DEF InOrder
<1> HIDE DEF n
<1>4. PICK x \in Nat : x = q[i].id
  BY <1>2 DEF Jobs
<1>5. i \in Nat /\ i <= n /\ x + (n + 1) = a + i
  BY <1>2, <1>3, <1>4
<1>6. x < a
  BY <1>2, <1>5
<1> QED BY <1>1, <1>4, <1>6

\* A new job has the prefix of the one before it.
LEMMA PrefixNew ==
    ASSUME NanoTypes, OpenInv, Numbered, PrefixInv, NEW j \in Jobs, active' = j,
           active # None => j.prefix = active.prefix,
           NEW q \in Seq(Jobs), Elems(q) \subseteq Elems(past), past' = Retain(q),
           InOrder(q, active.id, lastPrev), UNCHANGED <<firstId, open>>
    PROVE  PrefixInv'
<1> SUFFICES ASSUME open, NEW k \in Known', k.id >= firstId PROVE k.prefix = "channel"
  BY DEF PrefixInv
<1>1. /\ active # None /\ active \in Jobs /\ active.id \in Nat /\ lastPrev \in Nat
      /\ firstId \in Nat /\ firstId <= active.id /\ active.tip <= lastPrev
  BY NanoPoolConstants DEF NanoTypes, PoolTypes, OpenInv, Numbered, Jobs
<1>2. active \in Known /\ Elems(past) \subseteq Known
  BY <1>1 DEF Known
<1>3. active.prefix = "channel"
  BY <1>1, <1>2 DEF PrefixInv
<1>4. PICK r : r = Retain(q)
  OBVIOUS
<1>5. Elems(r) \subseteq Elems(q) \cup {active}
  BY <1>1, <1>4, RetainOrder
<1>6. k = j \/ k \in Elems(r)
  BY <1>4, NanoPoolConstants DEF Known, Elems
<1>7. k = j \/ k \in Known
  BY <1>2, <1>5, <1>6
<1> QED BY <1>1, <1>3, <1>7 DEF PrefixInv

LEMMA PrefixStep ==
    ASSUME NanoTypes, OpenInv, Numbered, PrefixInv, [NanoNext]_nanoVars PROVE PrefixInv'
<1>1. ASSUME UNCHANGED <<active, past, firstId, open>> PROVE PrefixInv'
  BY <1>1 DEF PrefixInv, Known, Elems
<1>2. CASE DeviceOnly \/ Forward \/ HandleSetup \/ OpenTooEarly \/ HandleShare \/ Answer
           \/ NodeChanges \/ UNCHANGED nanoVars
  <2>1. UNCHANGED <<active, past, firstId, open>>
    BY <1>2 DEF DeviceOnly, poolVars, nanoVars, Forward, HandleSetup, OpenTooEarly, HandleShare,
       Answer, NodeChanges, handlerRest
  <2> QED BY <1>1, <2>1
<1>3. CASE Accepts \/ LinkBreaks
  BY <1>3 DEF Accepts, LinkBreaks, PrefixInv
<1>4. CASE HandleOpen \/ PushInitial
  <2>1. active # None /\ active \in Jobs /\ active.id \in Nat
    BY <1>4, NanoPoolConstants DEF HandleOpen, PushInitial, OpenInv, NanoTypes, PoolTypes, Jobs
  <2>2. UNCHANGED past /\ firstId' = active.id
    BY <1>4 DEF HandleOpen, PushInitial
  <2>3. active'.id = active.id /\ active'.prefix = "channel" /\ active' # None
    <3>1. CASE HandleOpen
      BY <2>1, <3>1, NanoPoolConstants DEF HandleOpen, LatchPrefix, Jobs
    <3>2. CASE PushInitial
      <4>1. open /\ active' = active /\ firstId # None
        BY <3>2 DEF PushInitial, OpenInv
      <4>2. active \in Known /\ active.id >= firstId
        BY <2>1, <4>1 DEF Known, Numbered, NanoTypes, PoolTypes
      <4> QED BY <2>1, <4>1, <4>2 DEF PrefixInv
    <3> QED BY <1>4, <3>1, <3>2
  <2>4. \A j \in Elems(past) : j.id < active.id /\ j.id \in Nat
    <3>1. past \in Seq(Jobs) /\ InOrder(past, active.id, lastPrev)
      BY <2>1 DEF NanoTypes, PoolTypes, Numbered
    <3> QED BY <2>1, <3>1, PastIds
  <2>5. \A j \in Known' : j = active' \/ j \in Elems(past)
    BY <2>2, <2>3 DEF Known, Elems
  <2>6. \A j \in Elems(past) : ~(j.id >= active.id)
    BY <2>1, <2>4
  <2> QED BY <2>2, <2>3, <2>5, <2>6 DEF PrefixInv
<1>5. CASE Refresh
  <2>1. PICK j \in Jobs : /\ active' = j /\ (active # None => j.prefix = active.prefix)
                          /\ past' = Retain(<<>>) \/ past' = Retain(past)
    BY <1>5, RefreshCases, Zenon
  <2>2. UNCHANGED <<firstId, open>>
    BY <1>5 DEF Refresh
  <2>3. PICK none \in Seq(Jobs) : none = <<>>
    <3>1. <<>> \in Seq(Jobs)
      OBVIOUS
    <3> QED BY <3>1, Zenon
  <2>4. CASE ~open
    BY <2>2, <2>4 DEF PrefixInv
  <2>5. CASE open
    <3>1. past \in Seq(Jobs) /\ InOrder(past, active.id, lastPrev)
      BY <2>5 DEF OpenInv, Numbered, NanoTypes, PoolTypes
    <3>2. InOrder(none, active.id, lastPrev) /\ Elems(none) \subseteq Elems(past)
      BY <2>3 DEF InOrder, Elems
    <3>3. CASE past' = Retain(past)
      BY <2>1, <2>2, <3>1, <3>3, PrefixNew
    <3>4. CASE past' = Retain(none)
      BY <2>1, <2>2, <3>2, <3>4, PrefixNew
    <3> QED BY <2>1, <2>3, <3>3, <3>4
  <2> QED BY <2>4, <2>5
<1>6. CASE HandleVardiff
  <2>1. UNCHANGED <<firstId, open>>
    BY <1>6 DEF HandleVardiff
  <2>2. CASE UNCHANGED <<active, past, nextId, queue, lagged>>
    BY <1>1, <2>1, <2>2
  <2>3. CASE ~(UNCHANGED <<active, past, nextId, queue, lagged>>)
    <3>1. PICK j \in Jobs :
            active' = j /\ active # None /\ j.prefix = active.prefix /\ past' = Retain(past)
      BY <1>6, <2>3, VardiffCases, Zenon
    <3>2. past \in Seq(Jobs) /\ InOrder(past, active.id, lastPrev)
      BY <3>1 DEF Numbered, NanoTypes, PoolTypes
    <3> QED BY <2>1, <3>1, <3>2, PrefixNew
  <2> QED BY <2>2, <2>3
<1> QED
  BY <1>2, <1>3, <1>4, <1>5, <1>6 DEF NanoNext, HandlerSteps

\* The known jobs after a step are known before it, or new.
LEMMA KnownStep ==
    ASSUME NanoTypes, OpenInv, Numbered, [NanoNext]_nanoVars, NEW j \in Known'
    PROVE  (\E i \in Known : i.id = j.id /\ i.tip = j.tip) \/ (j.id = nextId /\ j.tip = lastPrev')
<1>1. /\ active \in Jobs \cup {None} /\ past \in Seq(Jobs) /\ None \notin Jobs
      /\ active # None => active.tip = lastPrev /\ lastPrev \in Nat /\ InOrder(past, active.id, lastPrev)
      /\ active = None => past = <<>>
  BY NanoPoolConstants DEF NanoTypes, PoolTypes, Numbered
<1>2. CASE UNCHANGED <<active, past>>
  BY <1>2 DEF Known, Elems
<1>3. ASSUME NEW k \in Jobs, NEW q \in Seq(Jobs), active' = k, k.id = nextId, k.tip = lastPrev',
             past' = Retain(q), Elems(q) \subseteq Elems(past), active # None => InOrder(q, active.id, lastPrev),
             active = None => q = <<>>
      PROVE  (\E i \in Known : i.id = j.id /\ i.tip = j.tip) \/ (j.id = nextId /\ j.tip = lastPrev')
  <2>1. j = k \/ j \in Elems(past')
    BY <1>1, <1>3 DEF Known, Elems
  <2>2. CASE active = None
    <3>1. Retain(<<>>) = <<>>
      BY <2>2, NanoPoolConstants DEF Retain
    <3>2. Elems(past') = {}
      BY <1>3, <2>2, <3>1, EmptyQueue
    <3> QED BY <1>3, <2>1, <3>2
  <2>3. CASE active # None
    <3>1. active.tip <= lastPrev
      BY <1>1, <2>3
    <3>2. PICK r : r = Retain(q)
      OBVIOUS
    <3>3. Elems(r) \subseteq Elems(q) \cup {active}
      BY <1>1, <1>3, <2>3, <3>1, <3>2, RetainOrder
    <3>4. Elems(past') \subseteq Known
      BY <1>3, <2>3, <3>2, <3>3 DEF Known
    <3> QED BY <1>3, <2>1, <3>4
  <2> QED BY <2>2, <2>3
<1>4. CASE DeviceOnly \/ Forward \/ HandleSetup \/ OpenTooEarly \/ HandleShare \/ Answer \/ LinkBreaks
           \/ NodeChanges \/ Accepts \/ PushInitial \/ UNCHANGED nanoVars
  <2>1. UNCHANGED <<active, past>>
    BY <1>4 DEF DeviceOnly, poolVars, nanoVars, Forward, HandleSetup, OpenTooEarly, HandleShare,
       Answer, LinkBreaks, NodeChanges, Accepts, PushInitial, handlerRest
  <2> QED BY <1>2, <2>1
<1>5. CASE HandleOpen
  <2>1. active # None /\ active' = [active EXCEPT !.prefix = "channel"] /\ UNCHANGED past
    BY <1>5 DEF HandleOpen, LatchPrefix
  <2>2. active'.id = active.id /\ active'.tip = active.tip /\ active' # None
    BY <1>1, <2>1 DEF Jobs
  <2> QED BY <2>1, <2>2 DEF Known, Elems
<1>6. CASE Refresh
  <2>1. PICK k \in Jobs : /\ active' = k /\ k.id = nextId /\ k.tip = node.tip /\ lastPrev' = node.tip
                          /\ past' = Retain(<<>>) \/ past' = Retain(past)
    BY <1>6, RefreshCases, Zenon
  <2>2. PICK none \in Seq(Jobs) : none = <<>>
    <3>1. <<>> \in Seq(Jobs)
      OBVIOUS
    <3> QED BY <3>1, Zenon
  <2>3. InOrder(none, active.id, lastPrev) /\ Elems(none) \subseteq Elems(past)
    BY <2>2 DEF InOrder, Elems
  <2>4. CASE past' = Retain(past)
    BY <1>1, <1>3, <2>1, <2>4
  <2>5. CASE past' = Retain(none)
    BY <1>3, <2>1, <2>2, <2>3, <2>5
  <2> QED BY <2>1, <2>2, <2>4, <2>5
<1>7. CASE HandleVardiff
  <2>1. CASE UNCHANGED <<active, past, nextId, queue, lagged>>
    BY <1>2, <2>1
  <2>2. CASE ~(UNCHANGED <<active, past, nextId, queue, lagged>>)
    <3>1. PICK k \in Jobs : /\ active' = k /\ active # None /\ k.id = nextId /\ k.tip = active.tip
                            /\ past' = Retain(past)
      BY <1>7, <2>2, VardiffCases, Zenon
    <3>2. UNCHANGED lastPrev
      BY <1>7 DEF HandleVardiff
    <3> QED BY <1>1, <1>3, <3>1, <3>2
  <2> QED BY <2>1, <2>2
<1> QED
  BY <1>4, <1>5, <1>6, <1>7 DEF NanoNext, HandlerSteps

-----------------------------------------------------------------------------
(* The messages on their way to the device.                                *)

Wire == Elems(down) \cup Elems(queue)

\* Message a reaches the device before message b.
Before(a, b) ==
    \/ Ahead(down, a, b)
    \/ Ahead(queue, a, b)
    \/ a \in Elems(down) /\ b \in Elems(queue)

\* A job goes with the tip in effect and with every tip that comes before it,
\* and a job that is still known with the tip that is sent with it.
MsgInv ==
    /\ prev # None => lastPrev # None /\ prev <= lastPrev
    /\ \A m \in Wire : /\ m.type = "prev" => Fits(m.tip, m.id)
                       /\ m.type = "job" => m.id < nextId /\ (prev # None => Fits(prev, m.id))
    /\ \A a, b \in Wire :
          Before(a, b) /\ a.type = "prev" /\ b.type = "job" => Fits(a.tip, b.id)
    /\ \A m \in Wire, j \in Known : m.type = "prev" /\ j.id = m.id => j.tip = m.tip

\* A message about the active job.
OfActive(m) == active # None /\ m.id = active.id /\ (m.type = "prev" => m.tip = active.tip)

\* Ids and tips only grow.
LEMMA Grows ==
    ASSUME NanoTypes, OpenInv, Numbered, [NanoNext]_nanoVars
    PROVE  /\ nextId <= nextId'
           /\ lastPrev # None => lastPrev' # None /\ lastPrev <= lastPrev'
<1>1. /\ lastPrev \in Nat \cup {None} /\ nextId \in Nat /\ None \notin Nat /\ node.tip \in Nat
  BY StratumV2Constants DEF NanoTypes, PoolTypes
<1>2. ASSUME UNCHANGED lastPrev, nextId' = nextId \/ nextId' = nextId + 1
      PROVE  nextId <= nextId' /\ (lastPrev # None => lastPrev' # None /\ lastPrev <= lastPrev')
  BY <1>1, <1>2
<1>3. CASE DeviceOnly \/ Forward \/ HandleSetup \/ OpenTooEarly \/ HandleShare \/ Answer \/ Accepts
           \/ NodeChanges \/ LinkBreaks \/ HandleOpen \/ PushInitial \/ UNCHANGED nanoVars
  <2>1. UNCHANGED <<lastPrev, nextId>>
    BY <1>3 DEF DeviceOnly, poolVars, nanoVars, Forward, HandleSetup, OpenTooEarly, HandleShare,
       Answer, Accepts, NodeChanges, LinkBreaks, HandleOpen, PushInitial, handlerRest
  <2> QED BY <1>2, <2>1
<1>4. CASE Refresh
  <2>1. nextId' = nextId + 1 /\ lastPrev' = node.tip
    BY <1>4 DEF Refresh
  <2>2. lastPrev # None => lastPrev <= node.tip
    BY DEF Numbered
  <2> QED BY <1>1, <2>1, <2>2
<1>5. CASE HandleVardiff
  <2>1. UNCHANGED lastPrev
    BY <1>5 DEF HandleVardiff
  <2>2. nextId' = nextId \/ nextId' = nextId + 1
    BY <1>5, VardiffCases
  <2> QED BY <1>2, <2>1, <2>2
<1> QED
  BY <1>3, <1>4, <1>5 DEF NanoNext, HandlerSteps

LEMMA WireTypes ==
    ASSUME NEW d \in Seq(Messages), NEW q \in Seq(Broadcasts), NEW m \in Elems(d) \cup Elems(q)
    PROVE  /\ m \in Messages
           /\ m.type = "job" => m.id \in Nat
           /\ m.type = "prev" => m.id \in Nat /\ m.tip \in Nat
<1>1. Elems(d) \subseteq Messages /\ Elems(q) \subseteq Broadcasts
  BY DEF Elems
<1>2. m \in Messages
  BY <1>1, MadeTypes
<1> QED BY <1>2, MessageKinds

\* A step that adds only messages about the active job keeps the order.
LEMMA MsgKept ==
    ASSUME NanoTypes, OpenInv, Numbered, MsgInv, [NanoNext]_nanoVars, UNCHANGED prev,
           \A m \in Wire' : m \in Wire \/ m.type \notin {"job", "prev"} \/ OfActive(m)',
           \A a, b \in Wire' :
              Before(a, b)' => \/ a \in Wire /\ b \in Wire /\ Before(a, b)
                               \/ a.type # "prev" \/ b.type # "job" \/ OfActive(b)'
    PROVE  MsgInv'
<1>1. NanoTypes' /\ Numbered'
  BY TypesStep, NumberedStep
<1>2. \A m \in Wire' : /\ m.type = "job" => m.id \in Nat
                       /\ m.type = "prev" => m.id \in Nat /\ m.tip \in Nat
  <2>1. PICK d \in Seq(Messages), q \in Seq(Broadcasts) : d = down' /\ q = queue'
    BY <1>1 DEF NanoTypes, LinkTypes, PoolTypes
  <2>2. Wire' = Elems(d) \cup Elems(q)
    BY <2>1 DEF Wire, Elems
  <2> QED BY <2>2, WireTypes
<1>3. /\ nextId \in Nat /\ nextId' \in Nat /\ prev \in Nat \cup {None} /\ None \notin Nat
      /\ lastPrev \in Nat \cup {None} /\ lastPrev' \in Nat \cup {None}
  BY <1>1, StratumV2Constants DEF NanoTypes, PoolTypes, DeviceTypes
<1>4. /\ nextId <= nextId'
      /\ lastPrev # None => lastPrev' # None /\ lastPrev <= lastPrev'
  BY Grows
<1>5. ASSUME NEW t \in Nat, NEW id \in Nat, Fits(t, id) PROVE Fits(t, id)'
  BY <1>5, FitsStep
<1>6. ASSUME NEW t \in Nat, active' # None, t <= lastPrev' PROVE Fits(t, active.id)'
  <2>1. /\ active'.tip = lastPrev' /\ lastPrev' \in Nat /\ active'.id + 1 = nextId' /\ active'.id \in Nat
    BY <1>1, <1>6 DEF Numbered, NanoTypes, PoolTypes, Jobs
  <2>2. active' \in Known' /\ active'.id < nextId' /\ lastPrev' # None
    BY <1>6, <2>1, StratumV2Constants DEF Known
  <2> QED BY <1>6, <2>1, <2>2 DEF Fits, RightId
<1>7. (prev # None => lastPrev # None /\ prev <= lastPrev)'
  BY <1>3, <1>4 DEF MsgInv
<1>8. active' # None => active'.id < nextId' /\ active'.tip = lastPrev' /\ lastPrev' \in Nat
  BY <1>1, <1>3 DEF Numbered, NanoTypes, PoolTypes, Jobs
<1>9. ASSUME NEW m \in Wire', m.type = "prev" PROVE Fits(m.tip, m.id)'
  <2>1. CASE m \in Wire
    BY <1>2, <1>5, <1>9, <2>1 DEF MsgInv
  <2>2. CASE OfActive(m)'
    <3>1. active' # None /\ m.id = active'.id /\ m.tip = active'.tip /\ m.tip \in Nat
      BY <1>2, <1>9, <2>2 DEF OfActive
    <3>2. m.tip <= lastPrev'
      BY <1>8, <3>1
    <3> QED BY <1>6, <3>1, <3>2
  <2> QED BY <1>9, <2>1, <2>2
<1>10. ASSUME NEW m \in Wire', m.type = "job"
       PROVE  m.id < nextId' /\ (prev' # None => Fits(prev, m.id)')
  <2>1. CASE m \in Wire
    <3>1. m.id < nextId /\ (prev # None => Fits(prev, m.id)) /\ m.id \in Nat
      BY <1>2, <1>10, <2>1 DEF MsgInv
    <3>2. m.id < nextId'
      BY <1>3, <1>4, <3>1
    <3>3. ASSUME prev # None PROVE Fits(prev, m.id)'
      <4>1. PICK t \in Nat : t = prev
        BY <1>3, <3>3
      <4>2. Fits(t, m.id)'
        BY <1>5, <3>1, <3>3, <4>1
      <4> QED BY <4>1, <4>2 DEF Fits
    <3> QED BY <3>2, <3>3
  <2>2. CASE OfActive(m)'
    <3>1. active' # None /\ m.id = active'.id
      BY <2>2 DEF OfActive
    <3>2. m.id < nextId'
      BY <1>8, <3>1
    <3>3. ASSUME prev # None PROVE Fits(prev, m.id)'
      <4>1. PICK t \in Nat : t = prev
        BY <1>3, <3>3
      <4>2. t <= lastPrev'
        BY <1>7, <3>3, <4>1
      <4>3. Fits(t, m.id)'
        BY <1>6, <3>1, <4>2
      <4> QED BY <4>1, <4>3 DEF Fits
    <3> QED BY <3>2, <3>3
  <2> QED BY <1>10, <2>1, <2>2
<1>11. ASSUME NEW a \in Wire', NEW b \in Wire', Before(a, b)', a.type = "prev", b.type = "job"
       PROVE  Fits(a.tip, b.id)'
  <2>1. a.tip \in Nat /\ b.id \in Nat
    BY <1>2, <1>11
  <2>2. CASE a \in Wire /\ b \in Wire /\ Before(a, b)
    <3>1. Fits(a.tip, b.id)
      BY <1>11, <2>2 DEF MsgInv
    <3> QED BY <1>5, <2>1, <3>1
  <2>3. CASE OfActive(b)'
    <3>1. active' # None /\ b.id = active'.id
      BY <2>3 DEF OfActive
    <3>2. a.tip <= lastPrev'
      BY <1>9, <1>11 DEF Fits
    <3> QED BY <1>6, <2>1, <3>1, <3>2
  <2> QED BY <1>11, <2>2, <2>3
<1>12. ASSUME NEW m \in Wire', NEW j \in Known', m.type = "prev", j.id = m.id PROVE j.tip = m.tip
  <2>1. CASE m \in Wire
    <3>1. m.id < nextId /\ m.id \in Nat
      BY <1>2, <1>12, <2>1 DEF MsgInv, Fits
    <3>2. PICK i \in Known : i.id = j.id /\ i.tip = j.tip
      <4>1. j.id # nextId
        BY <1>3, <1>12, <3>1
      <4> QED BY <4>1, KnownStep
    <3> QED BY <1>12, <2>1, <3>2 DEF MsgInv
  <2>2. CASE OfActive(m)'
    <3>1. active' # None /\ j.id = active'.id /\ m.tip = active'.tip
      BY <1>12, <2>2 DEF OfActive
    <3>2. PICK q \in Seq(Jobs), a \in Nat : q = past' /\ a = active'.id /\ InOrder(q, a, lastPrev')
      BY <1>1, <3>1 DEF NanoTypes, PoolTypes, Numbered, Jobs
    <3>3. j \notin Elems(q)
      <4> SUFFICES ASSUME j \in Elems(q) PROVE FALSE
        OBVIOUS
      <4>1. j.id < a /\ j.id \in Nat
        BY <3>2, PastIds
      <4> QED BY <3>1, <3>2, <4>1
    <3>4. j = active'
      BY <3>1, <3>2, <3>3 DEF Known
    <3> QED BY <3>1, <3>4
  <2> QED BY <1>12, <2>1, <2>2
<1> QED BY <1>7, <1>9, <1>10, <1>11, <1>12 DEF MsgInv

LEMMA AheadIn == ASSUME NEW s, NEW a, NEW b, Ahead(s, a, b) PROVE a \in Elems(s) /\ b \in Elems(s)
BY DEF Ahead, Elems

\* A broadcast about the active job.
LEMMA MsgBroadcast ==
    ASSUME NanoTypes, OpenInv, Numbered, MsgInv, [NanoNext]_nanoVars, UNCHANGED <<prev, down>>,
           NEW N, Elems(queue') \subseteq Elems(queue) \cup N,
           \A a, b : Ahead(queue', a, b) => Ahead(queue, a, b) \/ b \in N,
           \A m \in N : m.type \notin {"job", "prev"} \/ OfActive(m)'
    PROVE  MsgInv'
<1>1. Wire = Elems(down) \cup Elems(queue) /\ Wire' = Elems(down) \cup Elems(queue')
  BY DEF Wire, Elems
<1>2. \A m \in Wire' : m \in Wire \/ m.type \notin {"job", "prev"} \/ OfActive(m)'
  BY <1>1
<1>3. ASSUME NEW a, NEW b, Before(a, b)'
      PROVE  (a \in Wire /\ b \in Wire /\ Before(a, b)) \/ b \in N
  <2>1. \/ Ahead(down, a, b) \/ Ahead(queue', a, b)
        \/ a \in Elems(down) /\ b \in Elems(queue')
    BY <1>3 DEF Before, Ahead, Elems
  <2>2. CASE Ahead(down, a, b)
    BY <1>1, <2>2, AheadIn DEF Before
  <2>3. CASE Ahead(queue', a, b)
    BY <1>1, <2>3, AheadIn DEF Before
  <2>4. CASE a \in Elems(down) /\ b \in Elems(queue')
    BY <1>1, <2>4 DEF Before
  <2> QED BY <2>1, <2>2, <2>3, <2>4
<1>4. \A a, b \in Wire' :
         Before(a, b)' => \/ a \in Wire /\ b \in Wire /\ Before(a, b)
                          \/ a.type # "prev" \/ b.type # "job" \/ OfActive(b)'
  BY <1>3
<1> QED BY <1>2, <1>4, MsgKept

\* A message that is neither a job nor a tip.
LEMMA MsgAppend ==
    ASSUME NanoTypes, OpenInv, Numbered, MsgInv, [NanoNext]_nanoVars, UNCHANGED <<prev, queue>>,
           NEW x \in Messages, x.type \notin {"job", "prev"}, down' = Append(down, x)
    PROVE  MsgInv'
<1>1. /\ Elems(down') = Elems(down) \cup {x}
      /\ \A a, b : Ahead(down', a, b) => Ahead(down, a, b) \/ (a \in Elems(down) /\ b = x)
  BY AppendQueue DEF NanoTypes, LinkTypes
<1>2. Wire = Elems(down) \cup Elems(queue) /\ Wire' = Elems(down') \cup Elems(queue)
  BY DEF Wire, Elems
<1>3. \A m \in Wire' : m \in Wire \/ m.type \notin {"job", "prev"} \/ OfActive(m)'
  BY <1>1, <1>2
<1>4. ASSUME NEW a, NEW b, Before(a, b)'
      PROVE  (a \in Wire /\ b \in Wire /\ Before(a, b)) \/ a = x \/ b = x
  <2>1. \/ Ahead(down', a, b) \/ Ahead(queue, a, b)
        \/ a \in Elems(down') /\ b \in Elems(queue)
    BY <1>4 DEF Before, Ahead, Elems
  <2>2. CASE Ahead(down', a, b)
    BY <1>1, <1>2, <2>2, AheadIn DEF Before
  <2>3. CASE Ahead(queue, a, b)
    BY <1>2, <2>3, AheadIn DEF Before
  <2>4. CASE a \in Elems(down') /\ b \in Elems(queue)
    BY <1>1, <1>2, <2>4 DEF Before
  <2> QED BY <2>1, <2>2, <2>3, <2>4
<1>5. \A a, b \in Wire' :
         Before(a, b)' => \/ a \in Wire /\ b \in Wire /\ Before(a, b)
                          \/ a.type # "prev" \/ b.type # "job" \/ OfActive(b)'
  BY <1>4
<1> QED BY <1>3, <1>5, MsgKept

\* A step that only drops messages, or moves them along.
LEMMA MsgShrinks ==
    ASSUME NanoTypes, OpenInv, Numbered, MsgInv, [NanoNext]_nanoVars, UNCHANGED prev,
           Wire' \subseteq Wire, \A a, b : Before(a, b)' => Before(a, b)
    PROVE  MsgInv'
<1>1. \A a, b \in Wire' :
         Before(a, b)' => \/ a \in Wire /\ b \in Wire /\ Before(a, b)
                          \/ a.type # "prev" \/ b.type # "job" \/ OfActive(b)'
  OBVIOUS
<1>2. \A m \in Wire' : m \in Wire \/ m.type \notin {"job", "prev"} \/ OfActive(m)'
  OBVIOUS
<1> QED BY <1>1, <1>2, MsgKept

\* The broadcast branch of the handler.
LEMMA MsgForward ==
    ASSUME NanoTypes, OpenInv, Numbered, MsgInv, [NanoNext]_nanoVars, Forward
    PROVE  MsgInv'
<1>1. /\ queue # <<>> /\ queue' = Tail(queue) /\ UNCHANGED prev
      /\ down' = down \/ down' = Append(down, Head(queue))
  BY DEF Forward, handlerRest, deviceVars
<1>2. PICK h : h = Head(queue)
  OBVIOUS
<1>3. /\ h \in Broadcasts /\ Elems(queue) = Elems(queue') \cup {h}
      /\ \A a, b : Ahead(queue', a, b) => Ahead(queue, a, b)
      /\ \A b \in Elems(queue') : Ahead(queue, h, b)
  BY <1>1, <1>2, TailQueue DEF NanoTypes, PoolTypes
<1>4. /\ Elems(down') \subseteq Elems(down) \cup {h}
      /\ \A a, b : Ahead(down', a, b) => Ahead(down, a, b) \/ (a \in Elems(down) /\ b = h)
  <2>1. h \in Messages /\ down \in Seq(Messages)
    BY <1>3, MadeTypes DEF NanoTypes, LinkTypes
  <2>2. CASE down' = down
    BY <2>2
  <2>3. CASE down' = Append(down, h)
    BY <2>1, <2>3, AppendQueue
  <2> QED BY <1>1, <1>2, <2>2, <2>3
<1>5. Wire = Elems(down) \cup Elems(queue) /\ Wire' = Elems(down') \cup Elems(queue')
  BY DEF Wire, Elems
<1>6. Wire' \subseteq Wire
  BY <1>3, <1>4, <1>5
<1>7. ASSUME NEW a, NEW b, Before(a, b)' PROVE Before(a, b)
  <2>1. \/ Ahead(down', a, b) \/ Ahead(queue', a, b)
        \/ a \in Elems(down') /\ b \in Elems(queue')
    BY <1>7 DEF Before, Ahead, Elems
  <2>2. CASE Ahead(down', a, b)
    BY <1>3, <1>4, <2>2 DEF Before
  <2>3. CASE Ahead(queue', a, b)
    BY <1>3, <2>3 DEF Before
  <2>4. CASE a \in Elems(down') /\ b \in Elems(queue')
    BY <1>3, <1>4, <2>4 DEF Before
  <2> QED BY <2>1, <2>2, <2>3, <2>4
<1> QED BY <1>1, <1>6, <1>7, MsgShrinks

\* The device reads a message; a tip takes effect.
LEMMA MsgRead ==
    ASSUME NanoTypes, OpenInv, Numbered, MsgInv, [NanoNext]_nanoVars, DeviceReads, UNCHANGED poolVars
    PROVE  MsgInv'
<1>1. PICK m : m = Head(down)
  OBVIOUS
<1>2. /\ down # <<>> /\ down' = Tail(down) /\ m \in Messages
      /\ prev' = prev \/ (m.type = "prev" /\ prev' = m.tip)
  BY <1>1, ReadCases
<1>3. /\ Elems(down) = Elems(down') \cup {m}
      /\ \A a, b : Ahead(down', a, b) => Ahead(down, a, b)
      /\ \A b \in Elems(down') : Ahead(down, m, b)
  BY <1>1, <1>2, TailQueue DEF NanoTypes, LinkTypes
<1>4. UNCHANGED <<active, past, nextId, lastPrev, firstId, queue>>
  BY DEF poolVars
<1>5. Wire = Elems(down) \cup Elems(queue) /\ Wire' = Elems(down') \cup Elems(queue)
  BY <1>4 DEF Wire, Elems
<1>6. Wire' \subseteq Wire /\ m \in Wire /\ \A b \in Wire' : Before(m, b)
  BY <1>3, <1>5 DEF Before
<1>7. \A a, b : Before(a, b)' => Before(a, b)
  <2> SUFFICES ASSUME NEW a, NEW b, Before(a, b)' PROVE Before(a, b)
    OBVIOUS
  <2>1. queue' = queue
    BY <1>4
  <2>2. Ahead(down', a, b) \/ Ahead(queue, a, b) \/ (a \in Elems(down') /\ b \in Elems(queue))
    BY <2>1 DEF Before, Ahead, Elems
  <2> QED BY <1>3, <2>2 DEF Before
<1>8. \A t, id : Fits(t, id)' = Fits(t, id)
  BY <1>4 DEF Fits, RightId, Known, Elems
<1>9. CASE prev' = prev
  BY <1>6, <1>7, <1>9, MsgShrinks
<1>10. CASE m.type = "prev" /\ prev' = m.tip
  <2>1. m.tip \in Nat /\ Fits(m.tip, m.id)
    BY <1>2, <1>6, <1>10, MessageKinds DEF MsgInv
  <2>2. (prev # None => lastPrev # None /\ prev <= lastPrev)'
    BY <1>4, <1>10, <2>1 DEF Fits
  <2>3. ASSUME NEW b \in Wire', b.type = "job" PROVE b.id < nextId /\ Fits(m.tip, b.id)
    BY <1>6, <1>10, <2>3 DEF MsgInv
  <2>4. ASSUME NEW b \in Wire', b.type = "prev" PROVE Fits(b.tip, b.id)
    BY <1>6, <2>4 DEF MsgInv
  <2>5. ASSUME NEW a \in Wire', NEW b \in Wire', Before(a, b)', a.type = "prev", b.type = "job"
        PROVE  Fits(a.tip, b.id)
    BY <1>6, <1>7, <2>5 DEF MsgInv
  <2>6. \A id : Fits(prev, id)' = Fits(m.tip, id)
    BY <1>4, <1>10 DEF Fits, RightId, Known, Elems
  <2>7. \A b \in Wire' : /\ b.type = "prev" => Fits(b.tip, b.id)'
                         /\ b.type = "job" => b.id < nextId' /\ (prev' # None => Fits(prev, b.id)')
    BY <1>4, <1>8, <2>3, <2>4, <2>6
  <2>8. \A a, b \in Wire' : Before(a, b)' /\ a.type = "prev" /\ b.type = "job" => Fits(a.tip, b.id)'
    BY <1>8, <2>5
  <2>9. \A b \in Wire', j \in Known' : b.type = "prev" /\ j.id = b.id => j.tip = b.tip
    <3>1. Known' = Known
      BY <1>4 DEF Known, Elems
    <3> QED BY <1>6, <3>1 DEF MsgInv
  <2> QED BY <2>2, <2>7, <2>8, <2>9 DEF MsgInv
<1> QED BY <1>2, <1>9, <1>10

\* The initial job: every job so far goes with every tip.
LEMMA MsgInitial ==
    ASSUME NanoTypes, OpenInv, Numbered, MsgInv, PushInitial PROVE MsgInv'
<1>1. /\ firstId' = active.id /\ UNCHANGED <<active, past, nextId, lastPrev, queue, prev>>
      /\ down' = down \o <<JobMsg(active, TRUE), PrevMsg(active)>>
  BY DEF PushInitial, handlerRest, deviceVars
<1>2. active # None
  BY DEF PushInitial, OpenInv
<1>3. /\ active.id \in Nat /\ active.tip = lastPrev /\ lastPrev \in Nat /\ active.id + 1 = nextId
      /\ nextId \in Nat /\ lastPrev # None /\ prev \in Nat \cup {None}
  BY <1>2, StratumV2Constants DEF NanoTypes, PoolTypes, DeviceTypes, Numbered, Jobs
<1>4. PICK x \in Messages, y \in Messages :
          /\ x = JobMsg(active, TRUE) /\ y = PrevMsg(active)
          /\ x.type = "job" /\ x.id = active.id
          /\ y.type = "prev" /\ y.id = active.id /\ y.tip = active.tip
  BY <1>3, JobMessages, MadeTypes
<1>5. down \in Seq(Messages) /\ queue \in Seq(Broadcasts)
  BY DEF NanoTypes, LinkTypes, PoolTypes
<1>6. Elems(down') = Elems(down) \cup {x, y}
  <2>1. down' = down \o <<x, y>>
    BY <1>1, <1>4
  <2>2. down \o <<x, y>> = Append(Append(down, x), y)
    BY <1>5, ConcatTwo
  <2>3. Append(down, x) \in Seq(Messages) /\ Elems(Append(down, x)) = Elems(down) \cup {x}
    BY <1>5, AppendQueue
  <2>4. PICK one \in Seq(Messages) : one = Append(down, x) /\ Elems(one) = Elems(down) \cup {x}
    BY <2>3, Zenon
  <2>5. Elems(Append(one, y)) = Elems(one) \cup {y}
    BY AppendQueue
  <2>6. Elems(down') = Elems(one) \cup {y}
    BY <2>1, <2>2, <2>4, <2>5
  <2> QED BY <2>4, <2>6
<1>7. Wire' = Wire \cup {x, y}
  BY <1>1, <1>6 DEF Wire, Elems
<1>8. \A m \in Wire : /\ m.type = "job" => m.id \in Nat
                      /\ m.type = "prev" => m.id \in Nat /\ m.tip \in Nat
  BY <1>5, WireTypes DEF Wire
<1>9. ASSUME NEW t \in Nat, NEW id \in Nat, t <= lastPrev, id < nextId PROVE Fits(t, id)'
  <2>1. active' \in Known'
    BY <1>1, <1>2 DEF Known
  <2>2. id < active.id \/ id = active.id
    BY <1>3, <1>9
  <2>3. RightId(id)'
    BY <1>1, <1>3, <2>1, <2>2 DEF RightId
  <2> QED BY <1>1, <1>3, <1>9, <2>3 DEF Fits
<1>10. ASSUME NEW m \in Wire', m.type = "job" PROVE m.id \in Nat /\ m.id < nextId
  <2>1. CASE m \in Wire
    BY <1>8, <1>10, <2>1 DEF MsgInv
  <2>2. CASE m \in {x, y}
    <3>1. m.id = active.id
      BY <1>4, <2>2
    <3> QED BY <1>3, <3>1
  <2> QED BY <1>7, <2>1, <2>2
<1>11. ASSUME NEW m \in Wire', m.type = "prev"
       PROVE  m.id \in Nat /\ m.tip \in Nat /\ m.id < nextId /\ m.tip <= lastPrev
  <2>1. CASE m \in Wire
    BY <1>8, <1>11, <2>1 DEF MsgInv, Fits
  <2>2. CASE m \in {x, y}
    <3>1. m.id = active.id /\ m.tip = active.tip
      BY <1>4, <1>11, <2>2
    <3> QED BY <1>3, <3>1
  <2> QED BY <1>7, <2>1, <2>2
<1>12. (prev # None => lastPrev # None /\ prev <= lastPrev)'
  BY <1>1 DEF MsgInv
<1>13. ASSUME NEW m \in Wire', m.type = "job", prev # None PROVE Fits(prev, m.id)'
  <2>1. PICK t \in Nat : t = prev
    BY <1>3, <1>13
  <2>2. t <= lastPrev
    BY <1>13, <2>1 DEF MsgInv
  <2>3. Fits(t, m.id)'
    BY <1>9, <1>10, <1>13, <2>2
  <2>4. prev' = t
    BY <1>1, <2>1
  <2> QED BY <2>3, <2>4 DEF Fits
<1>14. \A m \in Wire' : /\ m.type = "prev" => Fits(m.tip, m.id)'
                        /\ m.type = "job" => m.id < nextId' /\ (prev' # None => Fits(prev, m.id)')
  BY <1>1, <1>9, <1>10, <1>11, <1>13
<1>15. \A a, b \in Wire' : a.type = "prev" /\ b.type = "job" => Fits(a.tip, b.id)'
  BY <1>9, <1>10, <1>11
<1>16. ASSUME NEW m \in Wire', NEW j \in Known', m.type = "prev", j.id = m.id PROVE j.tip = m.tip
  <2>1. j \in Known
    BY <1>1, <1>16 DEF Known, Elems
  <2>2. CASE m \in Wire
    BY <1>16, <2>1, <2>2 DEF MsgInv
  <2>3. CASE m \in {x, y}
    <3>1. m.id = active.id /\ m.tip = active.tip
      BY <1>4, <1>16, <2>3
    <3>2. past \in Seq(Jobs) /\ InOrder(past, active.id, lastPrev)
      BY <1>2 DEF NanoTypes, PoolTypes, Numbered
    <3>3. j \notin Elems(past)
      <4> SUFFICES ASSUME j \in Elems(past) PROVE FALSE
        OBVIOUS
      <4>1. j.id < active.id
        BY <1>3, <3>2, PastIds
      <4> QED BY <1>3, <1>16, <3>1, <4>1
    <3>4. j = active
      BY <1>2, <2>1, <3>3 DEF Known
    <3> QED BY <3>1, <3>4
  <2> QED BY <1>7, <2>2, <2>3
<1> QED BY <1>12, <1>14, <1>15, <1>16 DEF MsgInv

LEMMA MsgStep ==
    ASSUME NanoTypes, OpenInv, Numbered, MsgInv, [NanoNext]_nanoVars PROVE MsgInv'
<1>1. /\ queue \in Seq(Broadcasts) /\ budget \in LimitType /\ nextId \in Nat /\ node.tip \in Nat
      /\ None \notin Jobs
  BY NanoPoolConstants DEF NanoTypes, PoolTypes, LinkTypes
<1>2. ASSUME UNCHANGED <<prev, down, queue>> PROVE MsgInv'
  <2>1. Wire' = Wire /\ \A a, b : Before(a, b)' = Before(a, b)
    BY <1>2 DEF Wire, Before, Ahead, Elems
  <2> QED BY <1>2, <2>1, MsgShrinks
<1>3. CASE (DeviceOnly /\ ~DeviceReads) \/ OpenTooEarly \/ HandleShare \/ NodeChanges \/ UNCHANGED nanoVars
  <2>1. UNCHANGED <<prev, down, queue>>
    BY <1>3 DEF DeviceOnly, poolVars, deviceVars, linkVars, nanoVars, OpenTooEarly, HandleShare, NodeChanges,
       SchedulerSteps, SchedulerTakes, SchedulerSubmits, DeviceStarts, DeviceLoses, BackoffEnds,
       Refill, DeviceSubmits
  <2> QED BY <1>2, <2>1
<1>4. CASE DeviceOnly /\ DeviceReads
  <2>1. UNCHANGED poolVars
    BY <1>4 DEF DeviceOnly
  <2> QED BY <1>4, <2>1, MsgRead
<1>5. CASE Accepts
  <2>1. down' = <<>> /\ queue' = <<>> /\ prev' = None
    BY <1>5 DEF Accepts, DeviceConnects
  <2>2. Wire' = {}
    BY <2>1, EmptyQueue DEF Wire
  <2> QED BY <2>1, <2>2 DEF MsgInv
<1>6. CASE LinkBreaks
  <2>1. queue' = <<>> /\ UNCHANGED prev
    BY <1>6 DEF LinkBreaks, deviceVars
  <2>2. down' = <<>> \/ down' = down
    <3>1. PICK n \in {0, Len(down)} : down' = SubSeq(down, 1, n)
      BY <1>6 DEF LinkBreaks
    <3>2. down \in Seq(Messages)
      BY DEF NanoTypes, LinkTypes
    <3> QED BY <3>1, <3>2
  <2>3. Elems(queue') = {} /\ \A a, b : ~Ahead(queue', a, b)
    BY <2>1, EmptyQueue
  <2>4. Elems(down') \subseteq Elems(down) /\ \A a, b : Ahead(down', a, b) => Ahead(down, a, b)
    BY <2>2, EmptyQueue
  <2>5. Wire' \subseteq Wire
    BY <2>3, <2>4 DEF Wire, Elems
  <2>6. \A a, b : Before(a, b)' => Before(a, b)
    <3> SUFFICES ASSUME NEW a, NEW b, Before(a, b)' PROVE Before(a, b)
      OBVIOUS
    <3>1. Ahead(down', a, b) \/ Ahead(queue', a, b) \/ (a \in Elems(down') /\ b \in Elems(queue'))
      BY DEF Before, Ahead, Elems
    <3> QED BY <2>3, <2>4, <3>1 DEF Before
  <2> QED BY <2>1, <2>5, <2>6, MsgShrinks
<1>7. CASE Forward
  BY <1>7, MsgForward
<1>8. CASE HandleSetup \/ HandleOpen \/ Answer
  <2>1. UNCHANGED <<prev, queue>>
    BY <1>8 DEF HandleSetup, HandleOpen, Answer, handlerRest, deviceVars
  <2>2. PICK x \in Messages : x.type \notin {"job", "prev"} /\ down' = Append(down, x)
    <3>1. CASE HandleSetup
      BY <3>1, MadeTypes DEF HandleSetup
    <3>2. CASE HandleOpen
      BY <3>2, MadeTypes DEF HandleOpen
    <3>3. CASE Answer
      <4>1. answer \in {"success", "error"}
        BY <3>3 DEF Answer, NanoTypes, HandlerTypes
      <4> QED BY <3>3, <4>1, MadeTypes DEF Answer
    <3> QED BY <1>8, <3>1, <3>2, <3>3
  <2> QED BY <2>1, <2>2, MsgAppend
<1>9. CASE PushInitial
  BY <1>9, MsgInitial
<1>10. CASE Refresh
  <2>1. PICK j \in Jobs :
             /\ active' = j /\ j.id = nextId /\ j.tip = node.tip
             /\ \/ Broadcast(<<JobMsg(j, TRUE), PrevMsg(j)>>)
                \/ Broadcast(<<JobMsg(j, FALSE)>>)
    BY <1>10, RefreshCases, Zenon
  <2>2. UNCHANGED <<prev, down>>
    BY <1>10 DEF Refresh, deviceVars, linkVars
  <2>3. PICK x \in Broadcasts, y \in Broadcasts, z \in Broadcasts :
             /\ x = JobMsg(j, TRUE) /\ y = PrevMsg(j) /\ z = JobMsg(j, FALSE)
             /\ x.type = "job" /\ x.id = j.id /\ y.type = "prev" /\ y.id = j.id /\ y.tip = j.tip
             /\ z.type = "job" /\ z.id = j.id
    BY <1>1, <2>1, JobMessages
  <2>4. \A m \in {x, y, z} : OfActive(m)'
    BY <1>1, <2>1, <2>3 DEF OfActive
  <2>5. CASE Broadcast(<<x, y>>)
    <3>1. PICK N : N = {x, y}
      OBVIOUS
    <3>2. /\ Elems(queue') \subseteq Elems(queue) \cup N
          /\ \A a, b : Ahead(queue', a, b) => Ahead(queue, a, b) \/ b \in N
      BY <1>1, <2>5, <3>1, BroadcastTwo
    <3>3. \A m \in N : m.type \notin {"job", "prev"} \/ OfActive(m)'
      BY <2>4, <3>1
    <3> QED BY <2>2, <3>2, <3>3, MsgBroadcast
  <2>6. CASE Broadcast(<<z>>)
    <3>1. PICK N : N = {z}
      OBVIOUS
    <3>2. /\ Elems(queue') \subseteq Elems(queue) \cup N
          /\ \A a, b : Ahead(queue', a, b) => Ahead(queue, a, b) \/ b \in N
      BY <1>1, <2>6, <3>1, BroadcastOne
    <3>3. \A m \in N : m.type \notin {"job", "prev"} \/ OfActive(m)'
      BY <2>4, <3>1
    <3> QED BY <2>2, <3>2, <3>3, MsgBroadcast
  <2> QED BY <2>1, <2>3, <2>5, <2>6
<1>11. CASE HandleVardiff
  <2>1. UNCHANGED <<prev, down>>
    BY <1>11 DEF HandleVardiff, deviceVars
  <2>2. CASE UNCHANGED <<active, past, nextId, queue, lagged>>
    BY <1>2, <2>1, <2>2
  <2>3. CASE ~(UNCHANGED <<active, past, nextId, queue, lagged>>)
    <3>1. PICK j \in Jobs, d \in Diffs :
            active' = j /\ j.id = nextId /\ Broadcast(<<TargetMsg(d), JobMsg(j, FALSE)>>)
      BY <1>11, <2>3, VardiffCases, Zenon
    <3>2. j.tip \in Nat
      BY DEF Jobs
    <3>3. PICK x \in Broadcasts, y \in Broadcasts :
               /\ x = TargetMsg(d) /\ y = JobMsg(j, FALSE)
               /\ x.type = "target" /\ y.type = "job" /\ y.id = j.id
      BY <1>1, <3>1, <3>2, JobMessages, TargetMessage
    <3>4. OfActive(y)'
      BY <1>1, <3>1, <3>3 DEF OfActive
    <3>5. PICK N : N = {x, y}
      OBVIOUS
    <3>6. \A m \in N : m.type \notin {"job", "prev"} \/ OfActive(m)'
      BY <3>3, <3>4, <3>5
    <3>7. Broadcast(<<x, y>>)
      BY <3>1, <3>3
    <3>8. /\ Elems(queue') \subseteq Elems(queue) \cup N
          /\ \A a, b : Ahead(queue', a, b) => Ahead(queue, a, b) \/ b \in N
      BY <1>1, <3>5, <3>7, BroadcastTwo
    <3> QED BY <2>1, <3>6, <3>8, MsgBroadcast
  <2> QED BY <2>2, <2>3
<1> QED
  BY <1>3, <1>4, <1>5, <1>6, <1>7, <1>8, <1>9, <1>10, <1>11 DEF NanoNext, HandlerSteps

-----------------------------------------------------------------------------
(* The work on its way back to the pool.                                   *)

WorkInv ==
    /\ \A w \in held : Fits(w.tip, w.id)
    /\ \A e \in Elems(evts) : e.type # "clear" => Fits(e.job.tip, e.job.id)
    /\ \A s \in Elems(cmds) : Fits(s.tip, s.id)
    /\ \A m \in Elems(up) : m.type = "share" => Fits(m.share.tip, m.share.id)

LEMMA WorkTypes ==
    ASSUME NanoTypes
    PROVE  /\ \A w \in held : w.tip \in Nat /\ w.id \in Nat
           /\ \A e \in Elems(evts) : e.type # "clear" => e.job.tip \in Nat /\ e.job.id \in Nat
           /\ \A s \in Elems(cmds) : s.tip \in Nat /\ s.id \in Nat
           /\ \A m \in Elems(up) : m.type = "share" => m.share.tip \in Nat /\ m.share.id \in Nat
<1>1. /\ held \subseteq Works /\ evts \in Seq(Offers) /\ cmds \in Seq(Found) /\ up \in Seq(Requests)
  BY DEF NanoTypes, DeviceTypes, LinkTypes
<1>2. Elems(evts) \subseteq Offers /\ Elems(cmds) \subseteq Found /\ Elems(up) \subseteq Requests
  BY <1>1 DEF Elems
<1>3. \A e \in Elems(evts) : e.type # "clear" => e.job \in Works
  BY <1>2, OfferKinds
<1>4. \A m \in Elems(up) : m.type = "share" => m.share \in Found
  BY <1>2, RequestKinds
<1>5. /\ \A w \in Works : w.tip \in Nat /\ w.id \in Nat
      /\ \A s \in Found : s.tip \in Nat /\ s.id \in Nat
  BY DEF Works, Found
<1> QED BY <1>1, <1>2, <1>3, <1>4, <1>5

LEMMA WorkStep ==
    ASSUME NanoTypes, OpenInv, Numbered, MsgInv, WorkInv, [NanoNext]_nanoVars PROVE WorkInv'
<1>1. /\ held \subseteq Works /\ evts \in Seq(Offers) /\ cmds \in Seq(Found) /\ up \in Seq(Requests)
      /\ down \in Seq(Messages) /\ queue \in Seq(Broadcasts)
  BY DEF NanoTypes, DeviceTypes, LinkTypes, PoolTypes
<1> DEFINE Held(h) == \A w \in h : Fits(w.tip, w.id)'
           Sent(q) == \A e \in Elems(q) : e.type # "clear" => Fits(e.job.tip, e.job.id)'
           Due(q)  == \A s \in Elems(q) : Fits(s.tip, s.id)'
           Up(q)   == \A m \in Elems(q) : m.type = "share" => Fits(m.share.tip, m.share.id)'
<1>2. ASSUME NEW t \in Nat, NEW id \in Nat, Fits(t, id) PROVE Fits(t, id)'
  BY <1>2, FitsStep
<1>3. Held(held) /\ Sent(evts) /\ Due(cmds) /\ Up(up)
  BY <1>2, WorkTypes DEF WorkInv
<1>4. ASSUME Held(held'), Sent(evts'), Due(cmds'), Up(up') PROVE WorkInv'
  BY <1>4 DEF WorkInv, Elems
<1>5. CASE DeviceOnly
  <2>1. \/ SchedulerTakes \/ SchedulerSubmits \/ DeviceStarts \/ DeviceLoses \/ BackoffEnds
        \/ Refill \/ DeviceSubmits \/ DeviceReads
    BY <1>5 DEF DeviceOnly, SchedulerSteps
  <2>2. CASE SchedulerTakes
    <3>1. PICK e : e = Head(evts)
      OBVIOUS
    <3>2. /\ Elems(evts) = Elems(evts') \cup {e}
          /\ e.type \in {"update", "replace", "clear"}
          /\ e.type = "clear" => held' = {}
          /\ e.type = "update" => held' = held \cup {e.job}
          /\ e.type = "replace" => held' = {e.job}
      BY <1>1, <2>2, <3>1, TakeCases
    <3>3. UNCHANGED <<cmds, up>>
      BY <2>2 DEF SchedulerTakes, linkVars
    <3>4. Sent(evts') /\ (e.type # "clear" => Fits(e.job.tip, e.job.id)')
      BY <1>3, <3>2
    <3>5. Held(held')
      BY <1>3, <3>2, <3>4
    <3> QED BY <1>3, <1>4, <3>3, <3>4, <3>5
  <2>3. CASE SchedulerSubmits
    <3>1. PICK j \in held, s \in Found : s.id = j.id /\ s.tip = j.tip /\ Elems(cmds') = Elems(cmds) \cup {s}
      BY <2>3, SubmitCases
    <3>2. UNCHANGED <<held, evts, up>>
      BY <2>3 DEF SchedulerSubmits
    <3>3. Due(cmds')
      BY <1>3, <3>1
    <3> QED BY <1>3, <1>4, <3>2, <3>3
  <2>4. CASE DeviceStarts
    <3>1. UNCHANGED <<held, evts, up>> /\ cmds' = <<>>
      BY <2>4 DEF DeviceStarts, linkVars
    <3>2. Due(cmds')
      BY <3>1, EmptyQueue
    <3> QED BY <1>3, <1>4, <3>1, <3>2
  <2>5. CASE DeviceLoses
    <3>1. UNCHANGED <<held, cmds, up>> /\ evts' = Append(evts, [type |-> "clear"])
      BY <2>5 DEF DeviceLoses, ClearJobs, linkVars
    <3>2. PICK x \in Offers : x = [type |-> "clear"] /\ x.type = "clear"
      BY MadeTypes
    <3>3. Elems(evts') = Elems(evts) \cup {x}
      BY <1>1, <3>1, <3>2, AppendQueue
    <3>4. Sent(evts')
      BY <1>3, <3>2, <3>3
    <3> QED BY <1>3, <1>4, <3>1, <3>4
  <2>6. CASE BackoffEnds \/ Refill
    <3>1. UNCHANGED <<held, evts, cmds, up>>
      BY <2>6 DEF BackoffEnds, Refill, linkVars
    <3> QED BY <1>3, <1>4, <3>1
  <2>7. CASE DeviceSubmits
    <3>1. PICK s : s = Head(cmds)
      OBVIOUS
    <3>2. /\ cmds # <<>> /\ cmds' = Tail(cmds) /\ UNCHANGED <<held, evts>>
          /\ up' = up \/ up' = Append(up, [type |-> "share", share |-> s])
      BY <2>7, <3>1 DEF DeviceSubmits
    <3>3. s \in Found /\ Elems(cmds) = Elems(cmds') \cup {s}
      BY <1>1, <3>1, <3>2, TailQueue
    <3>4. Due(cmds') /\ Fits(s.tip, s.id)'
      BY <1>3, <3>3
    <3>5. PICK x \in Requests : x = [type |-> "share", share |-> s] /\ x.share = s
      BY <3>3, MadeTypes
    <3>6. Elems(Append(up, x)) = Elems(up) \cup {x}
      BY <1>1, AppendQueue
    <3>7. Up(up')
      BY <1>3, <3>2, <3>4, <3>5, <3>6
    <3> QED BY <1>3, <1>4, <3>2, <3>4, <3>7
  <2>8. CASE DeviceReads
    <3>1. PICK m : m = Head(down)
      OBVIOUS
    <3>2. /\ down # <<>> /\ m \in Messages /\ UNCHANGED <<cmds, held>>
          /\ up' = up \/ up' = Append(up, [type |-> "open"])
          /\ \/ evts' = evts
             \/ \E w \in Works, e \in Offers :
                  /\ evts' = Append(evts, e) /\ e.job = w /\ w.id = m.id
                  /\ \/ m.type = "job" /\ prev # None /\ w.tip = prev
                     \/ m.type = "prev" /\ w.tip = m.tip
      BY <2>8, <3>1, ReadCases
    <3>3. m \in Wire
      BY <1>1, <3>1, <3>2, TailQueue DEF Wire
    <3>4. PICK x \in Requests : x = [type |-> "open"] /\ x.type = "open"
      BY MadeTypes
    <3>5. Elems(Append(up, x)) = Elems(up) \cup {x}
      BY <1>1, AppendQueue
    <3>6. Up(up')
      BY <1>3, <3>2, <3>4, <3>5
    <3>7. Sent(evts')
      <4>1. CASE evts' = evts
        BY <1>3, <4>1
      <4>2. CASE evts' # evts
        <5>1. PICK w \in Works, e \in Offers :
                  /\ evts' = Append(evts, e) /\ e.job = w /\ w.id = m.id
                  /\ \/ m.type = "job" /\ prev # None /\ w.tip = prev
                     \/ m.type = "prev" /\ w.tip = m.tip
          BY <3>2, <4>2
        <5>2. Fits(w.tip, w.id) /\ w.tip \in Nat /\ w.id \in Nat
          BY <3>3, <5>1 DEF MsgInv, Works
        <5>3. Fits(w.tip, w.id)'
          BY <1>2, <5>2
        <5>4. Elems(evts') = Elems(evts) \cup {e}
          BY <1>1, <5>1, AppendQueue
        <5> QED BY <1>3, <5>1, <5>3, <5>4
      <4> QED BY <4>1, <4>2
    <3> QED BY <1>3, <1>4, <3>2, <3>6, <3>7
  <2> QED BY <2>1, <2>2, <2>3, <2>4, <2>5, <2>6, <2>7, <2>8
<1>6. CASE Accepts
  <2>1. UNCHANGED <<held, evts, cmds>> /\ up' = <<[type |-> "setup"]>>
    BY <1>6 DEF Accepts, DeviceConnects
  <2>2. Up(up')
    BY <2>1 DEF Elems
  <2> QED BY <1>3, <1>4, <2>1, <2>2
<1>7. CASE PoolOnly
  <2>1. UNCHANGED <<held, evts, cmds>>
    BY <1>7, PoolFrame DEF deviceVars
  <2>2. up' = up \/ up' = <<>> \/ (up # <<>> /\ up' = Tail(up))
    BY <1>7 DEF PoolOnly, NodeChanges, Refresh, HandlerSteps, Forward, HandleSetup, HandleOpen,
       OpenTooEarly, PushInitial, HandleShare, HandleVardiff, Answer, LinkBreaks, Receive, linkVars
  <2>3. up' = up \/ Elems(up') \subseteq Elems(up)
    BY <1>1, <2>2, EmptyQueue, TailQueue
  <2>4. Up(up')
    BY <1>3, <2>3
  <2> QED BY <1>3, <1>4, <2>1, <2>4
<1>8. CASE UNCHANGED nanoVars
  BY <1>3, <1>4, <1>8 DEF nanoVars, deviceVars, linkVars
<1> QED
  BY <1>5, <1>6, <1>7, <1>8 DEF NanoNext, PoolOnly

\* No verdict refuses what the pool should know.
LEMMA RefusedStep ==
    ASSUME NanoTypes, OpenInv, Numbered, PrefixInv, WorkInv, ~refused, [NanoNext]_nanoVars
    PROVE  ~refused'
<1>1. CASE ~HandleShare
  <2>1. UNCHANGED refused
    BY <1>1 DEF NanoNext, DeviceOnly, Accepts, NodeChanges, Refresh, HandlerSteps, Forward, HandleSetup,
       HandleOpen, OpenTooEarly, PushInitial, HandleVardiff, Answer, LinkBreaks, handlerRest,
       poolVars, nanoVars
  <2> QED BY <2>1
<1>2. CASE HandleShare
  <2>1. PICK s : s = Head(up).share
    OBVIOUS
  <2>2. /\ handler = "idle" /\ up # <<>> /\ Head(up).type = "share"
        /\ NotFound(s) \/ TooLow(s) \/ Accepted(s)
    BY <1>2, <2>1 DEF HandleShare, Receive
  <2>3. Head(up) \in Elems(up) /\ Head(up) \in Requests
    BY <2>2, TailQueue DEF NanoTypes, LinkTypes
  <2>4. open /\ Fits(s.tip, s.id) /\ s \in Found
    BY <2>1, <2>2, <2>3, RequestKinds DEF OpenInv, WorkInv
  <2>5. /\ active # None /\ firstId # None /\ firstId \in Nat /\ active.id \in Nat /\ s.id \in Nat
        /\ MaxPast \in Nat
    BY <2>4, NanoPoolConstants DEF OpenInv, NanoTypes, PoolTypes, Jobs, Found
  <2>6. ASSUME Promised(s) PROVE \E j \in FindJob(s.id) : j.tip = s.tip /\ j.prefix = "channel"
    <3>1. s.tip = lastPrev /\ s.id + MaxPast >= active.id /\ s.id >= firstId
      BY <2>6 DEF Promised
    <3>2. RightId(s.id)
      BY <2>4, <3>1 DEF Fits
    <3>3. PICK j \in Known : j.id = s.id /\ j.tip = lastPrev
      BY <2>5, <3>1, <3>2 DEF RightId
    <3>4. j.prefix = "channel"
      BY <2>4, <3>1, <3>3 DEF PrefixInv
    <3>5. j \in FindJob(s.id)
      BY <2>5, <3>3 DEF Known, Elems, FindJob
    <3> QED BY <3>1, <3>3, <3>4, <3>5
  <2>7. CASE NotFound(s)
    <3>1. ~Promised(s)
      BY <2>6, <2>7 DEF NotFound
    <3> QED BY <2>7, <3>1 DEF NotFound
  <2>8. CASE TooLow(s)
    <3>1. ASSUME Promised(s), s.q = Block PROVE FALSE
      <4>1. Reached(s) = Block
        BY <2>6, <3>1 DEF Reached
      <4>2. Block < diff /\ diff \in Diffs
        BY <2>8, <4>1 DEF TooLow, NanoTypes, PoolTypes
      <4> QED BY <4>2, StratumV2Constants
    <3> QED BY <2>8, <3>1 DEF TooLow
  <2>9. CASE Accepted(s)
    BY <2>9 DEF Accepted
  <2> QED BY <2>2, <2>7, <2>8, <2>9
<1> QED BY <1>1, <1>2

\* A share of one of the last jobs under the present tip is found, and a block
\* under it is accepted, whatever refreshes, retargets and reconnections race it
\* (main.rs:1058).
THEOREM CurrentWorkStaysKnown == NanoSpec => []CurrentWorkIsKnown
<1> DEFINE Inv == /\ NanoTypes /\ OpenInv /\ Numbered /\ PrefixInv /\ MsgInv /\ WorkInv
                  /\ ~refused
<1>1. NanoInit => Inv
  <2> SUFFICES ASSUME NanoInit PROVE Inv
    OBVIOUS
  <2>1. NanoTypes /\ OpenInv
    BY TypesInit
  <2>2. /\ active = None /\ past = <<>> /\ lastPrev = None /\ firstId = None /\ queue = <<>>
        /\ open = FALSE /\ refused = FALSE
    BY DEF NanoInit
  <2>3. prev = None /\ down = <<>> /\ up = <<>> /\ cmds = <<>> /\ evts = <<>> /\ held = {}
    BY DEF NanoInit, DeviceInit
  <2>4. Numbered /\ PrefixInv
    BY <2>2 DEF Numbered, PrefixInv
  <2>5. Wire = {}
    BY <2>2, <2>3, EmptyQueue DEF Wire
  <2>6. MsgInv
    BY <2>3, <2>5 DEF MsgInv
  <2>7. WorkInv
    BY <2>3, EmptyQueue DEF WorkInv
  <2> QED BY <2>1, <2>2, <2>4, <2>6, <2>7
<1>2. Inv /\ [NanoNext]_nanoVars => Inv'
  BY TypesStep, NumberedStep, PrefixStep, MsgStep, WorkStep, RefusedStep
<1>3. Inv => CurrentWorkIsKnown
  BY DEF CurrentWorkIsKnown
<1> QED BY <1>1, <1>2, <1>3, PTL DEF NanoSpec

-----------------------------------------------------------------------------
(* The tip in effect when the device reads a message.                      *)

Immediates == [type : {"job"}, id : Nat, future : {FALSE}]

Tells(s, m, t) == s[m].type = "prev" /\ s[m].tip = t

\* A device whose tip is p and that reads s up to position k has no tip by
\* then, or t: any other one is followed by a t.
Shows(p, s, k, t) ==
    /\ p \in {None, t} \/ \E m \in DOMAIN s : m < k /\ Tells(s, m, t)
    /\ \A i \in DOMAIN s : i < k /\ s[i].type = "prev" =>
          s[i].tip = t \/ \E m \in DOMAIN s : i < m /\ m < k /\ Tells(s, m, t)

\* ... and that reads d and then q up to position k.
Reaches(p, d, q, k, t) ==
    (\E m \in DOMAIN q : m < k /\ Tells(q, m, t)) \/ Shows(p, d, Len(d) + 1, t)

LEMMA ShowsAppend ==
    ASSUME NEW S, NEW s \in Seq(S), NEW x \in S, NEW p, NEW t
    PROVE  LET u == Append(s, x)
           IN  /\ DOMAIN s \subseteq DOMAIN u /\ DOMAIN u = DOMAIN s \cup {Len(s) + 1}
               /\ Len(u) = Len(s) + 1 /\ u[Len(s) + 1] = x
               /\ \A i \in DOMAIN s : u[i] = s[i]
               /\ \A k \in 1..(Len(s) + 1) : Shows(p, s, k, t) => Shows(p, u, k, t)
               /\ x.type # "prev" /\ Shows(p, s, Len(s) + 1, t) => Shows(p, u, Len(u) + 1, t)
               /\ x.type = "prev" /\ x.tip = t => Shows(p, u, Len(u) + 1, t)
<1> DEFINE u == Append(s, x)
           n == Len(s)
           l == Len(u)
<1>1. /\ n \in Nat /\ DOMAIN s = 1..n /\ DOMAIN u = 1..(n + 1) /\ l = n + 1
      /\ \A i \in DOMAIN s : u[i] = s[i]
      /\ u[n + 1] = x
  OBVIOUS
<1> HIDE DEF u, n, l
<1>2. /\ DOMAIN s \subseteq DOMAIN u /\ DOMAIN u = DOMAIN s \cup {n + 1}
      /\ \A i \in DOMAIN s : i \in Nat /\ i < n + 1
      /\ n + 1 \in DOMAIN u
  BY <1>1
<1>3. \A i \in DOMAIN s : Tells(s, i, t) => Tells(u, i, t)
  BY <1>1 DEF Tells
<1>4. ASSUME NEW k \in 1..(n + 1), Shows(p, s, k, t) PROVE Shows(p, u, k, t)
  <2>1. \A i \in DOMAIN u : i < k => i \in DOMAIN s /\ u[i] = s[i]
    BY <1>1
  <2>2. p \in {None, t} \/ \E m \in DOMAIN u : m < k /\ Tells(u, m, t)
    BY <1>2, <1>3, <1>4 DEF Shows
  <2>3. ASSUME NEW i \in DOMAIN u, i < k, u[i].type = "prev"
        PROVE  u[i].tip = t \/ \E m \in DOMAIN u : i < m /\ m < k /\ Tells(u, m, t)
    <3>1. i \in DOMAIN s /\ s[i].type = "prev" /\ u[i] = s[i]
      BY <2>1, <2>3
    <3>2. s[i].tip = t \/ \E m \in DOMAIN s : i < m /\ m < k /\ Tells(s, m, t)
      BY <1>4, <2>3, <3>1 DEF Shows
    <3> QED BY <1>2, <1>3, <3>1, <3>2
  <2> QED BY <2>2, <2>3 DEF Shows
<1>5. ASSUME x.type # "prev", Shows(p, s, n + 1, t) PROVE Shows(p, u, l + 1, t)
  <2>1. \A i \in DOMAIN s : i < n + 1 /\ i < l + 1
    BY <1>1
  <2>2. p \in {None, t} \/ \E m \in DOMAIN u : m < l + 1 /\ Tells(u, m, t)
    BY <1>2, <1>3, <1>5, <2>1 DEF Shows
  <2>3. ASSUME NEW i \in DOMAIN u, u[i].type = "prev"
        PROVE  u[i].tip = t \/ \E m \in DOMAIN u : i < m /\ m < l + 1 /\ Tells(u, m, t)
    <3>1. i \in DOMAIN s /\ s[i].type = "prev" /\ u[i] = s[i]
      BY <1>1, <1>2, <1>5, <2>3
    <3>2. s[i].tip = t \/ \E m \in DOMAIN s : i < m /\ m < n + 1 /\ Tells(s, m, t)
      BY <1>5, <2>1, <3>1 DEF Shows
    <3> QED BY <1>2, <1>3, <2>1, <3>1, <3>2
  <2> QED BY <2>2, <2>3 DEF Shows
<1>6. ASSUME x.type = "prev", x.tip = t PROVE Shows(p, u, l + 1, t)
  <2>1. n + 1 \in DOMAIN u /\ n + 1 < l + 1 /\ Tells(u, n + 1, t)
    BY <1>1, <1>6 DEF Tells
  <2>2. ASSUME NEW i \in DOMAIN u PROVE i < n + 1 \/ i = n + 1
    BY <1>2
  <2>3. ASSUME NEW i \in DOMAIN u
        PROVE  u[i].tip = t \/ \E m \in DOMAIN u : i < m /\ m < l + 1 /\ Tells(u, m, t)
    BY <2>1, <2>2 DEF Tells
  <2> QED BY <2>1, <2>3 DEF Shows
<1>7. l = n + 1 /\ u[n + 1] = x /\ \A i \in DOMAIN s : u[i] = s[i]
  BY <1>1
<1> QED BY <1>2, <1>4, <1>5, <1>6, <1>7 DEF u, n, l

LEMMA ShowsTail ==
    ASSUME NEW S, NEW s \in Seq(S), s # <<>>, NEW p, NEW t, NEW k \in Nat \ {0}, Shows(p, s, k + 1, t)
    PROVE  /\ Head(s).type = "prev" => Shows(Head(s).tip, Tail(s), k, t)
           /\ Head(s).type # "prev" => Shows(p, Tail(s), k, t)
           /\ p = None => Shows(None, Tail(s), k, t)
<1> DEFINE u == Tail(s)
           n == Len(s)
           h == Head(s)
<1>1. /\ n \in Nat /\ n # 0 /\ DOMAIN s = 1..n /\ DOMAIN u = 1..(n - 1)
      /\ \A i \in DOMAIN u : u[i] = s[i + 1]
      /\ s[1] = h
  OBVIOUS
<1> HIDE DEF u, n, h
<1>2. /\ 1 \in DOMAIN s
      /\ \A i \in DOMAIN u : i \in Nat /\ i + 1 \in DOMAIN s /\ 1 < i + 1 /\ u[i] = s[i + 1]
  BY <1>1
<1>3. ASSUME NEW m \in DOMAIN s, m # 1 PROVE m - 1 \in DOMAIN u /\ m - 1 \in Nat /\ u[m - 1] = s[m] /\ m \in Nat
  <2>1. m - 1 \in DOMAIN u /\ m - 1 \in Nat /\ (m - 1) + 1 = m /\ m \in Nat
    BY <1>1, <1>3
  <2> QED BY <1>1, <2>1
<1>4. ASSUME NEW i \in Nat, NEW m \in DOMAIN s, i + 1 < m, m < k + 1, Tells(s, m, t)
      PROVE  \E r \in DOMAIN u : i < r /\ r < k /\ Tells(u, r, t)
  <2>1. m # 1 /\ m \in Nat
    BY <1>1, <1>4
  <2>2. m - 1 \in DOMAIN u /\ Tells(u, m - 1, t) /\ i < m - 1 /\ m - 1 < k
    BY <1>3, <1>4, <2>1 DEF Tells
  <2> QED BY <2>2
<1>5. ASSUME NEW i \in DOMAIN u, i < k, u[i].type = "prev"
      PROVE  u[i].tip = t \/ \E m \in DOMAIN u : i < m /\ m < k /\ Tells(u, m, t)
  <2>1. i \in Nat /\ i + 1 \in DOMAIN s /\ i + 1 < k + 1 /\ s[i + 1] = u[i]
    BY <1>2, <1>5
  <2>2. s[i + 1].tip = t \/ \E m \in DOMAIN s : i + 1 < m /\ m < k + 1 /\ Tells(s, m, t)
    BY <1>5, <2>1 DEF Shows
  <2> QED BY <1>4, <2>1, <2>2
<1>6. ASSUME NEW m \in DOMAIN s, 1 < m, m < k + 1, Tells(s, m, t)
      PROVE  \E r \in DOMAIN u : r < k /\ Tells(u, r, t)
  <2>1. 0 \in Nat /\ 0 + 1 < m
    BY <1>6
  <2> QED BY <1>4, <1>6, <2>1
<1>7. ASSUME h.type # "prev" PROVE Shows(p, u, k, t)
  <2>1. p \in {None, t} \/ \E m \in DOMAIN s : m < k + 1 /\ Tells(s, m, t)
    BY DEF Shows
  <2>2. ASSUME NEW m \in DOMAIN s, Tells(s, m, t) PROVE 1 < m
    BY <1>1, <1>7, <2>2 DEF Tells
  <2>3. p \in {None, t} \/ \E m \in DOMAIN u : m < k /\ Tells(u, m, t)
    BY <1>6, <2>1, <2>2
  <2> QED BY <1>5, <2>3 DEF Shows
<1>8. ASSUME h.type = "prev" PROVE Shows(h.tip, u, k, t)
  <2>1. 1 < k + 1
    OBVIOUS
  <2>2. h.tip = t \/ \E m \in DOMAIN s : 1 < m /\ m < k + 1 /\ Tells(s, m, t)
    BY <1>1, <1>2, <1>8, <2>1 DEF Shows
  <2>3. h.tip = t \/ \E m \in DOMAIN u : m < k /\ Tells(u, m, t)
    BY <1>6, <2>2
  <2> QED BY <1>5, <2>3 DEF Shows
<1>9. ASSUME p = None PROVE Shows(None, u, k, t)
  BY <1>5 DEF Shows
<1> QED BY <1>7, <1>8, <1>9 DEF u, h

LEMMA TailTells ==
    ASSUME NEW S, NEW s \in Seq(S), s # <<>>, Head(s).type # "prev", NEW t, NEW k \in Nat,
           NEW m \in DOMAIN s, m < k + 1, Tells(s, m, t)
    PROVE  \E r \in DOMAIN Tail(s) : r < k /\ Tells(Tail(s), r, t)
<1> DEFINE u == Tail(s)
           n == Len(s)
           h == Head(s)
<1>1. /\ n \in Nat /\ n # 0 /\ DOMAIN s = 1..n /\ DOMAIN u = 1..(n - 1)
      /\ \A i \in DOMAIN u : u[i] = s[i + 1]
      /\ s[1] = h
  OBVIOUS
<1>2. h.type # "prev"
  OBVIOUS
<1> HIDE DEF u, n, h
<1>3. m # 1
  BY <1>1, <1>2 DEF Tells
<1>4. m - 1 \in DOMAIN u /\ (m - 1) + 1 = m /\ m - 1 < k
  BY <1>1, <1>3
<1>5. Tells(u, m - 1, t)
  BY <1>1, <1>4 DEF Tells
<1> QED BY <1>4, <1>5 DEF u

\* The head of q moves behind d.
LEMMA ReachesForward ==
    ASSUME NEW d \in Seq(Messages), NEW q \in Seq(Broadcasts), q # <<>>, NEW p, NEW t,
           NEW k \in Nat \ {0}, Shows(None, q, k + 1, t), Reaches(p, d, q, k + 1, t)
    PROVE  Reaches(p, Append(d, Head(q)), Tail(q), k, t)
<1>1. PICK h \in Broadcasts, u \in Seq(Broadcasts) : h = Head(q) /\ u = Tail(q)
  BY TailQueue
<1>2. h \in Messages
  BY MadeTypes
<1>3. PICK e : e = Append(d, h)
  OBVIOUS
<1>4. /\ h.type # "prev" /\ Shows(p, d, Len(d) + 1, t) => Shows(p, e, Len(e) + 1, t)
      /\ h.type = "prev" /\ h.tip = t => Shows(p, e, Len(e) + 1, t)
  BY <1>2, <1>3, ShowsAppend
<1>5. CASE h.type = "prev"
  <2>1. Shows(h.tip, u, k, t)
    BY <1>1, <1>5, ShowsTail
  <2>2. h.tip # None
    BY <1>2, <1>5, MessageKinds, StratumV2Constants
  <2>3. h.tip = t \/ \E m \in DOMAIN u : m < k /\ Tells(u, m, t)
    BY <2>1, <2>2 DEF Shows
  <2>4. Reaches(p, e, u, k, t)
    BY <1>4, <1>5, <2>3 DEF Reaches
  <2> QED BY <1>1, <1>3, <2>4
<1>6. CASE h.type # "prev"
  <2>1. CASE Shows(p, d, Len(d) + 1, t)
    <3>1. Reaches(p, e, u, k, t)
      BY <1>4, <1>6, <2>1 DEF Reaches
    <3> QED BY <1>1, <1>3, <3>1
  <2>2. CASE \E m \in DOMAIN q : m < k + 1 /\ Tells(q, m, t)
    <3>1. \E m \in DOMAIN u : m < k /\ Tells(u, m, t)
      BY <1>1, <1>6, <2>2, TailTells
    <3>2. Reaches(p, e, u, k, t)
      BY <3>1 DEF Reaches
    <3> QED BY <1>1, <1>3, <3>2
  <2> QED BY <2>1, <2>2 DEF Reaches
<1> QED BY <1>5, <1>6

\* A handler that does not lag gets the whole broadcast.
LEMMA BroadcastAll ==
    ASSUME NEW q \in Seq(Broadcasts), budget \in LimitType, NEW ms, Broadcast(ms), q = queue \o ms,
           handler # "gone", ~lagged'
    PROVE  queue' = q /\ ~lagged
<1> DEFINE over == IF Len(q) > budget.cap THEN Len(q) - budget.cap ELSE 0
           n == Len(q)
<1>1. queue' = SubSeq(q, over + 1, Len(q)) /\ lagged' = (lagged \/ over > 0)
  BY DEF Broadcast
<1>2. ~lagged /\ ~(over > 0)
  BY <1>1
<1>3. n \in Nat /\ budget.cap \in Nat
  BY DEF LimitType
<1>4. over = 0
  <2> HIDE DEF n
  <2>1. over = IF n > budget.cap THEN n - budget.cap ELSE 0
    BY DEF n
  <2> HIDE DEF over
  <2> QED BY <1>2, <1>3, <2>1
<1>5. queue' = SubSeq(q, 1, Len(q))
  BY <1>1, <1>4
<1> QED BY <1>2, <1>5

-----------------------------------------------------------------------------
(* The handshake of a connection: SetupConnection and its answer, then the *)
(* channel, which is opened once.                                          *)

Shaking ==
    \/ up = <<[type |-> "setup"]>> /\ down = <<>>
    \/ up = <<>> /\ down = <<[type |-> "setupOk"]>> /\ setup
    \/ up = <<[type |-> "open"]>> /\ down = <<>> /\ setup

Opened ==
    /\ setup
    /\ \A m \in Elems(up) : m.type = "share"
    /\ \A m \in Elems(down) : m.type # "setupOk"

Handshake == alive => IF open THEN Opened ELSE handler = "idle" /\ Shaking

LEMMA OneQueue ==
    ASSUME NEW x PROVE /\ <<x>> # <<>> /\ Head(<<x>>) = x /\ Tail(<<x>>) = <<>> /\ Append(<<>>, x) = <<x>>
                       /\ Elems(<<x>>) = {x}
<1>1. <<x>> # <<>> /\ Head(<<x>>) = x /\ Tail(<<x>>) = <<>> /\ Append(<<>>, x) = <<x>>
  OBVIOUS
<1>2. Elems(<<x>>) = {x}
  BY DEF Elems
<1> QED BY <1>1, <1>2

LEMMA HandshakeStep ==
    ASSUME NanoTypes, OpenInv, Handshake, [NanoNext]_nanoVars PROVE Handshake'
<1>1. /\ up \in Seq(Requests) /\ down \in Seq(Messages) /\ cmds \in Seq(Found)
      /\ queue \in Seq(Broadcasts) /\ open \in BOOLEAN /\ alive \in BOOLEAN /\ setup \in BOOLEAN
  BY DEF NanoTypes, PoolTypes, LinkTypes, DeviceTypes, HandlerTypes
<1>2. ASSUME UNCHANGED <<alive, open, setup, up, down, handler>> PROVE Handshake'
  BY <1>2 DEF Handshake, Opened, Shaking, Elems
<1>3. ASSUME alive' = FALSE PROVE Handshake'
  BY <1>3 DEF Handshake
<1>4. ASSUME alive, open, UNCHANGED <<alive, open, setup>>,
             \A m \in Elems(up') : m \in Elems(up) \/ m.type = "share",
             \A m \in Elems(down') : m \in Elems(down) \/ m.type # "setupOk"
      PROVE  Handshake'
  <2>1. Opened
    BY <1>4 DEF Handshake
  <2>2. Opened'
    BY <1>4, <2>1 DEF Opened
  <2> QED BY <1>4, <2>2 DEF Handshake
<1>5. ASSUME NEW x \in Messages, x.type # "setupOk", alive, open, UNCHANGED <<alive, open, setup, up>>,
             down' = Append(down, x)
      PROVE  Handshake'
  <2>1. Elems(down') = Elems(down) \cup {x}
    BY <1>1, <1>5, AppendQueue
  <2>2. /\ \A m \in Elems(up') : m \in Elems(up) \/ m.type = "share"
        /\ \A m \in Elems(down') : m \in Elems(down) \/ m.type # "setupOk"
    BY <1>5, <2>1
  <2> QED BY <1>4, <1>5, <2>2
<1>6. CASE DeviceOnly
  <2>1. \/ SchedulerTakes \/ SchedulerSubmits \/ DeviceStarts \/ DeviceLoses \/ BackoffEnds
        \/ Refill \/ DeviceSubmits \/ DeviceReads
    BY <1>6 DEF DeviceOnly, SchedulerSteps
  <2>2. UNCHANGED <<open, setup, handler>>
    BY <1>6 DEF DeviceOnly, poolVars
  <2>3. CASE SchedulerTakes \/ SchedulerSubmits \/ DeviceStarts \/ DeviceLoses \/ BackoffEnds \/ Refill
    <3>1. UNCHANGED <<alive, up, down>>
      BY <2>3 DEF SchedulerTakes, SchedulerSubmits, DeviceStarts, DeviceLoses, BackoffEnds, Refill, linkVars
    <3> QED BY <1>2, <2>2, <3>1
  <2>4. CASE DeviceSubmits
    <3>1. PICK s : s = Head(cmds)
      OBVIOUS
    <3>2. /\ cmds # <<>> /\ UNCHANGED <<alive, down>>
          /\ up' = up \/ (channel /\ up' = Append(up, [type |-> "share", share |-> s]))
      BY <2>4, <3>1 DEF DeviceSubmits
    <3>3. CASE up' = up \/ ~alive
      BY <1>1, <1>2, <1>3, <2>2, <3>2, <3>3
    <3>4. CASE alive /\ channel /\ up' = Append(up, [type |-> "share", share |-> s])
      <4>1. s \in Found
        BY <1>1, <3>1, <3>2, TailQueue
      <4>2. PICK x \in Requests : x = [type |-> "share", share |-> s] /\ x.type = "share"
        BY <4>1, MadeTypes
      <4>3. Elems(up') = Elems(up) \cup {x}
        BY <1>1, <3>4, <4>2, AppendQueue
      <4>4. open
        BY <3>4 DEF OpenInv
      <4>5. /\ \A m \in Elems(up') : m \in Elems(up) \/ m.type = "share"
            /\ \A m \in Elems(down') : m \in Elems(down) \/ m.type # "setupOk"
        BY <3>2, <4>2, <4>3
      <4> QED BY <1>4, <2>2, <3>2, <3>4, <4>4, <4>5
    <3> QED BY <3>2, <3>3, <3>4
  <2>5. CASE DeviceReads
    <3>1. PICK m : m = Head(down)
      OBVIOUS
    <3>2. /\ down # <<>> /\ down' = Tail(down) /\ UNCHANGED alive
          /\ up' = up \/ m.type = "setupOk"
          /\ m.type = "setupOk" => up' = Append(up, [type |-> "open"])
      BY <2>5, <3>1 DEF DeviceReads, NewJob, NewPrevHash
    <3>3. CASE ~alive
      BY <1>1, <1>3, <3>2, <3>3
    <3>4. CASE alive /\ open
      <4>1. m \in Elems(down) /\ Elems(down') \subseteq Elems(down)
        BY <1>1, <3>1, <3>2, TailQueue
      <4>2. m.type # "setupOk"
        BY <3>4, <4>1 DEF Handshake, Opened
      <4> QED BY <1>4, <2>2, <3>2, <3>4, <4>1, <4>2
    <3>5. CASE alive /\ ~open
      <4>1. handler = "idle" /\ Shaking
        BY <3>5 DEF Handshake
      <4>2. up = <<>> /\ down = <<[type |-> "setupOk"]>> /\ setup
        BY <3>2, <4>1 DEF Shaking
      <4>3. m = [type |-> "setupOk"] /\ Tail(down) = <<>>
        BY <3>1, <4>2, OneQueue
      <4>4. up' = <<[type |-> "open"]>> /\ down' = <<>>
        BY <3>2, <4>2, <4>3, OneQueue
      <4> QED BY <2>2, <3>2, <3>5, <4>1, <4>2, <4>4 DEF Handshake, Shaking
    <3> QED BY <3>3, <3>4, <3>5
  <2> QED BY <2>1, <2>3, <2>4, <2>5
<1>7. CASE Accepts
  <2>1. open' = FALSE /\ handler' = "idle" /\ up' = <<[type |-> "setup"]>> /\ down' = <<>>
    BY <1>7 DEF Accepts, DeviceConnects
  <2> QED BY <2>1 DEF Handshake, Shaking
<1>8. CASE NodeChanges \/ Refresh \/ UNCHANGED nanoVars
  <2>1. UNCHANGED <<alive, open, setup, up, down, handler>>
    BY <1>8 DEF NodeChanges, Refresh, nanoVars, poolVars, linkVars
  <2> QED BY <1>2, <2>1
<1>9. CASE OpenTooEarly \/ LinkBreaks
  BY <1>3, <1>9 DEF OpenTooEarly, LinkBreaks, Breaks
<1>10. ASSUME handler # "gone" PROVE alive
  BY <1>10 DEF OpenInv
<1>11. CASE Forward
  <2>1. /\ handler = "idle" /\ queue # <<>> /\ UNCHANGED <<alive, open, setup, up, handler>>
        /\ down' = IF open THEN Append(down, Head(queue)) ELSE down
    BY <1>11 DEF Forward, handlerRest
  <2>2. CASE ~open
    BY <1>2, <2>1, <2>2
  <2>3. CASE open
    <3>1. PICK x \in Broadcasts : x = Head(queue)
      BY <1>1, <2>1, TailQueue
    <3>2. x \in Messages /\ x.type # "setupOk"
      BY MadeTypes DEF Broadcasts
    <3> QED BY <1>5, <1>10, <2>1, <2>3, <3>1, <3>2
  <2> QED BY <2>2, <2>3
<1>12. CASE HandleSetup
  <2>1. /\ handler = "idle" /\ up # <<>> /\ Head(up).type = "setup" /\ up' = Tail(up) /\ setup' = TRUE
        /\ down' = Append(down, [type |-> "setupOk"]) /\ UNCHANGED <<alive, open, handler>>
    BY <1>12 DEF HandleSetup, Receive, handlerRest
  <2>2. Head(up) \in Elems(up) /\ alive
    BY <1>1, <1>10, <2>1, TailQueue
  <2>3. ~open /\ Shaking
    BY <2>1, <2>2 DEF Handshake, Opened
  <2>4. up = <<[type |-> "setup"]>> /\ down = <<>>
    BY <2>1, <2>3, OneQueue DEF Shaking
  <2>5. up' = <<>> /\ down' = <<[type |-> "setupOk"]>>
    BY <2>1, <2>4, OneQueue
  <2> QED BY <2>1, <2>3, <2>5 DEF Handshake, Shaking
<1>13. CASE HandleOpen
  <2>1. /\ handler = "idle" /\ up # <<>> /\ Head(up).type = "open" /\ up' = Tail(up) /\ open' = TRUE
        /\ UNCHANGED <<alive, setup>>
        /\ \E d \in Diffs : down' = Append(down, [type |-> "opened", diff |-> d])
    BY <1>13 DEF HandleOpen, Receive, handlerRest
  <2>2. Head(up) \in Elems(up) /\ alive
    BY <1>1, <1>10, <2>1, TailQueue
  <2>3. ~open /\ Shaking
    BY <2>1, <2>2 DEF Handshake, Opened
  <2>4. up = <<[type |-> "open"]>> /\ down = <<>> /\ setup
    BY <2>1, <2>3, OneQueue DEF Shaking
  <2>5. PICK d \in Diffs : down' = Append(down, [type |-> "opened", diff |-> d])
    BY <2>1
  <2>6. PICK x \in Messages : x = [type |-> "opened", diff |-> d] /\ x.type = "opened"
    BY MadeTypes
  <2>7. up' = <<>> /\ down' = <<x>>
    BY <2>1, <2>4, <2>5, <2>6, OneQueue
  <2>8. Elems(up') = {} /\ Elems(down') = {x}
    BY <2>7, OneQueue, EmptyQueue
  <2>9. Opened'
    BY <2>1, <2>4, <2>6, <2>8 DEF Opened
  <2> QED BY <2>1, <2>9 DEF Handshake
<1>14. CASE PushInitial
  <2>1. /\ handler = "initial" /\ UNCHANGED <<alive, open, setup, up>>
        /\ down' = down \o <<JobMsg(active, TRUE), PrevMsg(active)>>
    BY <1>14 DEF PushInitial, handlerRest
  <2>2. open /\ alive /\ active \in Jobs
    BY <2>1 DEF OpenInv, NanoTypes, PoolTypes
  <2>3. active.id \in Nat /\ active.tip \in Nat
    BY <2>2 DEF Jobs
  <2>4. PICK x \in Messages, y \in Messages :
          x = JobMsg(active, TRUE) /\ y = PrevMsg(active) /\ x.type = "job" /\ y.type = "prev"
    BY <2>3, JobMessages, MadeTypes
  <2>5. down' = down \o <<x, y>>
    BY <2>1, <2>4
  <2>6. down \o <<x, y>> = Append(Append(down, x), y)
    BY <1>1, ConcatTwo
  <2>7. Append(down, x) \in Seq(Messages) /\ Elems(Append(down, x)) = Elems(down) \cup {x}
    BY <1>1, AppendQueue
  <2>8. PICK one \in Seq(Messages) : one = Append(down, x) /\ Elems(one) = Elems(down) \cup {x}
    BY <2>7, Zenon
  <2>9. Elems(Append(one, y)) = Elems(one) \cup {y}
    BY AppendQueue
  <2>10. Elems(down') = Elems(down) \cup {x, y}
    BY <2>5, <2>6, <2>8, <2>9
  <2>11. /\ \A m \in Elems(up') : m \in Elems(up) \/ m.type = "share"
         /\ \A m \in Elems(down') : m \in Elems(down) \/ m.type # "setupOk"
    BY <2>1, <2>4, <2>10
  <2> QED BY <1>4, <2>1, <2>2, <2>11
<1>15. CASE HandleShare
  <2>1. /\ handler = "idle" /\ up # <<>> /\ Head(up).type = "share" /\ up' = Tail(up)
        /\ UNCHANGED <<alive, open, setup, down>>
    BY <1>15 DEF HandleShare, Receive
  <2>2. alive /\ Head(up) \in Elems(up) /\ Elems(up') \subseteq Elems(up)
    BY <1>1, <1>10, <2>1, TailQueue
  <2>3. open
    BY <2>1, <2>2 DEF OpenInv
  <2> QED BY <1>4, <2>1, <2>2, <2>3
<1>16. CASE HandleVardiff
  <2>1. handler = "vardiff" /\ UNCHANGED <<alive, open, setup, up, down>>
    BY <1>16 DEF HandleVardiff
  <2>2. open /\ alive
    BY <2>1 DEF OpenInv
  <2> QED BY <1>4, <2>1, <2>2
<1>17. CASE Answer
  <2>1. handler = "answer" /\ down' = Append(down, [type |-> answer]) /\ UNCHANGED <<alive, open, setup, up>>
    BY <1>17 DEF Answer, handlerRest
  <2>2. alive /\ open
    BY <1>10, <2>1 DEF Handshake
  <2>3. answer \in {"success", "error"}
    BY <2>1 DEF NanoTypes, HandlerTypes
  <2>4. PICK x \in Messages : x = [type |-> answer] /\ x.type # "setupOk"
    BY <2>3, MadeTypes
  <2> QED BY <1>5, <2>1, <2>2, <2>4
<1> QED
  BY <1>6, <1>7, <1>8, <1>9, <1>11, <1>12, <1>13, <1>14, <1>15, <1>16, <1>17 DEF NanoNext, HandlerSteps

-----------------------------------------------------------------------------
(* Every job that is sent to be worked on at once meets its own tip.       *)

\* In a queue: the jobs of K that it names, and the next one, of tip t.
Steady(q, K, t) ==
    /\ \A k \in DOMAIN q, j \in K :
          q[k] \in Immediates /\ q[k].id = j.id => Shows(None, q, k, j.tip)
    /\ t # None => Shows(None, q, Len(q) + 1, t)

\* At a device of tip p that reads d and then q: the same, from job f on.
InTime(p, d, q, K, f, t) ==
    /\ \A k \in DOMAIN d, j \in K :
          d[k] \in Immediates /\ d[k].id = j.id /\ j.id >= f => Shows(p, d, k, j.tip)
    /\ \A k \in DOMAIN q, j \in K :
          q[k] \in Immediates /\ q[k].id = j.id /\ j.id >= f => Reaches(p, d, q, k, j.tip)
    /\ t # None => Reaches(p, d, q, Len(q) + 1, t)

LEMMA TailAt ==
    ASSUME NEW S, NEW s \in Seq(S), s # <<>>
    PROVE  /\ \A k \in DOMAIN Tail(s) : k \in Nat \ {0} /\ k + 1 \in DOMAIN s /\ Tail(s)[k] = s[k + 1]
           /\ Len(Tail(s)) + 1 = Len(s) /\ Len(s) \in Nat \ {0}
<1> DEFINE u == Tail(s)
           n == Len(s)
           l == Len(u)
<1>1. /\ n \in Nat /\ n # 0 /\ DOMAIN s = 1..n /\ DOMAIN u = 1..(n - 1) /\ l = n - 1
      /\ \A i \in DOMAIN u : u[i] = s[i + 1]
  OBVIOUS
<1> HIDE DEF u, n, l
<1>2. \A k \in DOMAIN u : k \in Nat \ {0} /\ k + 1 \in DOMAIN s /\ u[k] = s[k + 1]
  BY <1>1
<1>3. l + 1 = n /\ n \in Nat \ {0}
  BY <1>1
<1> QED BY <1>2, <1>3 DEF u, n, l

\* Other known jobs matter only if the messages name them.
LEMMA SteadyKnown ==
    ASSUME NEW q, NEW K, NEW L, NEW t, Steady(q, K, t),
           \A j \in L : \/ \E i \in K : i.id = j.id /\ i.tip = j.tip
                        \/ \A k \in DOMAIN q : q[k] \in Immediates => q[k].id # j.id
    PROVE  Steady(q, L, t)
BY DEF Steady

LEMMA InTimeKnown ==
    ASSUME NEW p, NEW d, NEW q, NEW K, NEW L, NEW f, NEW t, InTime(p, d, q, K, f, t),
           \A j \in L : \/ \E i \in K : i.id = j.id /\ i.tip = j.tip
                        \/ /\ \A k \in DOMAIN q : q[k] \in Immediates => q[k].id # j.id
                           /\ \A k \in DOMAIN d : d[k] \in Immediates => d[k].id # j.id
    PROVE  InTime(p, d, q, L, f, t)
BY DEF InTime

\* A message that is not a tip, and if it is a job, one of the latest tip.
LEMMA SteadyAppend ==
    ASSUME NEW S, NEW q \in Seq(S), NEW x \in S, NEW K, NEW t, Steady(q, K, t), x.type # "prev",
           x \in Immediates => t # None /\ \A j \in K : j.id = x.id => j.tip = t
    PROVE  Steady(Append(q, x), K, t)
<1>1. PICK u : u = Append(q, x)
  OBVIOUS
<1>2. PICK n \in Nat : n = Len(q) /\ DOMAIN q = 1..n
  OBVIOUS
<1>3. /\ DOMAIN u = DOMAIN q \cup {n + 1} /\ Len(u) = n + 1 /\ u[n + 1] = x
      /\ \A i \in DOMAIN q : u[i] = q[i]
  BY <1>1, <1>2
<1>4. ASSUME NEW a PROVE /\ \A k \in 1..(n + 1) : Shows(None, q, k, a) => Shows(None, u, k, a)
                         /\ Shows(None, q, n + 1, a) => Shows(None, u, Len(u) + 1, a)
  BY <1>1, <1>2, ShowsAppend, Zenon
<1>5. ASSUME NEW k \in DOMAIN u, NEW j \in K, u[k] \in Immediates, u[k].id = j.id
      PROVE  Shows(None, u, k, j.tip)
  <2>1. CASE k \in DOMAIN q
    <3>1. Shows(None, q, k, j.tip)
      BY <1>3, <1>5, <2>1 DEF Steady
    <3>2. k \in 1..(n + 1)
      BY <1>2, <2>1
    <3> QED BY <1>4, <3>1, <3>2
  <2>2. CASE k = n + 1
    <3>1. t # None /\ j.tip = t
      BY <1>3, <1>5, <2>2
    <3>2. Shows(None, q, n + 1, t)
      BY <1>2, <3>1 DEF Steady
    <3>3. n + 1 \in 1..(n + 1)
      BY <1>2
    <3> QED BY <1>4, <2>2, <3>1, <3>2, <3>3
  <2> QED BY <1>3, <2>1, <2>2
<1>6. ASSUME t # None PROVE Shows(None, u, Len(u) + 1, t)
  BY <1>2, <1>4, <1>6 DEF Steady
<1>7. Steady(u, K, t)
  BY <1>5, <1>6 DEF Steady
<1> QED BY <1>1, <1>7

LEMMA InTimeAppend ==
    ASSUME NEW S, NEW q \in Seq(S), NEW x \in S, NEW p, NEW d, NEW K, NEW f, NEW t,
           InTime(p, d, q, K, f, t),
           x \in Immediates => t # None /\ \A j \in K : j.id = x.id => j.tip = t
    PROVE  InTime(p, d, Append(q, x), K, f, t)
<1>1. PICK u : u = Append(q, x)
  OBVIOUS
<1>2. PICK n \in Nat : n = Len(q) /\ DOMAIN q = 1..n
  OBVIOUS
<1>3. /\ DOMAIN u = DOMAIN q \cup {n + 1} /\ Len(u) = n + 1 /\ u[n + 1] = x
      /\ \A i \in DOMAIN q : u[i] = q[i]
  BY <1>1, <1>2
<1>4. \A i \in DOMAIN q : i \in Nat /\ i < n + 1 /\ i < Len(u) + 1
  BY <1>2, <1>3
<1>5. ASSUME NEW k, NEW a, Reaches(p, d, q, k, a) PROVE Reaches(p, d, u, k, a)
  BY <1>3, <1>5 DEF Reaches, Tells
<1>6. ASSUME NEW k \in DOMAIN u, NEW j \in K, u[k] \in Immediates, u[k].id = j.id, j.id >= f
      PROVE  Reaches(p, d, u, k, j.tip)
  <2>1. CASE k \in DOMAIN q
    <3>1. Reaches(p, d, q, k, j.tip)
      BY <1>3, <1>6, <2>1 DEF InTime
    <3> QED BY <1>5, <3>1
  <2>2. CASE k = n + 1
    <3>1. t # None /\ j.tip = t
      BY <1>3, <1>6, <2>2
    <3>2. Reaches(p, d, q, n + 1, t)
      BY <1>2, <3>1 DEF InTime
    <3> QED BY <1>5, <2>2, <3>1, <3>2
  <2> QED BY <1>3, <2>1, <2>2
<1>7. ASSUME t # None PROVE Reaches(p, d, u, Len(u) + 1, t)
  <2>1. Reaches(p, d, q, Len(q) + 1, t)
    BY <1>7 DEF InTime
  <2> QED BY <1>3, <1>4, <2>1 DEF Reaches, Tells
<1>8. InTime(p, d, u, K, f, t)
  BY <1>6, <1>7 DEF InTime
<1> QED BY <1>1, <1>8

\* A new tip.
LEMMA SteadyTip ==
    ASSUME NEW S, NEW q \in Seq(S), NEW x \in S, NEW K, NEW t, Steady(q, K, t), x.type = "prev"
    PROVE  Steady(Append(q, x), K, x.tip)
<1>1. PICK u : u = Append(q, x)
  OBVIOUS
<1>2. PICK n \in Nat : n = Len(q) /\ DOMAIN q = 1..n
  OBVIOUS
<1>3. /\ DOMAIN u = DOMAIN q \cup {n + 1} /\ u[n + 1] = x
      /\ \A i \in DOMAIN q : u[i] = q[i]
  BY <1>1, <1>2
<1>4. ASSUME NEW a PROVE \A k \in 1..(n + 1) : Shows(None, q, k, a) => Shows(None, u, k, a)
  BY <1>1, <1>2, ShowsAppend, Zenon
<1>5. Shows(None, u, Len(u) + 1, x.tip)
  BY <1>1, ShowsAppend, Zenon
<1>6. x \notin Immediates
  BY DEF Immediates
<1>7. ASSUME NEW k \in DOMAIN u, NEW j \in K, u[k] \in Immediates, u[k].id = j.id
      PROVE  Shows(None, u, k, j.tip)
  <2>1. k \in DOMAIN q
    BY <1>3, <1>6, <1>7
  <2>2. Shows(None, q, k, j.tip)
    BY <1>3, <1>7, <2>1 DEF Steady
  <2>3. k \in 1..(n + 1)
    BY <1>2, <2>1
  <2> QED BY <1>4, <2>2, <2>3
<1>8. Steady(u, K, x.tip)
  BY <1>5, <1>7 DEF Steady
<1> QED BY <1>1, <1>8

LEMMA InTimeTip ==
    ASSUME NEW S, NEW q \in Seq(S), NEW x \in S, NEW p, NEW d, NEW K, NEW f, NEW t,
           InTime(p, d, q, K, f, t), x.type = "prev"
    PROVE  InTime(p, d, Append(q, x), K, f, x.tip)
<1>1. PICK u : u = Append(q, x)
  OBVIOUS
<1>2. PICK n \in Nat : n = Len(q) /\ DOMAIN q = 1..n
  OBVIOUS
<1>3. /\ DOMAIN u = DOMAIN q \cup {n + 1} /\ Len(u) = n + 1 /\ u[n + 1] = x
      /\ \A i \in DOMAIN q : u[i] = q[i]
  BY <1>1, <1>2
<1>4. n + 1 < Len(u) + 1 /\ n + 1 \in DOMAIN u /\ Tells(u, n + 1, x.tip)
  BY <1>2, <1>3 DEF Tells
<1>5. Reaches(p, d, u, Len(u) + 1, x.tip)
  BY <1>4 DEF Reaches
<1>6. x \notin Immediates
  BY DEF Immediates
<1>7. ASSUME NEW k \in DOMAIN u, NEW j \in K, u[k] \in Immediates, u[k].id = j.id, j.id >= f
      PROVE  Reaches(p, d, u, k, j.tip)
  <2>1. k \in DOMAIN q
    BY <1>3, <1>6, <1>7
  <2>2. Reaches(p, d, q, k, j.tip)
    BY <1>3, <1>7, <2>1 DEF InTime
  <2> QED BY <1>3, <2>2 DEF Reaches, Tells
<1>8. InTime(p, d, u, K, f, x.tip)
  BY <1>5, <1>7 DEF InTime
<1> QED BY <1>1, <1>8

\* The head is taken off the queue.
LEMMA SteadyTail ==
    ASSUME NEW S, NEW q \in Seq(S), q # <<>>, NEW K, NEW t, Steady(q, K, t)
    PROVE  Steady(Tail(q), K, t)
<1>1. PICK u : u = Tail(q)
  OBVIOUS
<1>2. /\ \A k \in DOMAIN u : k \in Nat \ {0} /\ k + 1 \in DOMAIN q /\ u[k] = q[k + 1]
      /\ Len(u) + 1 = Len(q) /\ Len(q) \in Nat \ {0}
  BY <1>1, TailAt
<1>3. ASSUME NEW a, NEW k \in Nat \ {0}, Shows(None, q, k + 1, a) PROVE Shows(None, u, k, a)
  BY <1>1, <1>3, ShowsTail, Zenon
<1>4. ASSUME NEW k \in DOMAIN u, NEW j \in K, u[k] \in Immediates, u[k].id = j.id
      PROVE  Shows(None, u, k, j.tip)
  <2>1. Shows(None, q, k + 1, j.tip) /\ k \in Nat \ {0}
    BY <1>2, <1>4 DEF Steady
  <2> QED BY <1>3, <2>1
<1>5. ASSUME t # None PROVE Shows(None, u, Len(u) + 1, t)
  <2>1. Shows(None, q, Len(q) + 1, t)
    BY <1>5 DEF Steady
  <2>2. Shows(None, u, Len(q), t)
    BY <1>2, <1>3, <2>1
  <2> QED BY <1>2, <2>2
<1>6. Steady(u, K, t)
  BY <1>4, <1>5 DEF Steady
<1> QED BY <1>1, <1>6

\* ... and put behind d.
LEMMA InTimeForward ==
    ASSUME NEW d \in Seq(Messages), NEW q \in Seq(Broadcasts), q # <<>>, NEW p, NEW K, NEW f, NEW t,
           InTime(p, d, q, K, f, t), Steady(q, K, t)
    PROVE  InTime(p, Append(d, Head(q)), Tail(q), K, f, t)
<1>1. PICK h \in Broadcasts, u \in Seq(Broadcasts) : h = Head(q) /\ u = Tail(q)
  BY TailQueue
<1>2. h \in Messages /\ h = q[1] /\ 1 \in DOMAIN q
  BY <1>1, MadeTypes
<1>3. PICK e : e = Append(d, h)
  OBVIOUS
<1>4. PICK n \in Nat : n = Len(d) /\ DOMAIN d = 1..n
  OBVIOUS
<1>5. DOMAIN e = DOMAIN d \cup {n + 1} /\ e[n + 1] = h /\ \A i \in DOMAIN d : e[i] = d[i]
  BY <1>2, <1>3, <1>4
<1>6. ASSUME NEW a PROVE \A k \in 1..(n + 1) : Shows(p, d, k, a) => Shows(p, e, k, a)
  BY <1>2, <1>3, <1>4, ShowsAppend, Zenon
<1>7. /\ \A k \in DOMAIN u : k \in Nat \ {0} /\ k + 1 \in DOMAIN q /\ u[k] = q[k + 1]
      /\ Len(u) + 1 = Len(q) /\ Len(q) \in Nat \ {0}
  BY <1>1, TailAt
<1>8. ASSUME NEW a, NEW k \in Nat \ {0}, Shows(None, q, k + 1, a), Reaches(p, d, q, k + 1, a)
      PROVE  Reaches(p, e, u, k, a)
  BY <1>1, <1>3, <1>8, ReachesForward
<1>9. ASSUME NEW k \in DOMAIN e, NEW j \in K, e[k] \in Immediates, e[k].id = j.id, j.id >= f
      PROVE  Shows(p, e, k, j.tip)
  <2>1. CASE k \in DOMAIN d
    <3>1. Shows(p, d, k, j.tip) /\ k \in 1..(n + 1)
      BY <1>4, <1>5, <1>9, <2>1 DEF InTime
    <3> QED BY <1>6, <3>1
  <2>2. CASE k = n + 1
    <3>1. Reaches(p, d, q, 1, j.tip)
      BY <1>2, <1>5, <1>9, <2>2 DEF InTime
    <3>2. \A m \in DOMAIN q : ~(m < 1)
      OBVIOUS
    <3>3. Shows(p, d, n + 1, j.tip) /\ n + 1 \in 1..(n + 1)
      BY <1>4, <3>1, <3>2 DEF Reaches
    <3> QED BY <1>6, <2>2, <3>3
  <2> QED BY <1>5, <2>1, <2>2
<1>10. ASSUME NEW k \in DOMAIN u, NEW j \in K, u[k] \in Immediates, u[k].id = j.id, j.id >= f
       PROVE  Reaches(p, e, u, k, j.tip)
  <2>1. Shows(None, q, k + 1, j.tip) /\ Reaches(p, d, q, k + 1, j.tip) /\ k \in Nat \ {0}
    BY <1>7, <1>10 DEF InTime, Steady
  <2> QED BY <1>8, <2>1
<1>11. ASSUME t # None PROVE Reaches(p, e, u, Len(u) + 1, t)
  <2>1. Shows(None, q, Len(q) + 1, t) /\ Reaches(p, d, q, Len(q) + 1, t)
    BY <1>11 DEF InTime, Steady
  <2>2. Reaches(p, e, u, Len(q), t)
    BY <1>7, <1>8, <2>1
  <2> QED BY <1>7, <2>2
<1>12. InTime(p, e, u, K, f, t)
  BY <1>9, <1>10, <1>11 DEF InTime
<1> QED BY <1>1, <1>3, <1>12

\* The device reads the head of d, and takes its tip if it is one.
LEMMA InTimeRead ==
    ASSUME NEW S, NEW d \in Seq(S), d # <<>>, NEW p, NEW r, NEW q, NEW K, NEW f, NEW t,
           InTime(p, d, q, K, f, t),
           \/ Head(d).type = "prev" /\ r = Head(d).tip
           \/ Head(d).type # "prev" /\ r = p
    PROVE  InTime(r, Tail(d), q, K, f, t)
<1>1. PICK u : u = Tail(d)
  OBVIOUS
<1>2. /\ \A k \in DOMAIN u : k \in Nat \ {0} /\ k + 1 \in DOMAIN d /\ u[k] = d[k + 1]
      /\ Len(u) + 1 = Len(d) /\ Len(d) \in Nat \ {0}
  BY <1>1, TailAt
<1>3. ASSUME NEW a, NEW k \in Nat \ {0}, Shows(p, d, k + 1, a) PROVE Shows(r, u, k, a)
  BY <1>1, <1>3, ShowsTail, Zenon
<1>4. ASSUME NEW k \in DOMAIN u, NEW j \in K, u[k] \in Immediates, u[k].id = j.id, j.id >= f
      PROVE  Shows(r, u, k, j.tip)
  <2>1. Shows(p, d, k + 1, j.tip) /\ k \in Nat \ {0}
    BY <1>2, <1>4 DEF InTime
  <2> QED BY <1>3, <2>1
<1>5. ASSUME NEW k, NEW a, Reaches(p, d, q, k, a) PROVE Reaches(r, u, q, k, a)
  <2>1. CASE Shows(p, d, Len(d) + 1, a)
    <3>1. Shows(r, u, Len(d), a)
      BY <1>2, <1>3, <2>1
    <3>2. Shows(r, u, Len(u) + 1, a)
      BY <1>2, <3>1
    <3> QED BY <3>2 DEF Reaches
  <2>2. CASE \E m \in DOMAIN q : m < k /\ Tells(q, m, a)
    BY <2>2 DEF Reaches
  <2> QED BY <1>5, <2>1, <2>2 DEF Reaches
<1>6. InTime(r, u, q, K, f, t)
  BY <1>4, <1>5 DEF InTime
<1> QED BY <1>1, <1>6

\* An answer goes behind d.
LEMMA InTimeAnswer ==
    ASSUME NEW S, NEW d \in Seq(S), NEW x \in S, NEW p, NEW q, NEW K, NEW f, NEW t,
           InTime(p, d, q, K, f, t), x.type \notin {"job", "prev"}
    PROVE  InTime(p, Append(d, x), q, K, f, t)
<1>1. PICK e : e = Append(d, x)
  OBVIOUS
<1>2. PICK n \in Nat : n = Len(d) /\ DOMAIN d = 1..n
  OBVIOUS
<1>3. DOMAIN e = DOMAIN d \cup {n + 1} /\ e[n + 1] = x /\ \A i \in DOMAIN d : e[i] = d[i]
  BY <1>1, <1>2
<1>4. ASSUME NEW a PROVE /\ \A k \in 1..(n + 1) : Shows(p, d, k, a) => Shows(p, e, k, a)
                         /\ Shows(p, d, n + 1, a) => Shows(p, e, Len(e) + 1, a)
  BY <1>1, <1>2, ShowsAppend, Zenon
<1>5. x \notin Immediates
  BY DEF Immediates
<1>6. ASSUME NEW k \in DOMAIN e, NEW j \in K, e[k] \in Immediates, e[k].id = j.id, j.id >= f
      PROVE  Shows(p, e, k, j.tip)
  <2>1. k \in DOMAIN d
    BY <1>3, <1>5, <1>6
  <2>2. Shows(p, d, k, j.tip) /\ k \in 1..(n + 1)
    BY <1>2, <1>3, <1>6, <2>1 DEF InTime
  <2> QED BY <1>4, <2>2
<1>7. ASSUME NEW k, NEW a, Reaches(p, d, q, k, a) PROVE Reaches(p, e, q, k, a)
  BY <1>2, <1>4, <1>7 DEF Reaches
<1>8. InTime(p, e, q, K, f, t)
  BY <1>6, <1>7 DEF InTime
<1> QED BY <1>1, <1>8

\* The initial job: its tip comes last, and it is the only job from f on.
LEMMA InTimeInitial ==
    ASSUME NEW S, NEW d \in Seq(S), NEW x \in S, NEW p, NEW q, NEW K, NEW f,
           x.type = "prev", \A k \in DOMAIN d : d[k] \notin Immediates,
           \A j \in K : j.id >= f => j.tip = x.tip
    PROVE  InTime(p, Append(d, x), q, K, f, x.tip)
<1>1. PICK e : e = Append(d, x)
  OBVIOUS
<1>2. PICK n \in Nat : n = Len(d) /\ DOMAIN d = 1..n
  OBVIOUS
<1>3. DOMAIN e = DOMAIN d \cup {n + 1} /\ e[n + 1] = x /\ \A i \in DOMAIN d : e[i] = d[i]
  BY <1>1, <1>2
<1>4. Shows(p, e, Len(e) + 1, x.tip)
  BY <1>1, ShowsAppend, Zenon
<1>5. x \notin Immediates
  BY DEF Immediates
<1>6. \A k \in DOMAIN e : e[k] \notin Immediates
  BY <1>3, <1>5
<1>7. \A k : Reaches(p, e, q, k, x.tip)
  BY <1>4 DEF Reaches
<1>8. InTime(p, e, q, K, f, x.tip)
  BY <1>6, <1>7 DEF InTime
<1> QED BY <1>1, <1>8

-----------------------------------------------------------------------------
(* The jobs the device builds have their own tip.                          *)

\* The handler has given the device its first job.
Ready == open /\ handler # "initial"

\* Before that, the device knows no job and no tip of the session.
Quiet ==
    alive /\ ~Ready =>
        /\ prev = None
        /\ \A m \in Elems(down) : m.type \notin {"job", "prev"}
        /\ \A w \in held : w.ses # ses
        /\ \A e \in Elems(evts) : e.type # "clear" => e.job.ses # ses

QueueTips == alive /\ ~lagged => Steady(queue, Known, lastPrev)

LineTips == Ready /\ ~lagged => InTime(prev, down, queue, Known, firstId, lastPrev)

RightTip(w) == w.ses = ses /\ w.id >= firstId => \A j \in Known : j.id = w.id => j.tip = w.tip

TemplateTips ==
    Ready /\ ~lagged =>
        /\ \A w \in held : RightTip(w)
        /\ \A e \in Elems(evts) : e.type # "clear" => RightTip(e.job)

LEMMA QuietStep ==
    ASSUME NanoTypes, OpenInv, SessionInv, Handshake, Quiet, [NanoNext]_nanoVars PROVE Quiet'
<1>1. /\ up \in Seq(Requests) /\ down \in Seq(Messages) /\ evts \in Seq(Offers)
      /\ queue \in Seq(Broadcasts) /\ open \in BOOLEAN /\ alive \in BOOLEAN /\ ses \in Nat
  BY DEF NanoTypes, PoolTypes, LinkTypes, DeviceTypes, HandlerTypes
<1>2. ASSUME alive' = FALSE \/ Ready' PROVE Quiet'
  BY <1>2 DEF Quiet
<1>3. ASSUME alive, ~Ready, UNCHANGED <<prev, ses>>,
             \A m \in Elems(down') : m \in Elems(down) \/ m.type \notin {"job", "prev"},
             \A w \in held' : w \in held \/ \E e \in Elems(evts) : e.type # "clear" /\ w = e.job,
             \A e \in Elems(evts') : e \in Elems(evts) \/ e.type = "clear"
      PROVE  Quiet'
  <2>1. /\ prev = None
        /\ \A m \in Elems(down) : m.type \notin {"job", "prev"}
        /\ \A w \in held : w.ses # ses
        /\ \A e \in Elems(evts) : e.type # "clear" => e.job.ses # ses
    BY <1>3 DEF Quiet
  <2>2. /\ prev' = None
        /\ \A m \in Elems(down') : m.type \notin {"job", "prev"}
        /\ \A w \in held' : w.ses # ses'
        /\ \A e \in Elems(evts') : e.type # "clear" => e.job.ses # ses'
    BY <1>3, <2>1
  <2> QED BY <2>2 DEF Quiet
<1>4. ASSUME Ready' = Ready, UNCHANGED <<alive, prev, ses>>,
             \A m \in Elems(down') : m \in Elems(down) \/ m.type \notin {"job", "prev"},
             \A w \in held' : w \in held \/ \E e \in Elems(evts) : e.type # "clear" /\ w = e.job,
             \A e \in Elems(evts') : e \in Elems(evts) \/ e.type = "clear"
      PROVE  Quiet'
  <2>1. CASE alive /\ ~Ready
    BY <1>3, <1>4, <2>1
  <2>2. CASE ~alive \/ Ready
    BY <1>1, <1>2, <1>4, <2>2
  <2> QED BY <2>1, <2>2
<1>5. ASSUME UNCHANGED <<evts, held>>
      PROVE  /\ \A w \in held' : w \in held \/ \E e \in Elems(evts) : e.type # "clear" /\ w = e.job
             /\ \A e \in Elems(evts') : e \in Elems(evts) \/ e.type = "clear"
  BY <1>5
<1>6. CASE DeviceOnly
  <2>1. \/ SchedulerTakes \/ SchedulerSubmits \/ DeviceStarts \/ DeviceLoses \/ BackoffEnds
        \/ Refill \/ DeviceSubmits \/ DeviceReads
    BY <1>6 DEF DeviceOnly, SchedulerSteps
  <2>2. Ready' = Ready
    BY <1>6 DEF DeviceOnly, poolVars, Ready
  <2>3. CASE SchedulerTakes
    <3>1. PICK e : e = Head(evts)
      OBVIOUS
    <3>2. /\ Elems(evts) = Elems(evts') \cup {e}
          /\ e.type \in {"update", "replace", "clear"}
          /\ e.type = "clear" => held' = {}
          /\ e.type = "update" => held' = held \cup {e.job}
          /\ e.type = "replace" => held' = {e.job}
      BY <1>1, <2>3, <3>1, TakeCases
    <3>3. UNCHANGED <<alive, prev, ses, down>>
      BY <2>3 DEF SchedulerTakes, linkVars
    <3>4. \A w \in held' : w \in held \/ \E x \in Elems(evts) : x.type # "clear" /\ w = x.job
      BY <3>2
    <3> QED BY <1>4, <2>2, <3>2, <3>3, <3>4
  <2>4. CASE SchedulerSubmits \/ DeviceStarts \/ BackoffEnds \/ Refill \/ DeviceSubmits
    <3>1. UNCHANGED <<alive, prev, ses, down, evts, held>>
      BY <2>4 DEF SchedulerSubmits, DeviceStarts, BackoffEnds, Refill, DeviceSubmits, linkVars
    <3> QED BY <1>4, <1>5, <2>2, <3>1
  <2>5. CASE DeviceLoses
    <3>1. alive' = FALSE
      BY <1>1, <2>5 DEF DeviceLoses, linkVars
    <3> QED BY <1>2, <3>1
  <2>6. CASE DeviceReads
    <3>1. PICK m : m = Head(down)
      OBVIOUS
    <3>2. /\ down # <<>> /\ down' = Tail(down) /\ UNCHANGED <<alive, ses, held>>
          /\ prev' = prev \/ m.type = "prev"
          /\ evts' = evts \/ m.type \in {"job", "prev"}
      BY <2>6, <3>1, ReadCases
    <3>3. m \in Elems(down) /\ Elems(down') \subseteq Elems(down)
      BY <1>1, <3>1, <3>2, TailQueue
    <3>4. CASE ~alive \/ Ready
      BY <1>1, <1>2, <2>2, <3>2, <3>4
    <3>5. CASE alive /\ ~Ready
      <4>1. m.type \notin {"job", "prev"}
        BY <3>3, <3>5 DEF Quiet
      <4>2. UNCHANGED <<prev, evts, held>>
        BY <3>2, <4>1
      <4> QED BY <1>3, <1>5, <3>2, <3>3, <3>5, <4>2
    <3> QED BY <3>4, <3>5
  <2> QED BY <2>1, <2>3, <2>4, <2>5, <2>6
<1>7. CASE Accepts
  <2>1. down' = <<>> /\ prev' = None /\ ses' = ses + 1 /\ UNCHANGED <<evts, held>>
    BY <1>7 DEF Accepts, DeviceConnects
  <2>2. Elems(down') = {}
    BY <2>1, EmptyQueue
  <2>3. ~(ses' \in 1..ses)
    BY <1>1, <2>1
  <2>4. /\ \A w \in held : w.ses # ses'
        /\ \A e \in Elems(evts) : e.type # "clear" => e.job.ses # ses'
    BY <2>3 DEF SessionInv
  <2> QED BY <2>1, <2>2, <2>4 DEF Quiet
<1>8. ASSUME PoolOnly PROVE UNCHANGED <<prev, ses, evts, held>>
  BY <1>8, PoolFrame DEF deviceVars
<1>9. CASE NodeChanges \/ Refresh \/ HandleShare \/ HandleVardiff
  <2>1. UNCHANGED <<alive, down, open>>
    BY <1>9 DEF NodeChanges, Refresh, HandleShare, HandleVardiff, linkVars
  <2>2. handler' = handler \/ (handler # "initial" /\ handler' # "initial")
    BY <1>9 DEF NodeChanges, Refresh, HandleShare, HandleVardiff, Receive, NotFound, TooLow, Accepted
  <2>3. Ready' = Ready
    BY <2>1, <2>2 DEF Ready
  <2>4. UNCHANGED <<prev, ses, evts, held>>
    BY <1>8, <1>9 DEF PoolOnly, HandlerSteps
  <2> QED BY <1>4, <1>5, <2>1, <2>3, <2>4
<1>10. CASE OpenTooEarly \/ LinkBreaks
  BY <1>2, <1>10 DEF OpenTooEarly, LinkBreaks, Breaks
<1>11. CASE PushInitial
  <2>1. open /\ open' = open /\ handler' = "idle"
    BY <1>11 DEF PushInitial, OpenInv
  <2> QED BY <1>2, <2>1 DEF Ready
<1>12. CASE Forward
  <2>1. UNCHANGED <<alive, open, handler>> /\ handler = "idle" /\ (~open => down' = down)
    BY <1>12 DEF Forward, handlerRest
  <2>2. UNCHANGED <<prev, ses, evts, held>>
    BY <1>8, <1>12 DEF PoolOnly, HandlerSteps
  <2>3. CASE open
    BY <1>2, <2>1, <2>3 DEF Ready
  <2>4. CASE ~open
    BY <1>4, <1>5, <2>1, <2>2, <2>4 DEF Ready
  <2> QED BY <2>3, <2>4
<1>13. CASE HandleSetup \/ Answer
  <2>1. UNCHANGED <<alive, open>> /\ handler # "initial" /\ handler' # "initial"
    BY <1>13 DEF HandleSetup, Answer, Receive, handlerRest
  <2>2. UNCHANGED <<prev, ses, evts, held>>
    BY <1>8, <1>13 DEF PoolOnly, HandlerSteps
  <2>3. PICK x \in Messages : x.type \notin {"job", "prev"} /\ down' = Append(down, x)
    <3>1. CASE HandleSetup
      BY <3>1, MadeTypes DEF HandleSetup
    <3>2. CASE Answer
      <4>1. answer \in {"success", "error"}
        BY <3>2 DEF Answer, NanoTypes, HandlerTypes
      <4> QED BY <3>2, <4>1, MadeTypes DEF Answer
    <3> QED BY <1>13, <3>1, <3>2
  <2>4. Elems(down') = Elems(down) \cup {x}
    BY <1>1, <2>3, AppendQueue
  <2>5. Ready' = Ready
    BY <2>1 DEF Ready
  <2> QED BY <1>4, <1>5, <2>1, <2>2, <2>3, <2>4, <2>5
<1>14. CASE HandleOpen
  <2>1. handler = "idle" /\ up # <<>> /\ Head(up).type = "open"
    BY <1>14 DEF HandleOpen, Receive
  <2>2. alive /\ Head(up) \in Elems(up)
    BY <1>1, <2>1, TailQueue DEF OpenInv
  <2>3. ~Ready
    BY <2>1, <2>2 DEF Handshake, Opened, Ready
  <2>4. UNCHANGED <<prev, ses, evts, held>>
    BY <1>8, <1>14 DEF PoolOnly, HandlerSteps
  <2>5. PICK x \in Messages : x.type \notin {"job", "prev"} /\ down' = Append(down, x)
    BY <1>14, MadeTypes DEF HandleOpen
  <2>6. Elems(down') = Elems(down) \cup {x}
    BY <1>1, <2>5, AppendQueue
  <2> QED BY <1>3, <1>5, <2>2, <2>3, <2>4, <2>5, <2>6
<1>15. CASE UNCHANGED nanoVars
  <2>1. UNCHANGED <<alive, prev, ses, down, evts, held, open, handler>>
    BY <1>15 DEF nanoVars, deviceVars, linkVars, poolVars
  <2> QED BY <1>4, <1>5, <2>1 DEF Ready
<1> QED
  BY <1>6, <1>7, <1>9, <1>10, <1>11, <1>12, <1>13, <1>14, <1>15 DEF NanoNext, HandlerSteps

\* The jobs that are known come before the next one.
LEMMA KnownIds ==
    ASSUME NanoTypes, Numbered, NEW j \in Known PROVE j.id \in Nat /\ j.id < nextId
<1>1. active # None /\ (j = active \/ j \in Elems(past))
  BY DEF Known
<1>2. /\ active \in Jobs /\ past \in Seq(Jobs) /\ InOrder(past, active.id, lastPrev)
      /\ active.id + 1 = nextId
  BY <1>1 DEF NanoTypes, PoolTypes, Numbered
<1>3. active.id \in Nat
  BY <1>2 DEF Jobs
<1>4. CASE j = active
  BY <1>2, <1>3, <1>4
<1>5. CASE j \in Elems(past)
  <2>1. j.id < active.id /\ j.id \in Nat
    BY <1>2, <1>3, <1>5, PastIds
  <2> QED BY <1>2, <1>3, <2>1
<1> QED BY <1>1, <1>4, <1>5

\* A job that becomes known is of the latest tip, and no message names it yet.
LEMMA NewIsLatest ==
    ASSUME NanoTypes, OpenInv, Numbered, [NanoNext]_nanoVars, NEW j \in Known', j.id = nextId
    PROVE  j.tip = lastPrev'
<1>1. \A i \in Known : i.id # nextId
  <2> SUFFICES ASSUME NEW i \in Known PROVE i.id # nextId
    OBVIOUS
  <2>1. i.id \in Nat /\ i.id < nextId /\ nextId \in Nat
    BY KnownIds DEF NanoTypes, PoolTypes
  <2> QED BY <2>1
<1> QED BY <1>1, KnownStep

LEMMA NewIsUnnamed ==
    ASSUME NanoTypes, OpenInv, Numbered, MsgInv, [NanoNext]_nanoVars, NEW j \in Known'
    PROVE  \/ \E i \in Known : i.id = j.id /\ i.tip = j.tip
           \/ /\ \A k \in DOMAIN queue : queue[k] \in Immediates => queue[k].id # j.id
              /\ \A k \in DOMAIN down : down[k] \in Immediates => down[k].id # j.id
<1>1. \A m \in Wire : m \in Immediates => m.id # nextId
  <2> SUFFICES ASSUME NEW m \in Wire, m \in Immediates PROVE m.id # nextId
    OBVIOUS
  <2>1. m.type = "job" /\ m.id \in Nat /\ nextId \in Nat
    BY DEF Immediates, NanoTypes, PoolTypes
  <2>2. m.id < nextId
    BY <2>1 DEF MsgInv
  <2> QED BY <2>1, <2>2
<1>2. /\ \A k \in DOMAIN queue : queue[k] \in Wire
      /\ \A k \in DOMAIN down : down[k] \in Wire
  BY DEF Wire, Elems
<1> QED BY <1>1, <1>2, KnownStep

\* What a handler that does not lag finds in its queue after a new job.
Added(x, y) ==
    \/ queue' = queue /\ lastPrev' = lastPrev
    \/ queue' = Append(queue, x) /\ lastPrev' = lastPrev /\ lastPrev # None /\ x.type # "prev" /\ x.id = nextId
    \/ /\ queue' = Append(Append(queue, x), y)
       /\ x.type # "prev" /\ x \notin Immediates /\ y.type = "prev" /\ y.tip = lastPrev'
    \/ /\ queue' = Append(Append(queue, x), y) /\ lastPrev' = lastPrev /\ lastPrev # None
       /\ x.type # "prev" /\ x \notin Immediates /\ y.type # "prev" /\ y.id = nextId

LEMMA AddedByJob ==
    ASSUME NanoTypes, OpenInv, Numbered, Refresh \/ HandleVardiff, alive, ~lagged'
    PROVE  ~lagged /\ \E x, y \in Broadcasts : Added(x, y)
<1>1. /\ queue \in Seq(Broadcasts) /\ budget \in LimitType /\ nextId \in Nat /\ node.tip \in Nat
      /\ None \notin Nat /\ handler # "gone" /\ None \notin Jobs
  BY StratumV2Constants, NanoPoolConstants DEF NanoTypes, PoolTypes, LinkTypes, OpenInv
<1>2. ASSUME NEW x \in Broadcasts, Broadcast(<<x>>) PROVE queue' = Append(queue, x) /\ ~lagged
  <2>1. PICK q : q = Append(queue, x)
    OBVIOUS
  <2>2. q \in Seq(Broadcasts) /\ q = queue \o <<x>>
    BY <1>1, <2>1, AppendQueue, ConcatOne
  <2>3. queue' = q /\ ~lagged
    BY <1>1, <1>2, <2>2, BroadcastAll
  <2> QED BY <2>1, <2>3
<1>3. ASSUME NEW x \in Broadcasts, NEW y \in Broadcasts, Broadcast(<<x, y>>)
      PROVE  queue' = Append(Append(queue, x), y) /\ ~lagged
  <2>1. PICK q : q = Append(Append(queue, x), y)
    OBVIOUS
  <2>2. q \in Seq(Broadcasts) /\ q = queue \o <<x, y>>
    BY <1>1, <2>1, AppendQueue, ConcatTwo
  <2>3. queue' = q /\ ~lagged
    BY <1>1, <1>3, <2>2, BroadcastAll
  <2> QED BY <2>1, <2>3
<1>4. CASE Refresh
  <2>1. PICK j \in Jobs :
             /\ j.id = nextId /\ j.tip = node.tip /\ lastPrev' = node.tip
             /\ \/ NewTip /\ Broadcast(<<JobMsg(j, TRUE), PrevMsg(j)>>)
                \/ ~NewTip /\ Broadcast(<<JobMsg(j, FALSE)>>)
    BY <1>4, RefreshCases, Zenon
  <2>2. PICK x \in Broadcasts, y \in Broadcasts, z \in Broadcasts :
             /\ x = JobMsg(j, TRUE) /\ y = PrevMsg(j) /\ z = JobMsg(j, FALSE)
             /\ x.type = "job" /\ y.type = "prev" /\ y.tip = j.tip
             /\ z.type = "job" /\ z.id = j.id
    BY <1>1, <2>1, JobMessages
  <2>3. x \notin Immediates
    BY <2>2 DEF JobMsg, Immediates
  <2>4. CASE Broadcast(<<x, y>>)
    <3>1. queue' = Append(Append(queue, x), y) /\ ~lagged
      BY <1>3, <2>4
    <3>2. Added(x, y)
      BY <2>1, <2>2, <2>3, <3>1 DEF Added
    <3> QED BY <3>1, <3>2
  <2>5. CASE ~NewTip /\ Broadcast(<<z>>)
    <3>1. queue' = Append(queue, z) /\ ~lagged
      BY <1>2, <2>5
    <3>2. lastPrev = node.tip
      BY <2>5 DEF NewTip
    <3>3. Added(z, y)
      BY <1>1, <2>1, <2>2, <3>1, <3>2 DEF Added
    <3> QED BY <3>1, <3>3
  <2> QED BY <2>1, <2>2, <2>4, <2>5
<1>5. CASE HandleVardiff
  <2>1. UNCHANGED lastPrev
    BY <1>5 DEF HandleVardiff
  <2>2. CASE UNCHANGED <<active, past, nextId, queue, lagged>>
    <3>1. PICK x \in Broadcasts : TRUE
      <4>1. \E d \in Diffs : TargetMsg(d) \in Broadcasts
        BY StratumV2Constants, TargetMessage
      <4> QED BY <4>1
    <3>2. Added(x, x)
      BY <2>1, <2>2 DEF Added
    <3> QED BY <2>2, <3>2
  <2>3. CASE ~(UNCHANGED <<active, past, nextId, queue, lagged>>)
    <3>1. PICK j \in Jobs, d \in Diffs :
            j.id = nextId /\ active # None /\ Broadcast(<<TargetMsg(d), JobMsg(j, FALSE)>>)
      BY <1>5, <2>3, VardiffCases, Zenon
    <3>2. j.tip \in Nat
      BY DEF Jobs
    <3>3. PICK x \in Broadcasts, y \in Broadcasts :
               /\ x = TargetMsg(d) /\ y = JobMsg(j, FALSE)
               /\ x.type = "target" /\ y.type = "job" /\ y.id = j.id
      BY <1>1, <3>1, <3>2, JobMessages, TargetMessage
    <3>4. x \notin Immediates
      BY <3>3 DEF Immediates
    <3>5. queue' = Append(Append(queue, x), y) /\ ~lagged
      BY <1>3, <3>1, <3>3
    <3>6. lastPrev # None
      BY <1>1, <3>1 DEF Numbered
    <3>7. Added(x, y)
      BY <2>1, <3>1, <3>3, <3>4, <3>5, <3>6 DEF Added
    <3> QED BY <3>5, <3>7
  <2> QED BY <2>2, <2>3
<1> QED BY <1>4, <1>5

LEMMA QueueTipsStep ==
    ASSUME NanoTypes, OpenInv, Numbered, MsgInv, QueueTips, [NanoNext]_nanoVars PROVE QueueTips'
<1>1. /\ queue \in Seq(Broadcasts) /\ alive \in BOOLEAN /\ lagged \in BOOLEAN
  BY DEF NanoTypes, PoolTypes, LinkTypes, HandlerTypes
<1>2. PICK K : K = Known'
  OBVIOUS
<1>3. ASSUME alive, ~lagged PROVE Steady(queue, K, lastPrev)
  <2>1. Steady(queue, Known, lastPrev)
    BY <1>3 DEF QueueTips
  <2>2. \A j \in K : \/ \E i \in Known : i.id = j.id /\ i.tip = j.tip
                     \/ \A k \in DOMAIN queue : queue[k] \in Immediates => queue[k].id # j.id
    BY <1>2, NewIsUnnamed
  <2> QED BY <2>1, <2>2, SteadyKnown
<1>4. ASSUME NEW q, NEW t, queue' = q, lastPrev' = t, alive' /\ ~lagged' => Steady(q, K, t)
      PROVE  QueueTips'
  BY <1>2, <1>4 DEF QueueTips
<1>5. ASSUME UNCHANGED <<alive, lagged, queue, lastPrev>> PROVE QueueTips'
  BY <1>3, <1>4, <1>5
<1>6. CASE DeviceOnly \/ NodeChanges \/ HandleSetup \/ HandleOpen \/ PushInitial \/ HandleShare \/ Answer
           \/ UNCHANGED nanoVars
  <2>1. UNCHANGED <<lagged, queue, lastPrev>>
    BY <1>6 DEF DeviceOnly, poolVars, nanoVars, NodeChanges, HandleSetup, HandleOpen, PushInitial,
       HandleShare, Answer, handlerRest
  <2>2. UNCHANGED alive
    <3>1. CASE DeviceOnly
      BY <3>1 DEF DeviceOnly, SchedulerSteps, SchedulerTakes, SchedulerSubmits, DeviceStarts, DeviceLoses,
         BackoffEnds, Refill, DeviceSubmits, DeviceReads, linkVars
    <3>2. CASE ~DeviceOnly
      BY <1>6, <3>2 DEF nanoVars, linkVars, NodeChanges, HandleSetup, HandleOpen, PushInitial,
         HandleShare, Answer, handlerRest
    <3> QED BY <3>1, <3>2
  <2> QED BY <1>5, <2>1, <2>2
<1>7. CASE Accepts
  <2>1. queue' = <<>> /\ UNCHANGED lastPrev
    BY <1>7 DEF Accepts
  <2>2. PICK none : none = <<>>
    OBVIOUS
  <2>3. DOMAIN none = {}
    BY <2>2
  <2>4. Steady(none, K, lastPrev)
    BY <2>3 DEF Steady, Shows
  <2> QED BY <1>4, <2>1, <2>2, <2>4
<1>8. CASE OpenTooEarly \/ LinkBreaks
  BY <1>8 DEF OpenTooEarly, LinkBreaks, Breaks, QueueTips
<1>9. CASE Forward
  <2>1. queue # <<>> /\ queue' = Tail(queue) /\ UNCHANGED <<alive, lagged, lastPrev>>
    BY <1>9 DEF Forward, handlerRest
  <2>2. PICK q : q = Tail(queue)
    OBVIOUS
  <2>3. ASSUME alive, ~lagged PROVE Steady(q, K, lastPrev)
    <3>1. Steady(queue, K, lastPrev)
      BY <1>3, <2>3
    <3> QED BY <1>1, <2>1, <2>2, <3>1, SteadyTail
  <2> QED BY <1>4, <2>1, <2>2, <2>3
<1>10. CASE Refresh \/ HandleVardiff
  <2>1. UNCHANGED alive
    BY <1>10 DEF Refresh, HandleVardiff, linkVars
  <2> SUFFICES ASSUME alive, ~lagged' PROVE QueueTips'
    BY <2>1 DEF QueueTips
  <2>2. ~lagged
    BY <1>10, AddedByJob
  <2>3. PICK x \in Broadcasts, y \in Broadcasts : Added(x, y)
    BY <1>10, AddedByJob
  <2>4. Steady(queue, K, lastPrev)
    BY <1>3, <2>2
  <2>5. \A j \in K : j.id = nextId => j.tip = lastPrev'
    BY <1>2, NewIsLatest
  <2>6. PICK q : q = Append(queue, x)
    OBVIOUS
  <2>7. PICK r : r = Append(q, y)
    OBVIOUS
  <2>8. q \in Seq(Broadcasts)
    BY <1>1, <2>6, AppendQueue
  <2>9. CASE queue' = queue /\ lastPrev' = lastPrev
    BY <1>4, <2>4, <2>9
  <2>10. CASE queue' = q /\ lastPrev' = lastPrev /\ lastPrev # None /\ x.type # "prev" /\ x.id = nextId
    <3>1. Steady(q, K, lastPrev)
      BY <1>1, <2>4, <2>5, <2>6, <2>10, SteadyAppend
    <3> QED BY <1>4, <2>10, <3>1
  <2>11. CASE queue' = r /\ x.type # "prev" /\ x \notin Immediates /\ y.type = "prev" /\ y.tip = lastPrev'
    <3>1. Steady(q, K, lastPrev)
      BY <1>1, <2>4, <2>6, <2>11, SteadyAppend
    <3>2. Steady(r, K, y.tip)
      BY <2>7, <2>8, <2>11, <3>1, SteadyTip
    <3> QED BY <1>4, <2>11, <3>2
  <2>12. CASE /\ queue' = r /\ lastPrev' = lastPrev /\ lastPrev # None
              /\ x.type # "prev" /\ x \notin Immediates /\ y.type # "prev" /\ y.id = nextId
    <3>1. Steady(q, K, lastPrev)
      BY <1>1, <2>4, <2>6, <2>12, SteadyAppend
    <3>2. Steady(r, K, lastPrev)
      BY <2>5, <2>7, <2>8, <2>12, <3>1, SteadyAppend
    <3> QED BY <1>4, <2>12, <3>2
  <2> QED BY <2>3, <2>6, <2>7, <2>9, <2>10, <2>11, <2>12 DEF Added
<1> QED
  BY <1>6, <1>7, <1>8, <1>9, <1>10 DEF NanoNext, HandlerSteps

LEMMA LineTipsStep ==
    ASSUME NanoTypes, OpenInv, Numbered, MsgInv, Quiet, QueueTips, LineTips, [NanoNext]_nanoVars
    PROVE  LineTips'
<1>1. /\ queue \in Seq(Broadcasts) /\ down \in Seq(Messages) /\ open \in BOOLEAN /\ lagged \in BOOLEAN
  BY DEF NanoTypes, PoolTypes, LinkTypes, HandlerTypes
<1>2. PICK K : K = Known'
  OBVIOUS
<1>3. ASSUME Ready, ~lagged PROVE InTime(prev, down, queue, K, firstId, lastPrev)
  <2>1. InTime(prev, down, queue, Known, firstId, lastPrev)
    BY <1>3 DEF LineTips
  <2>2. \A j \in K : \/ \E i \in Known : i.id = j.id /\ i.tip = j.tip
                     \/ /\ \A k \in DOMAIN queue : queue[k] \in Immediates => queue[k].id # j.id
                        /\ \A k \in DOMAIN down : down[k] \in Immediates => down[k].id # j.id
    BY <1>2, NewIsUnnamed
  <2> QED BY <2>1, <2>2, InTimeKnown
<1>4. ASSUME NEW p, NEW d, NEW q, NEW f, NEW t,
             prev' = p, down' = d, queue' = q, firstId' = f, lastPrev' = t,
             Ready' /\ ~lagged' => InTime(p, d, q, K, f, t)
      PROVE  LineTips'
  BY <1>2, <1>4 DEF LineTips
<1>5. ASSUME Ready' => Ready, UNCHANGED <<prev, down, queue, firstId, lastPrev, lagged>> PROVE LineTips'
  BY <1>3, <1>4, <1>5
<1>6. CASE (DeviceOnly /\ ~DeviceReads) \/ NodeChanges \/ HandleShare \/ UNCHANGED nanoVars
  <2>1. UNCHANGED <<prev, down, queue, firstId, lastPrev, lagged>>
    BY <1>6 DEF DeviceOnly, poolVars, deviceVars, linkVars, nanoVars, HandleShare, NodeChanges,
       SchedulerSteps, SchedulerTakes, SchedulerSubmits, DeviceStarts, DeviceLoses, BackoffEnds,
       Refill, DeviceSubmits
  <2>2. open' = open /\ (handler' = handler \/ handler = "idle")
    BY <1>6 DEF DeviceOnly, poolVars, nanoVars, HandleShare, Receive, NodeChanges
  <2> QED BY <1>5, <2>1, <2>2 DEF Ready
<1>7. CASE DeviceOnly /\ DeviceReads
  <2>1. UNCHANGED <<queue, firstId, lastPrev, lagged, open, handler>>
    BY <1>7 DEF DeviceOnly, poolVars
  <2>2. PICK m, d, p : m = Head(down) /\ d = Tail(down) /\ p = prev'
    OBVIOUS
  <2>3. down # <<>> /\ down' = d
    BY <1>7, <2>2 DEF DeviceReads
  <2>4. (m.type = "prev" /\ p = m.tip) \/ (m.type # "prev" /\ p = prev)
    BY <1>7, <2>2 DEF DeviceReads, NewJob, NewPrevHash
  <2>5. ASSUME Ready, ~lagged PROVE InTime(p, d, queue, K, firstId, lastPrev)
    <3>1. InTime(prev, down, queue, K, firstId, lastPrev)
      BY <1>3, <2>5
    <3> QED BY <1>1, <2>2, <2>3, <2>4, <3>1, InTimeRead
  <2>6. Ready' = Ready
    BY <2>1 DEF Ready
  <2> QED BY <1>4, <2>1, <2>2, <2>3, <2>5, <2>6
<1>8. CASE Accepts \/ LinkBreaks \/ HandleOpen \/ OpenTooEarly
  <2>1. OpenInv'
    BY OpenStep
  <2>2. ~Ready'
    BY <1>8, <2>1 DEF Accepts, LinkBreaks, HandleOpen, OpenTooEarly, Ready, OpenInv
  <2> QED BY <2>2 DEF LineTips
<1>9. CASE Forward
  <2>1. /\ queue # <<>> /\ queue' = Tail(queue) /\ handler = "idle"
        /\ UNCHANGED <<prev, firstId, lastPrev, lagged, open, handler>>
    BY <1>9 DEF Forward, handlerRest, deviceVars
  <2>2. CASE ~open
    BY <2>1, <2>2 DEF LineTips, Ready
  <2>3. CASE open
    <3>1. PICK d, q : d = Append(down, Head(queue)) /\ q = Tail(queue)
      OBVIOUS
    <3>2. down' = d
      BY <1>9, <2>3, <3>1 DEF Forward
    <3>3. ASSUME ~lagged PROVE InTime(prev, d, q, K, firstId, lastPrev)
      <4>1. InTime(prev, down, queue, K, firstId, lastPrev)
        BY <1>3, <2>1, <2>3, <3>3 DEF Ready
      <4>2. Steady(queue, Known, lastPrev)
        BY <2>3, <3>3 DEF QueueTips, OpenInv
      <4>3. Steady(queue, K, lastPrev)
        <5>1. \A j \in K : \/ \E i \in Known : i.id = j.id /\ i.tip = j.tip
                           \/ \A k \in DOMAIN queue : queue[k] \in Immediates => queue[k].id # j.id
          BY <1>2, NewIsUnnamed
        <5> QED BY <4>2, <5>1, SteadyKnown
      <4> QED BY <1>1, <2>1, <3>1, <4>1, <4>3, InTimeForward
    <3> QED BY <1>4, <2>1, <3>1, <3>2, <3>3
  <2> QED BY <2>2, <2>3
<1>10. CASE HandleSetup \/ Answer
  <2>1. /\ UNCHANGED <<prev, queue, firstId, lastPrev, lagged, open>> /\ handler # "initial"
    BY <1>10 DEF HandleSetup, Answer, Receive, handlerRest, deviceVars
  <2>2. PICK x \in Messages : x.type \notin {"job", "prev"} /\ down' = Append(down, x)
    <3>1. CASE HandleSetup
      BY <3>1, MadeTypes DEF HandleSetup
    <3>2. CASE Answer
      <4>1. answer \in {"success", "error"}
        BY <3>2 DEF Answer, NanoTypes, HandlerTypes
      <4> QED BY <3>2, <4>1, MadeTypes DEF Answer
    <3> QED BY <1>10, <3>1, <3>2
  <2>3. PICK d : d = Append(down, x)
    OBVIOUS
  <2>4. ASSUME Ready, ~lagged PROVE InTime(prev, d, queue, K, firstId, lastPrev)
    <3>1. InTime(prev, down, queue, K, firstId, lastPrev)
      BY <1>3, <2>4
    <3> QED BY <1>1, <2>2, <2>3, <3>1, InTimeAnswer
  <2>5. Ready' => Ready
    BY <2>1 DEF Ready
  <2> QED BY <1>4, <2>1, <2>2, <2>3, <2>4, <2>5
<1>11. CASE PushInitial
  <2>1. /\ handler = "initial" /\ firstId' = active.id /\ UNCHANGED <<prev, queue, lastPrev, active, past>>
        /\ down' = down \o <<JobMsg(active, TRUE), PrevMsg(active)>>
    BY <1>11 DEF PushInitial, handlerRest, deviceVars
  <2>2. alive /\ active # None /\ ~Ready
    BY <2>1 DEF OpenInv, Ready
  <2>3. /\ active \in Jobs /\ past \in Seq(Jobs) /\ InOrder(past, active.id, lastPrev)
        /\ active.tip = lastPrev
    BY <2>2 DEF NanoTypes, PoolTypes, Numbered
  <2>4. active.id \in Nat /\ active.tip \in Nat
    BY <2>3 DEF Jobs
  <2>5. PICK x \in Broadcasts, y \in Broadcasts :
             /\ x = JobMsg(active, TRUE) /\ y = PrevMsg(active) /\ y.type = "prev" /\ y.tip = active.tip
    BY <2>4, JobMessages
  <2>6. x \in Messages /\ y \in Messages
    BY MadeTypes
  <2>7. x \notin Immediates
    BY <2>5 DEF JobMsg, Immediates
  <2>8. PICK d : d = Append(down, x)
    OBVIOUS
  <2>9. PICK e : e = Append(d, y)
    OBVIOUS
  <2>10. d \in Seq(Messages) /\ Elems(d) = Elems(down) \cup {x}
    BY <1>1, <2>6, <2>8, AppendQueue
  <2>11. down' = e
    <3>1. down' = down \o <<x, y>>
      BY <2>1, <2>5
    <3>2. down \o <<x, y>> = Append(Append(down, x), y)
      BY <1>1, <2>6, ConcatTwo
    <3> QED BY <2>8, <2>9, <3>1, <3>2
  <2>12. \A k \in DOMAIN d : d[k] \notin Immediates
    <3>1. \A m \in Elems(down) : m.type # "job"
      BY <2>2 DEF Quiet
    <3>2. \A m \in Elems(down) : m \notin Immediates
      BY <3>1 DEF Immediates
    <3>3. \A m \in Elems(d) : m \notin Immediates
      BY <2>7, <2>10, <3>2
    <3> QED BY <3>3 DEF Elems
  <2>13. \A j \in K : j.id >= active.id => j.tip = y.tip
    <3> SUFFICES ASSUME NEW j \in K, j.id >= active.id PROVE j.tip = y.tip
      OBVIOUS
    <3>1. j = active \/ j \in Elems(past)
      BY <1>2, <2>1, <2>2 DEF Known, Elems
    <3>2. ASSUME j \in Elems(past) PROVE FALSE
      <4>1. j.id < active.id /\ j.id \in Nat
        BY <2>3, <2>4, <3>2, PastIds
      <4> QED BY <2>4, <4>1
    <3> QED BY <2>5, <3>1, <3>2
  <2>14. PICK f : f = active.id
    OBVIOUS
  <2>15. InTime(prev, e, queue, K, f, y.tip)
    BY <2>5, <2>6, <2>9, <2>10, <2>12, <2>13, <2>14, InTimeInitial
  <2>16. y.tip = lastPrev
    BY <2>3, <2>5
  <2> QED BY <1>4, <2>1, <2>11, <2>14, <2>15, <2>16
<1>12. CASE Refresh \/ HandleVardiff
  <2>1. UNCHANGED <<prev, down, firstId, alive, open>> /\ (handler' = handler \/ handler = "vardiff")
    BY <1>12 DEF Refresh, HandleVardiff, deviceVars, linkVars
  <2> SUFFICES ASSUME Ready', ~lagged' PROVE LineTips'
    BY DEF LineTips
  <2>2. Ready /\ alive
    BY <2>1 DEF Ready, OpenInv
  <2>3. ~lagged
    BY <1>12, <2>2, AddedByJob
  <2>4. PICK x \in Broadcasts, y \in Broadcasts : Added(x, y)
    BY <1>12, <2>2, AddedByJob
  <2>5. InTime(prev, down, queue, K, firstId, lastPrev)
    BY <1>3, <2>2, <2>3
  <2>6. \A j \in K : j.id = nextId => j.tip = lastPrev'
    BY <1>2, NewIsLatest
  <2>7. PICK q : q = Append(queue, x)
    OBVIOUS
  <2>8. PICK r : r = Append(q, y)
    OBVIOUS
  <2>9. q \in Seq(Broadcasts)
    BY <1>1, <2>7, AppendQueue
  <2>10. CASE queue' = queue /\ lastPrev' = lastPrev
    BY <1>4, <2>1, <2>5, <2>10
  <2>11. CASE queue' = q /\ lastPrev' = lastPrev /\ lastPrev # None /\ x.type # "prev" /\ x.id = nextId
    <3>1. InTime(prev, down, q, K, firstId, lastPrev)
      BY <1>1, <2>5, <2>6, <2>7, <2>11, InTimeAppend
    <3> QED BY <1>4, <2>1, <2>11, <3>1
  <2>12. CASE queue' = r /\ x.type # "prev" /\ x \notin Immediates /\ y.type = "prev" /\ y.tip = lastPrev'
    <3>1. InTime(prev, down, q, K, firstId, lastPrev)
      BY <1>1, <2>5, <2>7, <2>12, InTimeAppend
    <3>2. InTime(prev, down, r, K, firstId, y.tip)
      BY <2>8, <2>9, <2>12, <3>1, InTimeTip
    <3> QED BY <1>4, <2>1, <2>12, <3>2
  <2>13. CASE /\ queue' = r /\ lastPrev' = lastPrev /\ lastPrev # None
              /\ x.type # "prev" /\ x \notin Immediates /\ y.type # "prev" /\ y.id = nextId
    <3>1. InTime(prev, down, q, K, firstId, lastPrev)
      BY <1>1, <2>5, <2>7, <2>13, InTimeAppend
    <3>2. InTime(prev, down, r, K, firstId, lastPrev)
      BY <2>6, <2>8, <2>9, <2>13, <3>1, InTimeAppend
    <3> QED BY <1>4, <2>1, <2>13, <3>2
  <2> QED BY <2>4, <2>7, <2>8, <2>10, <2>11, <2>12, <2>13 DEF Added
<1> QED
  BY <1>6, <1>7, <1>8, <1>9, <1>10, <1>11, <1>12 DEF NanoNext, HandlerSteps

LEMMA TemplateTipsStep ==
    ASSUME NanoTypes, OpenInv, Numbered, MsgInv, WorkInv, Quiet, LineTips, TemplateTips,
           [NanoNext]_nanoVars
    PROVE  TemplateTips'
<1>1. /\ down \in Seq(Messages) /\ evts \in Seq(Offers) /\ nextId \in Nat /\ None \notin Nat
      /\ open \in BOOLEAN /\ lagged \in BOOLEAN
  BY StratumV2Constants DEF NanoTypes, DeviceTypes, PoolTypes, LinkTypes, HandlerTypes
<1>2. /\ \A w \in held : w.id \in Nat /\ w.id < nextId
      /\ \A e \in Elems(evts) : e.type # "clear" => e.job.id \in Nat /\ e.job.id < nextId
  BY WorkTypes DEF WorkInv, Fits
<1>3. ASSUME UNCHANGED <<ses, firstId>>, NEW w, RightTip(w), w.id \in Nat, w.id < nextId
      PROVE  RightTip(w)'
  <2> SUFFICES ASSUME w.ses = ses, w.id >= firstId, NEW j \in Known', j.id = w.id PROVE j.tip = w.tip
    BY <1>3 DEF RightTip
  <2>1. j.id # nextId
    BY <1>1, <1>3
  <2>2. \E i \in Known : i.id = j.id /\ i.tip = j.tip
    BY <2>1, KnownStep
  <2> QED BY <1>3, <2>2 DEF RightTip
<1>4. ASSUME Ready' /\ ~lagged' => Ready /\ ~lagged, UNCHANGED <<ses, firstId>>,
             \A w \in held' : w \in held \/ \E e \in Elems(evts) : e.type # "clear" /\ w = e.job,
             \A e \in Elems(evts') : \/ e \in Elems(evts) \/ e.type = "clear"
                                     \/ (Ready /\ ~lagged => RightTip(e.job)')
      PROVE  TemplateTips'
  <2> SUFFICES ASSUME Ready', ~lagged'
               PROVE  /\ \A w \in held' : RightTip(w)'
                      /\ \A e \in Elems(evts') : e.type # "clear" => RightTip(e.job)'
    BY DEF TemplateTips
  <2>1. /\ Ready /\ ~lagged
        /\ \A w \in held : RightTip(w)
        /\ \A e \in Elems(evts) : e.type # "clear" => RightTip(e.job)
    BY <1>4 DEF TemplateTips
  <2>2. ASSUME NEW w \in held PROVE RightTip(w)'
    BY <1>2, <1>3, <1>4, <2>1
  <2>3. ASSUME NEW e \in Elems(evts), e.type # "clear" PROVE RightTip(e.job)'
    BY <1>2, <1>3, <1>4, <2>1, <2>3
  <2> QED BY <1>4, <2>1, <2>2, <2>3
<1>5. ASSUME UNCHANGED <<evts, held>>
      PROVE  /\ \A w \in held' : w \in held \/ \E e \in Elems(evts) : e.type # "clear" /\ w = e.job
             /\ \A e \in Elems(evts') : e \in Elems(evts) \/ e.type = "clear"
                                        \/ (Ready /\ ~lagged => RightTip(e.job)')
  BY <1>5
<1>6. CASE DeviceOnly
  <2>1. \/ SchedulerTakes \/ SchedulerSubmits \/ DeviceStarts \/ DeviceLoses \/ BackoffEnds
        \/ Refill \/ DeviceSubmits \/ DeviceReads
    BY <1>6 DEF DeviceOnly, SchedulerSteps
  <2>2. Ready' = Ready /\ UNCHANGED <<firstId, lagged, active, past>>
    BY <1>6 DEF DeviceOnly, poolVars, Ready
  <2>3. CASE SchedulerTakes
    <3>1. PICK e : e = Head(evts)
      OBVIOUS
    <3>2. /\ Elems(evts) = Elems(evts') \cup {e}
          /\ e.type \in {"update", "replace", "clear"}
          /\ e.type = "clear" => held' = {}
          /\ e.type = "update" => held' = held \cup {e.job}
          /\ e.type = "replace" => held' = {e.job}
      BY <1>1, <2>3, <3>1, TakeCases
    <3>3. UNCHANGED ses
      BY <2>3 DEF SchedulerTakes
    <3>4. \A w \in held' : w \in held \/ \E x \in Elems(evts) : x.type # "clear" /\ w = x.job
      BY <3>2
    <3> QED BY <1>4, <2>2, <3>2, <3>3, <3>4
  <2>4. CASE SchedulerSubmits \/ DeviceStarts \/ BackoffEnds \/ Refill \/ DeviceSubmits
    <3>1. UNCHANGED <<ses, evts, held>>
      BY <2>4 DEF SchedulerSubmits, DeviceStarts, BackoffEnds, Refill, DeviceSubmits
    <3> QED BY <1>4, <1>5, <2>2, <3>1
  <2>5. CASE DeviceLoses
    <3>1. UNCHANGED <<ses, held>>
      BY <2>5 DEF DeviceLoses
    <3>2. PICK c \in Offers : c.type = "clear" /\ evts' = Append(evts, c)
      BY <2>5, MadeTypes DEF DeviceLoses, ClearJobs
    <3>3. Elems(evts') = Elems(evts) \cup {c}
      BY <1>1, <3>2, AppendQueue
    <3> QED BY <1>4, <2>2, <3>1, <3>2, <3>3
  <2>6. CASE DeviceReads
    <3>1. PICK m : m = Head(down)
      OBVIOUS
    <3>2. /\ down # <<>> /\ UNCHANGED <<ses, held>> /\ m \in Messages
          /\ \/ evts' = evts
             \/ \E w \in Works, e \in Offers :
                  /\ evts' = Append(evts, e) /\ e.type # "clear" /\ e.job = w
                  /\ w.ses = ses /\ w.id = m.id
                  /\ \/ m.type = "job" /\ prev # None /\ w.tip = prev
                     \/ m.type = "prev" /\ w.tip = m.tip
      BY <2>6, <3>1, ReadCases
    <3>3. m \in Elems(down) /\ m = down[1] /\ 1 \in DOMAIN down /\ \A i \in DOMAIN down : ~(i < 1)
      <4>1. m \in Elems(down)
        BY <1>1, <3>1, <3>2, TailQueue
      <4>2. m = down[1] /\ 1 \in DOMAIN down /\ \A i \in DOMAIN down : ~(i < 1)
        BY <1>1, <3>1, <3>2
      <4> QED BY <4>1, <4>2
    <3>4. CASE evts' = evts
      BY <1>4, <1>5, <2>2, <3>2, <3>4
    <3>5. CASE evts' # evts
      <4>1. PICK w \in Works, e \in Offers :
                  /\ evts' = Append(evts, e) /\ e.type # "clear" /\ e.job = w
                  /\ w.ses = ses /\ w.id = m.id
                  /\ \/ m.type = "job" /\ prev # None /\ w.tip = prev
                     \/ m.type = "prev" /\ w.tip = m.tip
        BY <3>2, <3>5
      <4>2. Elems(evts') = Elems(evts) \cup {e}
        BY <1>1, <4>1, AppendQueue
      <4>3. Known' = Known
        BY <2>2 DEF Known
      <4>4. ASSUME Ready, ~lagged, w.id >= firstId, NEW j \in Known, j.id = w.id PROVE j.tip = w.tip
        <5>1. CASE m.type = "prev"
          <6>1. m \in Wire
            BY <3>3 DEF Wire
          <6> QED BY <4>1, <4>4, <5>1, <6>1 DEF MsgInv
        <5>2. CASE m.type = "job"
          <6>1. NewJob(m)
            BY <2>6, <3>1, <5>2 DEF DeviceReads
          <6>2. ~m.future
            BY <3>5, <6>1 DEF NewJob
          <6>3. m \in [type : {"job"}, id : Nat, future : BOOLEAN]
            BY <3>2, <5>2 DEF Messages, Replies, Broadcasts
          <6>4. m \in Immediates
            BY <6>2, <6>3 DEF Immediates
          <6>5. InTime(prev, down, queue, Known, firstId, lastPrev)
            BY <4>4 DEF LineTips
          <6>6. Shows(prev, down, 1, j.tip)
            BY <3>3, <4>1, <4>4, <6>4, <6>5 DEF InTime
          <6>7. prev \in {None, j.tip}
            BY <3>3, <6>6 DEF Shows
          <6> QED BY <4>1, <5>2, <6>7
        <5> QED BY <4>1, <5>1, <5>2
      <4>5. Ready /\ ~lagged => RightTip(w)'
        BY <2>2, <3>2, <4>3, <4>4 DEF RightTip
      <4> QED BY <1>4, <2>2, <3>2, <4>1, <4>2, <4>5
    <3> QED BY <3>4, <3>5
  <2> QED BY <2>1, <2>3, <2>4, <2>5, <2>6
<1>7. CASE Accepts \/ LinkBreaks \/ HandleOpen \/ OpenTooEarly
  <2>1. OpenInv'
    BY OpenStep
  <2>2. ~Ready'
    BY <1>7, <2>1 DEF Accepts, LinkBreaks, HandleOpen, OpenTooEarly, Ready, OpenInv
  <2> QED BY <2>2 DEF TemplateTips
<1>8. ASSUME PoolOnly PROVE UNCHANGED <<ses, evts, held>>
  BY <1>8, PoolFrame DEF deviceVars
<1>9. CASE PushInitial
  <2>1. handler = "initial"
    BY <1>9 DEF PushInitial
  <2>2. alive /\ ~Ready
    BY <2>1 DEF OpenInv, Ready
  <2>3. UNCHANGED <<ses, evts, held>>
    BY <1>8, <1>9 DEF PoolOnly, HandlerSteps
  <2>4. /\ \A w \in held' : w.ses # ses'
        /\ \A e \in Elems(evts') : e.type # "clear" => e.job.ses # ses'
    BY <2>2, <2>3 DEF Quiet
  <2>5. /\ \A w \in held' : RightTip(w)'
        /\ \A e \in Elems(evts') : e.type # "clear" => RightTip(e.job)'
    BY <2>4 DEF RightTip
  <2> QED BY <2>5 DEF TemplateTips
<1>10. CASE NodeChanges \/ Forward \/ HandleSetup \/ HandleShare \/ Answer
  <2>1. UNCHANGED <<open, firstId, lagged>> /\ (handler' = handler \/ handler # "initial")
    BY <1>10 DEF NodeChanges, Forward, HandleSetup, HandleShare, Answer, Receive, handlerRest
  <2>2. UNCHANGED <<ses, evts, held>>
    BY <1>8, <1>10 DEF PoolOnly, HandlerSteps
  <2>3. Ready' /\ ~lagged' => Ready /\ ~lagged
    BY <2>1 DEF Ready
  <2> QED BY <1>4, <1>5, <2>1, <2>2, <2>3
<1>11. CASE Refresh \/ HandleVardiff
  <2>1. UNCHANGED <<firstId, open>> /\ (handler' = handler \/ handler = "vardiff")
    BY <1>11 DEF Refresh, HandleVardiff
  <2>2. UNCHANGED <<ses, evts, held>>
    BY <1>8, <1>11 DEF PoolOnly, HandlerSteps
  <2>3. Ready' => Ready /\ alive
    BY <2>1 DEF Ready, OpenInv
  <2>4. Ready' /\ ~lagged' => Ready /\ ~lagged
    BY <1>11, <2>3, AddedByJob
  <2> QED BY <1>4, <1>5, <2>1, <2>2, <2>4
<1>12. CASE UNCHANGED nanoVars
  <2>1. UNCHANGED <<ses, evts, held, firstId, lagged, open, handler>>
    BY <1>12 DEF nanoVars, deviceVars, poolVars
  <2> QED BY <1>4, <1>5, <2>1 DEF Ready
<1> QED
  BY <1>6, <1>7, <1>9, <1>10, <1>11, <1>12 DEF NanoNext, HandlerSteps

\* What the runs check follows from the parts.
LEMMA TipsMatch ==
    ASSUME NanoTypes, OpenInv, Quiet, TemplateTips PROVE JobsOnTheirTip
<1> SUFFICES ASSUME NEW t \in Templates, t.ses = ses, open, ~lagged, t.id >= firstId,
                    NEW j \in FindJob(t.id)
             PROVE  j.tip = t.tip
  BY DEF JobsOnTheirTip
<1>1. t \in held \/ \E e \in Elems(evts) : e.type # "clear" /\ t = e.job
  BY DEF Templates, Elems
<1>2. alive /\ active # None
  BY DEF OpenInv
<1>3. j \in Known /\ j.id = t.id
  BY <1>2 DEF FindJob, Known, Elems
<1>4. Ready
  <2>1. ~(alive /\ ~Ready)
    BY <1>1 DEF Quiet
  <2> QED BY <1>2, <2>1
<1>5. RightTip(t)
  BY <1>1, <1>4 DEF TemplateTips
<1> QED BY <1>3, <1>5 DEF RightTip

LEMMA PoolTypesMatch ==
    ASSUME NanoTypes, OpenInv, Numbered, Handshake, WorkInv PROVE NanoTypeOK
<1>1. /\ dev \in {"wait", "connect", "run", "backoff"}
      /\ target \in Diffs \cup {None} /\ diff \in Diffs
      /\ channel => target # None
      /\ active = None \/ active \in Jobs
      /\ past \in Seq(Jobs)
      /\ handler \in {"idle", "initial", "vardiff", "answer", "gone"}
  BY DEF NanoTypes, DeviceTypes, PoolTypes, HandlerTypes, OptDiff
<1>2. (answer # None) = (handler \in {"vardiff", "answer"})
  BY DEF NanoTypes, HandlerTypes
<1>3. Len(past) <= MaxPast
  <2>1. CASE active = None
    <3>1. Len(past) = 0
      BY <2>1 DEF Numbered
    <3> QED BY <3>1, NanoPoolConstants
  <2>2. CASE active # None
    BY <2>2 DEF Numbered
  <2> QED BY <2>1, <2>2
<1>4. open => setup /\ active # None
  BY DEF OpenInv, Handshake, Opened
<1>5. \A w \in held : w.id < nextId
  BY DEF WorkInv, Fits
<1> QED BY <1>1, <1>2, <1>3, <1>4, <1>5 DEF NanoTypeOK

LEMMA PrefixMatch == ASSUME OpenInv, PrefixInv PROVE GivenJobsHavePrefix
<1> SUFFICES ASSUME open, NEW j \in {active} \cup {past[i] : i \in DOMAIN past}, j.id >= firstId
             PROVE  j.prefix = "channel"
  BY DEF GivenJobsHavePrefix
<1>1. j \in Known
  BY DEF OpenInv, Known, Elems
<1> QED BY <1>1 DEF PrefixInv

\* A device hashes nothing the pool could not judge: whatever refreshes,
\* retargets and reconnections race, every template a device holds is on the
\* tip of the job it names and every job it was given can be rebuilt
\* (main.rs:903, :1004).
THEOREM GivenJobsStayRight == NanoSpec => []GivenJobsAreRight
<1> DEFINE Inv == /\ NanoTypes /\ OpenInv /\ SessionInv /\ Numbered /\ PrefixInv /\ MsgInv /\ WorkInv
                  /\ Handshake /\ Quiet /\ QueueTips /\ LineTips /\ TemplateTips
<1>1. NanoInit => Inv
  <2> SUFFICES ASSUME NanoInit PROVE Inv
    OBVIOUS
  <2>1. NanoTypes /\ OpenInv
    BY TypesInit
  <2>2. /\ dev = "wait" /\ prev = None /\ held = {} /\ evts = <<>> /\ cmds = <<>> /\ up = <<>> /\ down = <<>>
        /\ active = None /\ past = <<>> /\ lastPrev = None /\ firstId = None /\ queue = <<>>
        /\ ~alive /\ ~open
    BY DEF NanoInit, DeviceInit
  <2>3. Elems(evts) = {} /\ Elems(cmds) = {} /\ Elems(up) = {} /\ Wire = {}
    BY <2>2, EmptyQueue DEF Wire
  <2>4. Numbered /\ PrefixInv /\ MsgInv
    BY <2>2, <2>3 DEF Numbered, PrefixInv, MsgInv
  <2>5. SessionInv /\ WorkInv
    BY <2>2, <2>3 DEF SessionInv, Withdrawn, WorkInv
  <2>6. Handshake /\ Quiet /\ QueueTips /\ LineTips /\ TemplateTips
    BY <2>2 DEF Handshake, Quiet, QueueTips, LineTips, TemplateTips, Ready
  <2> QED BY <2>1, <2>4, <2>5, <2>6
<1>2. Inv /\ [NanoNext]_nanoVars => Inv'
  <2> SUFFICES ASSUME Inv, [NanoNext]_nanoVars PROVE Inv'
    OBVIOUS
  <2>1. NanoTypes' /\ OpenInv' /\ SessionInv'
    BY TypesStep, SessionStep
  <2>2. Numbered' /\ PrefixInv' /\ MsgInv' /\ WorkInv'
    BY NumberedStep, PrefixStep, MsgStep, WorkStep
  <2>3. Handshake' /\ Quiet'
    BY HandshakeStep, QuietStep
  <2>4. QueueTips' /\ LineTips' /\ TemplateTips'
    BY QueueTipsStep, LineTipsStep, TemplateTipsStep
  <2> QED BY <2>1, <2>2, <2>3, <2>4
<1>3. Inv => GivenJobsAreRight
  BY TipsMatch, PoolTypesMatch, PrefixMatch DEF GivenJobsAreRight
<1> QED BY <1>1, <1>2, <1>3, PTL DEF NanoSpec
=============================================================================
