--------------------------- MODULE HeartbeatProofs ---------------------------
(***************************************************************************)
(* The proofs about time in Majordomo: that the heartbeats of a worker     *)
(* reach the broker before it purges the worker, those of the broker reach *)
(* the worker before it gives up, and that therefore no call is lost while *)
(* the workers keep up.                                                    *)
(*                                                                         *)
(* The invariants speak of one connection at a time: of the worker w at    *)
(* its end, of what is on its way up to the broker and down to the worker, *)
(* of whether the broker knows its address, and of the two clocks of the   *)
(* broker, the expiry of the worker and its own next heartbeat.            *)
(***************************************************************************)
EXTENDS CallsProofs

\* The messages of a kind.
Said(kind) == {m \in ToBroker : m.kind = kind}
Told(kind) == {m \in ToWorker : m.kind = kind}

\* A worker that the broker knows says nothing but HEARTBEAT and REPORT; it says
\* READY at the beginning.  It is told to DISCONNECT when it is not known.
Link(w, up, down, known) ==
  /\ w.at = "busy" => w.liveness = LIVENESS
  /\ w.at = "recv" => w.timer <= INTERVAL /\ w.liveness >= 1
  /\ w.at = "asleep" => w.timer <= RECONNECT
  /\ ~Has(up, Said("DISCONNECT"))
  /\ \A i \in DOMAIN up : up[i].kind = "READY" => i = 1
  /\ Has(up, Said("READY")) => ~known /\ ~Has(down, Told("DISCONNECT"))
  /\ Has(down, Told("DISCONNECT")) => ~known

Links ==
  /\ \A p \in Processes : LET a == worker[p].address IN
       IF worker[p].at = "down"
       THEN a = NoAddress
       ELSE Link(worker[p], toBroker[a], toWorker[a], a \in broker.known)
  /\ \A p, q \in Processes :
       worker[p].address = worker[q].address /\ worker[p].address # NoAddress => p = q
  /\ \A a \in Workers : ~Open(a) => toWorker[a] = <<>>
  /\ status # "up" => broker.known = {}

(***************************************************************************)
(* Silent(w) bounds how long the worker will be silent yet, if it takes no *)
(* request in the meantime, and Left(w) says how long it will wait for the *)
(* broker before it gives up.                                              *)
(***************************************************************************)
Silent(w) ==
  IF w.at = "asleep" \/ (w.at = "recv" /\ w.heartbeatIn < 0)
  THEN w.timer
  ELSE INTERVAL + (IF w.heartbeatIn < 0 THEN 0 ELSE w.heartbeatIn)

Left(w) == (w.liveness - 1) * INTERVAL + w.timer

\* The worker is heard of before it expires.
IsHeard(w, up, expiry) ==
  expiry > 0 /\ (~Has(up, Said("HEARTBEAT")) => expiry > Silent(w))

\* The worker hears of the broker before it gives up, or has been heard of lately.
Hears(w, down, expiry, due) ==
  w.at = "recv" /\ down = <<>> =>
    Left(w) > due + 1 \/ expiry + INTERVAL >= EXPIRY + due

InTouch ==
  steady => \A p \in Processes : LET a == worker[p].address IN
    a \in broker.known =>
      /\ Hears(worker[p], toWorker[a], broker.expiry[a], heartbeatIn)
      /\ p \notin served => IsHeard(worker[p], toBroker[a], broker.expiry[a])

\* Without faults a worker gives up only when the broker does not know it, and it
\* is known, and alive, as long as it has a request or its REPORT is on its way.
Undisturbed(w, up, down, known, expiry, due) ==
  /\ w.at = "recv" /\ known /\ down = <<>> => Left(w) > due + 1
  /\ Has(up, Said("READY")) =>
       w.at = "recv" /\ w.liveness = LIVENESS /\ w.timer = INTERVAL
  /\ w.at = "asleep" => ~known
  /\ w.at = "busy" \/ Has(down, Told("REQUEST")) \/ Has(up, Said("REPORT")) =>
       known /\ expiry > 0

Quiet ==
  steady /\ faults = 0 =>
    /\ status = "up"
    /\ \A p \in Processes : LET a == worker[p].address IN
         worker[p].at # "down" =>
           Undisturbed(worker[p], toBroker[a], toWorker[a], a \in broker.known,
                       broker.expiry[a], heartbeatIn)
    /\ \A a \in Workers : ~Open(a) => /\ a \notin broker.known
                                     /\ ~Has(toBroker[a], Said("READY"))
                                     /\ ~Has(toBroker[a], Said("REPORT"))

\* The heartbeats of the two sides come often enough: those of the broker for a
\* worker that has just been heard of, those of a worker that keeps up, and the
\* reconnection of a worker that has given up.  HEARTBEAT_INTERVAL, the interval
\* and the reconnect delay of the worker are 2500 ms, HEARTBEAT_LIVENESS is 3.
BrokerIsHeard  == INTERVAL + 1 < EXPIRY
WorkersAreHeard == 2 * INTERVAL < EXPIRY /\ RECONNECT + INTERVAL + 1 < EXPIRY

-----------------------------------------------------------------------------
(* Queues *)

\* What stands in a queue is its first message or in the rest; what is put behind
\* it comes in addition; and what is delivered is what was sent to the receiver.
LEMMA RestHas ==
  ASSUME NEW S, NEW q \in Seq(S), q # <<>>, NEW M
  PROVE  /\ Has(q, M) => Head(q) \in M \/ Has(Tail(q), M)
         /\ Has(Tail(q), M) => Has(q, M)
<1> DEFINE r == Tail(q)
<1>1. /\ Len(q) \in Nat \ {0} /\ DOMAIN q = 1..Len(q)
      /\ DOMAIN r = 1..(Len(q) - 1)
      /\ \A i \in 1..(Len(q) - 1) : r[i] = q[i + 1]
      /\ Head(q) = q[1]
  BY LenProperties, HeadTailProperties, EmptySeq
<1> HIDE DEF r
<1>2. ASSUME NEW i \in DOMAIN q, q[i] \in M, i # 1 PROVE Has(r, M)
  <2>1. i - 1 \in DOMAIN r /\ r[i - 1] = q[i]
    BY <1>1, <1>2
  <2> QED
    BY <1>2, <2>1 DEF Has
<1>3. Has(q, M) => Head(q) \in M \/ Has(r, M)
  BY <1>1, <1>2 DEF Has
<1> QED
  BY <1>3, HasTail DEF r

LEMMA LongerHas ==
  ASSUME NEW S, NEW q \in Seq(S), NEW m, NEW M
  PROVE  Has(Append(q, m), M) <=> Has(q, M) \/ m \in M
<1> DEFINE r == Append(q, m)
<1>1. /\ Len(q) \in Nat /\ DOMAIN q = 1..Len(q)
      /\ DOMAIN r = 1..(Len(q) + 1)
      /\ \A i \in 1..Len(q) : r[i] = q[i]
      /\ r[Len(q) + 1] = m
  BY LenProperties
<1> HIDE DEF r
<1>2. Has(q, M) \/ m \in M => Has(r, M)
  <2>1. Len(q) + 1 \in DOMAIN r /\ \A i \in DOMAIN q : i \in DOMAIN r /\ r[i] = q[i]
    BY <1>1
  <2> QED
    BY <1>1, <2>1 DEF Has
<1> QED
  BY <1>2, HasAppend DEF r

LEMMA JoinedHas ==
  ASSUME NEW S, NEW q \in Seq(S), NEW r \in Seq(S), NEW M
  PROVE  Has(q \o r, M) <=> Has(q, M) \/ Has(r, M)
<1> DEFINE t == q \o r
<1>1. /\ Len(q) \in Nat /\ DOMAIN q = 1..Len(q)
      /\ Len(r) \in Nat /\ DOMAIN r = 1..Len(r)
      /\ DOMAIN t = 1..(Len(q) + Len(r))
      /\ \A i \in 1..(Len(q) + Len(r)) : t[i] = IF i <= Len(q) THEN q[i] ELSE r[i - Len(q)]
  BY LenProperties, ConcatProperties
<1> HIDE DEF t
<1>2. \A i \in DOMAIN q : i \in DOMAIN t /\ t[i] = q[i]
  BY <1>1
<1>3. \A i \in DOMAIN r : i + Len(q) \in DOMAIN t /\ t[i + Len(q)] = r[i]
  BY <1>1
<1>4. Has(q, M) \/ Has(r, M) => Has(t, M)
  BY <1>2, <1>3 DEF Has
<1> QED
  BY <1>4, HasBoth DEF t

LEMMA JoinedRange ==
  ASSUME NEW S, NEW q \in Seq(S), NEW T, NEW r \in Seq(T)
  PROVE  Range(q \o r) = Range(q) \cup Range(r)
<1>1. /\ Len(q) \in Nat /\ DOMAIN q = 1..Len(q)
      /\ Len(r) \in Nat /\ DOMAIN r = 1..Len(r)
  BY LenProperties
<1>2. q \in Seq(S \cup T) /\ r \in Seq(S \cup T)
  OBVIOUS
<1> DEFINE t == q \o r
<1>3. /\ DOMAIN t = 1..(Len(q) + Len(r))
      /\ \A i \in 1..(Len(q) + Len(r)) : t[i] = IF i <= Len(q) THEN q[i] ELSE r[i - Len(q)]
  BY <1>1, <1>2, ConcatProperties
<1> HIDE DEF t
<1>4. \A i \in DOMAIN q : i \in DOMAIN t /\ t[i] = q[i]
  BY <1>1, <1>3
<1>5. \A i \in DOMAIN r : i + Len(q) \in DOMAIN t /\ t[i + Len(q)] = r[i]
  BY <1>1, <1>3
<1>6. \A i \in DOMAIN t : \/ i \in DOMAIN q /\ t[i] = q[i]
                          \/ i - Len(q) \in DOMAIN r /\ t[i] = r[i - Len(q)]
  BY <1>1, <1>3
<1>7. Range(t) = Range(q) \cup Range(r)
  BY <1>4, <1>5, <1>6 DEF Range
<1> QED
  BY <1>7 DEF t

LEMMA PickedHas ==
  ASSUME NEW S, NEW msgs \in Seq(S), NEW a, NEW M
  PROVE  Has(To(a, msgs), M) <=> \E m \in Range(msgs) : m \in M /\ m.to = a
<1> DEFINE D == {m \in Range(msgs) : m.to # a}
           r == To(a, msgs)
<1>1. Range(r) = Range(msgs) \ D
  BY WithoutProperties DEF To
<1>2. Range(r) = {m \in Range(msgs) : m.to = a}
  BY <1>1
<1>3. \A q : Has(q, M) <=> \E m \in Range(q) : m \in M
  BY DEF Has, Range
<1> HIDE DEF r
<1> QED
  BY <1>2, <1>3 DEF r

\* What an iteration of the broker leaves on the way to a worker.
LEMMA Deliveries ==
  ASSUME toWorker \in [Workers -> Seq(ToWorker)], IInv', Delivered, NEW a \in Workers, NEW M
  PROVE  LET news == Range(sent'.work) \cup Range(sent'.other) IN
         /\ ~Open(a) => toWorker'[a] = <<>>
         /\ Open(a) =>
              (Has(toWorker'[a], M) <=>
                 Has(toWorker[a], M) \/ \E m \in news : m \in M /\ m.to = a)
<1> DEFINE q == toWorker[a]
           w == To(a, sent'.work)
           o == To(a, sent'.other)
<1>1. sent'.work \in Seq(RequestMsg) /\ sent'.other \in Seq(WorkerMsg \cup ClientMsg)
  BY DEF IInv, TypeOK, Output
<1>2. q \in Seq(ToWorker) /\ w \in Seq(ToWorker) /\ o \in Seq(ToWorker)
  <2>1. \A m \in RequestMsg : m.to = a => m \in ToWorker
    BY DEF ToWorker
  <2>2. \A m \in WorkerMsg \cup ClientMsg : m.to = a => m \in ToWorker
    BY NamesAssumption DEF WorkerMsg, ClientMsg, ToWorker
  <2> QED
    BY <1>1, <2>1, <2>2, ToType
<1>3. /\ Has(w, M) <=> \E m \in Range(sent'.work) : m \in M /\ m.to = a
      /\ Has(o, M) <=> \E m \in Range(sent'.other) : m \in M /\ m.to = a
  BY <1>1, PickedHas
<1>4. toWorker'[a] = IF Open(a) THEN q \o w \o o ELSE <<>>
  BY DEF Delivered
<1> HIDE DEF q, w, o
<1>5. (Has(q \o w, M) <=> Has(q, M) \/ Has(w, M)) /\ q \o w \in Seq(ToWorker)
  BY <1>2, JoinedHas, ConcatProperties
<1>6. Has(q \o w \o o, M) <=> Has(q \o w, M) \/ Has(o, M)
  BY <1>2, <1>5, JoinedHas
<1> QED
  BY <1>3, <1>4, <1>5, <1>6 DEF q

-----------------------------------------------------------------------------
(* What an iteration of the broker does to its clocks *)

\* Of the workers of tables b those with time left are in tables d, and have it yet.
Survives(b, d) ==
  /\ d.known \subseteq b.known
  /\ \A w \in b.known : b.expiry[w] > 0 => w \in d.known
  /\ \A w \in d.known : d.expiry[w] = b.expiry[w]

\* The end of an iteration whose handler left tables b and wrote other.
Ended(b, other) ==
  /\ status' = status
  /\ heartbeatIn' = IF heartbeatIn < 0 THEN INTERVAL ELSE heartbeatIn
  /\ Survives(b, broker')
  /\ \A m \in Range(sent'.other) : m \in Range(other) \/ m.kind = "HEARTBEAT"
  /\ heartbeatIn < 0 =>
       \A w \in broker'.known : Notice(w, "HEARTBEAT") \in Range(sent'.other)

LEMMA FinishEnds ==
  ASSUME NEW b, Base(b), NEW work, NEW S, NEW other \in Seq(S), Finish(b, work, other)
  PROVE  Ended(b, other)
<1> DEFINE p == IF heartbeatIn < 0 THEN Purge(b) ELSE b
           beats == [i \in DOMAIN p.waiting |-> Notice(p.waiting[i], "HEARTBEAT")]
<1>1. /\ broker' = p /\ status' = status
      /\ heartbeatIn' = IF heartbeatIn < 0 THEN INTERVAL ELSE heartbeatIn
      /\ sent'.other = IF heartbeatIn < 0 THEN other \o beats ELSE other
  BY DEF Finish
<1>2. Base(p) /\ Survives(b, p)
  BY PurgeBase DEF Survives
<1>3. p.waiting \in Seq(Workers) /\ p.known \subseteq Range(p.waiting)
  BY <1>2, BaseFacts, CompositionAssumption DEF ListsMatchRegistry, ServiceKnown
<1> HIDE DEF p
<1>4. Len(p.waiting) \in Nat /\ DOMAIN p.waiting = 1..Len(p.waiting)
  BY <1>3, LenProperties
<1>5. beats \in Seq({Notice(w, "HEARTBEAT") : w \in Workers})
  <2>1. \A i \in DOMAIN p.waiting : p.waiting[i] \in Workers
    BY <1>3, <1>4, ElementOfSeq
  <2> QED
    BY <1>4, <2>1
<1>6. /\ \A m \in Range(beats) : m.kind = "HEARTBEAT"
      /\ \A w \in p.known : Notice(w, "HEARTBEAT") \in Range(beats)
  <2>1. \A i \in DOMAIN p.waiting : beats[i] = Notice(p.waiting[i], "HEARTBEAT")
    OBVIOUS
  <2>2. DOMAIN beats = DOMAIN p.waiting
    OBVIOUS
  <2> HIDE DEF beats
  <2>3. \A m \in Range(beats) : m.kind = "HEARTBEAT"
    <3>1. \A w : Notice(w, "HEARTBEAT").kind = "HEARTBEAT"
      BY DEF Notice
    <3> QED
      BY <2>1, <2>2, <3>1 DEF Range
  <2>4. \A w \in Range(p.waiting) : Notice(w, "HEARTBEAT") \in Range(beats)
    BY <2>1, <2>2 DEF Range
  <2> QED
    BY <1>3, <2>3, <2>4
<1> HIDE DEF beats
<1>7. Range(other \o beats) = Range(other) \cup Range(beats)
  BY <1>5, JoinedRange
<1> QED
  BY <1>1, <1>2, <1>6, <1>7 DEF Ended

LEMMA DispatchEnds ==
  ASSUME NEW b, Base(b), NEW s \in Names, Stranded(b) \subseteq {s}, DispatchFrom(b, s)
  PROVE  Ended(b, <<>>)
<1> DEFINE d == Dispatch(b, s)
<1>1. Finish(d.broker, d.work, <<>>)
  BY DEF DispatchFrom
<1>2. /\ Base(d.broker) /\ d.broker.known = Purge(b).known
      /\ d.broker.expiry = Purge(b).expiry
  BY DispatchFacts
<1>3. Survives(b, d.broker)
  BY <1>2, PurgeBase DEF Survives
<1> HIDE DEF d
<1>4. Ended(d.broker, <<>>)
  BY <1>1, <1>2, EmptySeq, FinishEnds
<1> QED
  BY <1>3, <1>4 DEF Ended, Survives

\* What an iteration does to the workers that have sent nothing.
Iterated(senders) ==
  /\ status = "up" /\ status' = "up"
  /\ heartbeatIn' = IF heartbeatIn < 0 THEN INTERVAL ELSE heartbeatIn
  /\ heartbeatIn < 0 =>
       \A w \in broker'.known : Notice(w, "HEARTBEAT") \in Range(sent'.other)
  /\ \A w \in Workers \ senders :
       /\ w \in broker'.known => w \in broker.known /\ broker'.expiry[w] = broker.expiry[w]
       /\ w \in broker.known /\ broker.expiry[w] > 0 => w \in broker'.known
       /\ \A m \in Range(sent'.other) : m.kind = "DISCONNECT" => m.to # w

\* What it does to the worker at a, whose message it handles.
Handled(a, kind) ==
  /\ kind = "READY" =>
       (a \in broker'.known <=> a \notin broker.known)
  /\ kind = "HEARTBEAT" =>
       (a \in broker'.known <=> a \in broker.known)
  /\ kind \in {"READY", "HEARTBEAT"} /\ a \in broker'.known =>
       broker'.expiry[a] = EXPIRY
  /\ kind = "DISCONNECT" => a \notin broker'.known
  /\ kind = "REPORT" =>
       /\ a \in broker'.known =>
            a \in broker.known /\ broker'.expiry[a] = broker.expiry[a]
       /\ a \in broker.known /\ broker.expiry[a] > 0 => a \in broker'.known

\* Tables b that differ from those of the broker for the sender a only.
ButFor(a, b) ==
  \A w \in Workers \ {a} : /\ w \in b.known <=> w \in broker.known
                           /\ b.expiry[w] = broker.expiry[w]

LEMMA EndedIterates ==
  ASSUME IInv, status = "up", NEW a, NEW b, ButFor(a, b), NEW other, Ended(b, other),
         \A m \in Range(other) : m.kind = "DISCONNECT" => m.to = a
  PROVE  Iterated({a})
<1>1. broker.known \subseteq Workers /\ \A m \in Range(sent'.other) :
        m.kind = "DISCONNECT" => m.to = a
  BY BaseFacts DEF IInv, Good, Ended
<1> QED
  BY <1>1 DEF Ended, Iterated, ButFor, Survives

\* A worker's message.
LEMMA WorkerIteration ==
  ASSUME SysInv, NEW a \in Workers, HandleWorker(a)
  PROVE  Iterated({a}) /\ Handled(a, Head(toBroker[a]).kind)
<1> DEFINE m == Head(toBroker[a])
           bye == <<Notice(a, "DISCONNECT")>>
<1>1. /\ Base(broker) /\ Stranded(broker) = {} /\ IInv /\ status = "up" /\ EXPIRY > 0
      /\ broker.expiry \in [Workers -> 0..EXPIRY] /\ broker.known \in SUBSET Workers
  BY BaseFacts, NumbersFacts DEF SysInv, IInv, Good, HandleWorker
<1>2. m \in ToBroker
  BY DequeueType DEF SysInv, ChannelsOK, HandleWorker
<1>3. \A x \in Range(bye) : x.to = a
  BY DEF Range, Notice
<1>4. bye \in Seq({Notice(a, "DISCONNECT")}) /\ <<>> \in Seq({}) /\ Range(<<>>) = {}
  BY DEF Range
<1>5. CASE m.kind = "READY" /\ ReadyAgain(a)
  <2> DEFINE b == DeleteWorkers(broker, {a})
  <2>1. /\ a \in broker.known /\ Finish(b, <<>>, bye)
        /\ Base(b) /\ b.known = broker.known \ {a}
        /\ \A w \in Workers : b.expiry[w] = IF w \in {a} THEN 0 ELSE broker.expiry[w]
    BY <1>1, <1>5, DeleteBase, DeleteFields DEF ReadyAgain
  <2> HIDE DEF b, m, bye
  <2>2. Ended(b, bye)
    BY <1>4, <2>1, FinishEnds
  <2>3. Iterated({a})
    BY <1>1, <1>3, <2>1, <2>2, EndedIterates DEF ButFor
  <2> QED
    BY <1>5, <2>1, <2>2, <2>3 DEF Handled, Ended, Survives, m
<1>6. CASE m.kind = "READY" /\ ReadyNew(a, m.service)
  <2> DEFINE s == m.service
             b == Attach(broker, a, s)
  <2>1. s \in Names
    BY <1>2, <1>6, NamesAssumption DEF ToBroker
  <2>2. /\ a \notin broker.known /\ DispatchFrom(b, s)
        /\ Base(b) /\ Stranded(b) \subseteq {s}
    BY <1>1, <1>6, <2>1, AttachBase DEF ReadyNew
  <2>3. /\ b.known = broker.known \cup {a} /\ b.expiry[a] = EXPIRY
        /\ \A w \in Workers : w # a => b.expiry[w] = broker.expiry[w]
    BY <1>1 DEF Attach
  <2> HIDE DEF b, m, s
  <2>4. Ended(b, <<>>)
    BY <2>1, <2>2, DispatchEnds
  <2>5. Iterated({a})
    BY <1>1, <1>4, <2>3, <2>4, EndedIterates DEF ButFor
  <2> QED
    BY <1>1, <1>6, <2>2, <2>3, <2>4, <2>5 DEF Handled, Ended, Survives, m
<1>7. CASE m.kind = "HEARTBEAT" /\ Heartbeat(a)
  <2> DEFINE b == Refresh(broker, a)
  <2>1. /\ a \in broker.known /\ Finish(b, <<>>, <<>>) /\ Base(b)
    BY <1>1, <1>7, RefreshBase DEF Heartbeat
  <2>2. /\ b.known = broker.known /\ b.expiry[a] = EXPIRY
        /\ \A w \in Workers : w # a => b.expiry[w] = broker.expiry[w]
    BY <1>1 DEF Refresh
  <2> HIDE DEF b, m
  <2>3. Ended(b, <<>>)
    BY <1>4, <2>1, FinishEnds
  <2>4. Iterated({a})
    BY <1>1, <1>4, <2>2, <2>3, EndedIterates DEF ButFor
  <2> QED
    BY <1>1, <1>7, <2>1, <2>2, <2>3, <2>4 DEF Handled, Ended, Survives, m
<1>8. CASE m.kind \in {"HEARTBEAT", "REPORT"} /\ Unknown(a)
  <2>1. a \notin broker.known /\ Ended(broker, bye)
    BY <1>1, <1>4, <1>8, FinishEnds DEF Unknown, Answer
  <2> HIDE DEF m, bye
  <2>2. Iterated({a})
    BY <1>1, <1>3, <2>1, EndedIterates DEF ButFor
  <2> QED
    BY <1>8, <2>1, <2>2 DEF Handled, Ended, Survives, m
<1>9. CASE m.kind = "DISCONNECT" /\ Disconnect(a)
  <2> DEFINE D == {a} \cap broker.known
             b == DeleteWorkers(broker, D)
  <2>1. /\ D \in SUBSET broker.known /\ Finish(b, <<>>, <<>>)
    BY <1>9 DEF Disconnect
  <2>2. /\ Base(b) /\ b.known = broker.known \ D
        /\ \A w \in Workers : b.expiry[w] = IF w \in D THEN 0 ELSE broker.expiry[w]
    BY <1>1, <2>1, DeleteBase, DeleteFields
  <2> HIDE DEF b, m
  <2>3. Ended(b, <<>>)
    BY <1>4, <2>1, <2>2, FinishEnds
  <2>4. Iterated({a})
    BY <1>1, <1>4, <2>2, <2>3, EndedIterates DEF ButFor
  <2> QED
    BY <1>9, <2>2, <2>3, <2>4 DEF Handled, Ended, Survives, m
<1>10. CASE m.kind = "REPORT" /\ Report(a, m.request.client)
  <2> DEFINE r == Reply(m.request.client, "REPORT", broker.service[a], "answer")
  <2>1. a \in broker.known /\ Finish(broker, <<>>, <<r>>) /\ <<r>> \in Seq({r})
    BY <1>10 DEF Report, Answer
  <2>2. \A x \in Range(<<r>>) : x.kind # "DISCONNECT"
    BY DEF Range, Reply
  <2> HIDE DEF r, m
  <2>3. Ended(broker, <<r>>)
    BY <1>1, <2>1, FinishEnds
  <2>4. Iterated({a})
    BY <1>1, <2>2, <2>3, EndedIterates DEF ButFor
  <2> QED
    BY <1>10, <2>1, <2>3, <2>4 DEF Handled, Ended, Survives, m
<1> QED
  BY <1>5, <1>6, <1>7, <1>8, <1>9, <1>10 DEF HandleWorker

\* The other iterations: a client's request, and a heartbeat that is due.
LEMMA OtherIteration ==
  ASSUME SysInv, BrokerHeartbeat \/ \E c \in Clients : HandleClient(c)
  PROVE  Iterated({})
<1>1. /\ Base(broker) /\ Stranded(broker) = {} /\ IInv
      /\ broker \in BrokerType /\ broker.known \in SUBSET Workers
  BY BaseFacts DEF SysInv, IInv, Good
<1>2. <<>> \in Seq({}) /\ Range(<<>>) = {}
  BY DEF Range
<1>3. PICK b : Ended(b, <<>>) /\ b.known = broker.known /\ b.expiry = broker.expiry
  <2>1. CASE BrokerHeartbeat
    BY <1>1, <1>2, <2>1, FinishEnds DEF BrokerHeartbeat, NoMessage
  <2>2. ASSUME NEW c \in Clients, HandleClient(c)
        PROVE  \E b : Ended(b, <<>>) /\ b.known = broker.known /\ b.expiry = broker.expiry
    <3> DEFINE m == Head(calls[c])
               r == [client |-> c, command |-> m.command]
               b == [broker EXCEPT !.requests[m.service] = Append(@, r)]
    <3>1. m \in Asked /\ DispatchFrom(b, m.service)
      BY <2>2, DequeueType DEF SysInv, ChannelsOK, HandleClient, Submit
    <3>2. m.service \in Names /\ r \in Request
      BY <3>1 DEF Asked, Names, Request
    <3>3. b.known = broker.known /\ b.expiry = broker.expiry
      BY <1>1 DEF BrokerType
    <3> HIDE DEF m, r
    <3>4. Base(b) /\ Stranded(b) \subseteq {m.service}
      BY <1>1, <3>2, EnqueueBase
    <3>5. DispatchFrom(b, m.service)
      BY <3>1 DEF r
    <3> HIDE DEF b
    <3> QED
      BY <3>2, <3>3, <3>4, <3>5, DispatchEnds
  <2> QED
    BY <2>1, <2>2
<1>4. status = "up"
  BY DEF BrokerHeartbeat, HandleClient
<1> QED
  BY <1>1, <1>2, <1>3, <1>4 DEF Ended, Iterated, Survives

\* What the workers hear of an iteration.
LEMMA WorkersHear ==
  ASSUME SysInv, IInv', Delivered, NEW senders, Iterated(senders), NEW a \in Workers, Open(a)
  PROVE  /\ toWorker'[a] = <<>> =>
              toWorker[a] = <<>> /\ (a \in broker'.known => heartbeatIn >= 0)
         /\ Has(toWorker'[a], Told("DISCONNECT")) =>
              Has(toWorker[a], Told("DISCONNECT")) \/ (a \in senders /\ a \notin broker'.known)
         /\ Has(toWorker'[a], Told("REQUEST")) =>
              \/ Has(toWorker[a], Told("REQUEST"))
              \/ a \in broker'.known /\ broker'.expiry[a] > 0
<1> DEFINE news == Range(sent'.work) \cup Range(sent'.other)
           up == toWorker[a]
<1>1. /\ toWorker \in [Workers -> Seq(ToWorker)] /\ up \in Seq(ToWorker)
      /\ sent'.work \in Seq(RequestMsg) /\ heartbeatIn \in Int
  BY DEF SysInv, ChannelsOK, IInv, TypeOK, Output
<1>2. ASSUME NEW M
      PROVE  Has(toWorker'[a], M) <=> Has(up, M) \/ \E m \in news : m \in M /\ m.to = a
  BY <1>1, Deliveries
<1>3. /\ \A m \in Range(sent'.work) :
           m.kind = "REQUEST" /\ m.to \in broker'.known /\ broker'.expiry[m.to] > 0
      /\ \A m \in Range(sent'.other) :
           m.kind = "DISCONNECT" => m.to \notin broker'.known /\ (m.to = a => a \in senders)
      /\ \A m \in Range(sent'.other) : m.kind # "REQUEST"
  <2>1. SendsMatchRegistry'
    BY DEF IInv
  <2>2. \A m \in Range(sent'.work) : m \in RequestMsg
    BY <1>1, LenProperties, ElementOfSeq DEF Range
  <2>3. \A m \in Range(sent'.other) : m \in WorkerMsg \cup ClientMsg
    <3>1. sent'.other \in Seq(WorkerMsg \cup ClientMsg)
      BY DEF IInv, TypeOK, Output
    <3> QED
      BY <3>1, LenProperties, ElementOfSeq DEF Range
  <2>4. \A m \in WorkerMsg \cup ClientMsg : m.kind # "REQUEST"
    BY DEF WorkerMsg, ClientMsg
  <2>5. \A m \in RequestMsg : m.kind = "REQUEST"
    BY DEF RequestMsg
  <2> QED
    BY <2>1, <2>2, <2>3, <2>4, <2>5 DEF SendsMatchRegistry, Receivers, Iterated
<1> HIDE DEF news
<1>4. ASSUME toWorker'[a] = <<>>
      PROVE  up = <<>> /\ (a \in broker'.known => heartbeatIn >= 0)
  <2>1. \A M : ~Has(toWorker'[a], M)
    BY <1>4 DEF Has
  <2>2. up = <<>>
    <3>1. CASE up # <<>>
      <4>1. Has(up, {Head(up)})
        BY <1>1, <3>1, HasTail
      <4> QED
        BY <1>2, <2>1, <4>1
    <3> QED
      BY <3>1
  <2>3. ASSUME a \in broker'.known, heartbeatIn < 0 PROVE FALSE
    <3> DEFINE m == Notice(a, "HEARTBEAT")
    <3>1. m \in news /\ m.to = a
      BY <2>3 DEF Iterated, news, Notice
    <3> QED
      BY <1>2, <2>1, <3>1
  <2> QED
    BY <1>1, <2>2, <2>3
<1>5. ASSUME Has(toWorker'[a], Told("DISCONNECT")), ~Has(up, Told("DISCONNECT"))
      PROVE  a \in senders /\ a \notin broker'.known
  <2>1. PICK m \in news : m \in Told("DISCONNECT") /\ m.to = a
    BY <1>2, <1>5
  <2> QED
    BY <1>3, <2>1 DEF Told, news
<1>6. ASSUME Has(toWorker'[a], Told("REQUEST")), ~Has(up, Told("REQUEST"))
      PROVE  a \in broker'.known /\ broker'.expiry[a] > 0
  <2>1. PICK m \in news : m \in Told("REQUEST") /\ m.to = a
    BY <1>2, <1>6
  <2> QED
    BY <1>3, <2>1 DEF Told, news
<1> QED
  BY <1>4, <1>5, <1>6

-----------------------------------------------------------------------------
(* Connections *)

LEMMA ReadyIsFirst ==
  ASSUME NEW S, NEW up \in Seq(S), up # <<>>, \A i \in DOMAIN up : up[i].kind = "READY" => i = 1
  PROVE  /\ \A i \in DOMAIN Tail(up) : Tail(up)[i].kind # "READY"
         /\ ~Has(Tail(up), Said("READY"))
<1> DEFINE r == Tail(up)
<1>1. /\ Len(up) \in Nat \ {0} /\ DOMAIN up = 1..Len(up)
      /\ DOMAIN r = 1..(Len(up) - 1)
      /\ \A i \in 1..(Len(up) - 1) : r[i] = up[i + 1]
  BY LenProperties, HeadTailProperties, EmptySeq
<1> HIDE DEF r
<1>2. \A i \in DOMAIN r : r[i].kind # "READY"
  <2>1. \A i \in DOMAIN r : i + 1 \in DOMAIN up /\ r[i] = up[i + 1] /\ i + 1 # 1
    BY <1>1
  <2> QED
    BY <2>1
<1> QED
  BY <1>2 DEF r, Has, Said

\* A worker of which the broker handles a message, and one of which it does not.
LEMMA LinkHandled ==
  ASSUME NEW a \in Workers, NEW w, NEW up \in Seq(ToBroker), up # <<>>, NEW down, NEW down2,
         Handled(a, Head(up).kind), Link(w, up, down, a \in broker.known),
         Has(down2, Told("DISCONNECT")) =>
           Has(down, Told("DISCONNECT")) \/ a \notin broker'.known
  PROVE  Link(w, Tail(up), down2, a \in broker'.known)
<1>1. /\ \A i \in DOMAIN Tail(up) : Tail(up)[i].kind # "READY"
      /\ ~Has(Tail(up), Said("READY"))
  BY ReadyIsFirst DEF Link
<1>2. \A M : Head(up) \in M \/ Has(Tail(up), M) => Has(up, M)
  BY HasTail
<1>3. Head(up) \in ToBroker
  BY HeadTailProperties
<1>4. Has(down, Told("DISCONNECT")) => a \notin broker'.known
  <2>1. Head(up).kind \in {"READY", "HEARTBEAT", "DISCONNECT", "REPORT"}
    BY <1>3 DEF ToBroker
  <2>2. Head(up).kind # "DISCONNECT"
    BY <1>2, <1>3 DEF Link, Said
  <2>3. Has(down, Told("DISCONNECT")) => a \notin broker.known /\ Head(up).kind # "READY"
    BY <1>2, <1>3 DEF Link, Said
  <2> QED
    BY <2>1, <2>2, <2>3 DEF Handled
<1> QED
  BY <1>1, <1>2, <1>4 DEF Link

LEMMA LinkIterated ==
  ASSUME NEW senders, Iterated(senders), NEW a \in Workers \ senders, NEW w, NEW up, NEW down,
         Link(w, up, down, a \in broker.known), NEW down2,
         Has(down2, Told("DISCONNECT")) => Has(down, Told("DISCONNECT"))
  PROVE  Link(w, up, down2, a \in broker'.known)
BY DEF Link, Iterated

\* An iteration handles the message of one worker, or of none.
HandlesOf(senders) ==
  /\ Iterated(senders)
  /\ \A a \in Workers \ senders : toBroker'[a] = toBroker[a]
  /\ \A a \in senders : /\ toBroker[a] # <<>> /\ toBroker'[a] = Tail(toBroker[a])
                        /\ Handled(a, Head(toBroker[a]).kind)
  /\ \A p \in served \ served' :
       LET a == worker[p].address IN a \in senders /\ Head(toBroker[a]).kind = "HEARTBEAT"

BrokerIterates ==
  \/ BrokerHeartbeat
  \/ \E a \in Workers : HandleWorker(a)
  \/ \E c \in Clients : HandleClient(c)

LEMMA SomeIteration ==
  ASSUME SysInv, BrokerIterates
  PROVE  \E senders \in SUBSET Workers : HandlesOf(senders)
<1>1. ASSUME NEW a \in Workers, HandleWorker(a)
      PROVE  HandlesOf({a})
  <2>1. toBroker \in [Workers -> Seq(ToBroker)]
    BY DEF SysInv, ChannelsOK
  <2>2. \A p \in served \ served' :
          worker[p].address = a /\ Head(toBroker[a]).kind = "HEARTBEAT"
    BY <1>1 DEF HandleWorker
  <2> QED
    BY <1>1, <2>1, <2>2, WorkerIteration DEF HandleWorker, Dequeue, HandlesOf
<1>2. ASSUME BrokerHeartbeat \/ \E c \in Clients : HandleClient(c)
      PROVE  HandlesOf({})
  BY <1>2, OtherIteration DEF BrokerHeartbeat, HandleClient, HandlesOf, history
<1>3. \A a \in Workers : {a} \in SUBSET Workers
  OBVIOUS
<1>4. {} \in SUBSET Workers
  OBVIOUS
<1> QED
  BY <1>1, <1>2, <1>3, <1>4 DEF BrokerIterates

\* The iterations of the broker keep the connections in order.
LEMMA BrokerKeepsLinks ==
  ASSUME SysInv, IInv', Links, BrokerIterates
  PROVE  Links'
<1>1. PICK senders \in SUBSET Workers : HandlesOf(senders)
  BY SomeIteration
<1>2. Delivered /\ worker' = worker /\ status' = "up" /\ Iterated(senders)
  BY <1>1 DEF BrokerIterates, BrokerHeartbeat, HandleClient, HandleWorker, HandlesOf, Iterated
<1>3. /\ toBroker \in [Workers -> Seq(ToBroker)] /\ toWorker \in [Workers -> Seq(ToWorker)]
      /\ \A p \in Processes : worker[p].at # "down" => worker[p].address \in Workers
  BY DEF SysInv, ChannelsOK, ProgramsOK, Working
<1>4. ASSUME NEW p \in Processes, NEW a, a = worker[p].address, worker[p].at # "down"
      PROVE  Link(worker[p], toBroker'[a], toWorker'[a], a \in broker'.known)
  <2>1. a \in Workers /\ Open(a) /\ Link(worker[p], toBroker[a], toWorker[a], a \in broker.known)
    BY <1>3, <1>4 DEF Open, Links
  <2>2. Has(toWorker'[a], Told("DISCONNECT")) =>
          Has(toWorker[a], Told("DISCONNECT")) \/ (a \in senders /\ a \notin broker'.known)
    BY <1>2, <2>1, WorkersHear
  <2>3. CASE a \in senders
    <3>1. /\ toBroker[a] # <<>> /\ toBroker'[a] = Tail(toBroker[a])
          /\ Handled(a, Head(toBroker[a]).kind) /\ toBroker[a] \in Seq(ToBroker)
      BY <1>1, <1>3, <2>1, <2>3 DEF HandlesOf
    <3>2. Link(worker[p], Tail(toBroker[a]), toWorker'[a], a \in broker'.known)
      BY <2>1, <2>2, <3>1, LinkHandled
    <3> QED
      BY <3>1, <3>2
  <2>4. CASE a \notin senders
    <3>1. a \in Workers \ senders /\ toBroker'[a] = toBroker[a]
      BY <1>1, <2>1, <2>4 DEF HandlesOf
    <3>2. Link(worker[p], toBroker[a], toWorker'[a], a \in broker'.known)
      BY <1>2, <2>1, <2>2, <2>4, <3>1, LinkIterated
    <3> QED
      BY <3>1, <3>2
  <2> QED
    BY <2>3, <2>4
<1>5. ASSUME NEW a \in Workers, ~Open(a)
      PROVE  toWorker'[a] = <<>>
  BY <1>2, <1>5 DEF Delivered
<1> QED
  BY <1>2, <1>4, <1>5 DEF Links, Open

-----------------------------------------------------------------------------
(* What a worker does *)

\* A turn of mdp_worker_recv that leaves the worker w as v.
Polled(w, v, up, up2, liveness) ==
  /\ v.at = "recv" /\ v.liveness = liveness /\ v.timer = INTERVAL
  /\ IF w.heartbeatIn < 0
     THEN v.heartbeatIn = INTERVAL /\ up2 = Append(up, [kind |-> "HEARTBEAT"])
     ELSE v.heartbeatIn = w.heartbeatIn /\ up2 = up

Took(w, v, up, up2, down, down2) ==
  /\ w.at = "recv" /\ down # <<>> /\ Head(down).kind = "REQUEST"
  /\ v.at = "busy" /\ v.liveness = LIVENESS /\ v.heartbeatIn = w.heartbeatIn
  /\ up2 = up /\ down2 = Tail(down)

Heard(w, v, up, up2, down, down2) ==
  /\ w.at = "recv" /\ down # <<>> /\ Head(down).kind = "HEARTBEAT"
  /\ Polled(w, v, up, up2, LIVENESS) /\ down2 = Tail(down)

Waited(w, v, up, up2, down, down2) ==
  /\ w.at = "recv" /\ w.timer = 0 /\ w.liveness > 1 /\ down = <<>>
  /\ Polled(w, v, up, up2, w.liveness - 1) /\ down2 = down

Resigned(w, v, up, up2, down, down2) ==
  /\ w.at = "recv" /\ w.timer = 0 /\ w.liveness = 1 /\ down = <<>>
  /\ v.at = "asleep" /\ v.timer = RECONNECT
  /\ up2 = up /\ down2 = down

Reported(w, v, up, up2, down, down2) ==
  /\ w.at = "busy"
  /\ v.at = "recv" /\ v.liveness = w.liveness /\ v.timer = INTERVAL
  /\ v.heartbeatIn = w.heartbeatIn
  /\ \E m \in Results : up2 = Append(up, m)
  /\ down2 = down

Turned(w, v, up, up2, down, down2) ==
  \/ Heard(w, v, up, up2, down, down2)
  \/ Waited(w, v, up, up2, down, down2)
  \/ Resigned(w, v, up, up2, down, down2)
  \/ Reported(w, v, up, up2, down, down2)

\* The worker p on its connection, and all else.
KeepsConnection(p) ==
  LET a == worker[p].address IN
  /\ a \in Workers /\ worker'[p].address = a /\ worker'[p].at # "down"
  /\ \/ Turned(worker[p], worker'[p], toBroker[a], toBroker'[a], toWorker[a], toWorker'[a])
        /\ served' = served
     \/ Took(worker[p], worker'[p], toBroker[a], toBroker'[a], toWorker[a], toWorker'[a])
        /\ served' = served \cup {p}
  /\ \A x \in Workers \ {a} : toBroker'[x] = toBroker[x] /\ toWorker'[x] = toWorker[x]
  /\ \A q \in Processes \ {p} : worker'[q] = worker[q]

\* Its old connection is closed, and a new one opened.
Reconnects(p) ==
  /\ \E new \in Unused :
       /\ worker'[p] = [at |-> "recv", address |-> new, liveness |-> LIVENESS,
                        timer |-> INTERVAL, heartbeatIn |-> INTERVAL, request |-> Idle]
       /\ toBroker'[new] = <<[kind |-> "READY", service |-> Serves[p]]>>
       /\ toWorker'[new] = toWorker[new]
       /\ \A x \in Workers \ {new} :
            /\ toBroker'[x] # toBroker[x] => x = worker[p].address /\ toBroker'[x] = <<>>
            /\ toWorker'[x] = IF x = worker[p].address THEN <<>> ELSE toWorker[x]
  /\ \A q \in Processes \ {p} : worker'[q] = worker[q]
  /\ served' = served

\* The worker has no use for its connection any more: it was told to leave, or has
\* given up, or has none.
IsCut(p) ==
  LET w == worker[p] IN
  \/ w.at = "down" /\ w.address \notin Workers
  \/ w.at = "asleep"
  \/ w.at = "recv" /\ Has(toWorker[w.address], Told("DISCONNECT"))

\* Its connection is closed, and it is gone.
Leaves(p) ==
  LET a == worker[p].address IN
  /\ a \in Workers /\ worker'[p] = Down /\ toWorker'[a] = <<>>
  /\ \A x \in Workers \ {a} : toBroker'[x] = toBroker[x] /\ toWorker'[x] = toWorker[x]
  /\ \A q \in Processes \ {p} : worker'[q] = worker[q]
  /\ served' = served /\ faults' = faults + 1

LEMMA ConnectEffect ==
  ASSUME SysInv, NEW p \in Processes, Connect(p)
  PROVE  Reconnects(p)
<1>1. PICK old \in {worker[p].address}, new \in {CHOOSE a \in Unused : TRUE},
           flushed \in BOOLEAN :
        /\ Unused # {}
        /\ flushed => status = "up" /\ old # NoAddress
        /\ worker' = [worker EXCEPT ![p] =
             [at |-> "recv", address |-> new, liveness |-> LIVENESS,
              timer |-> INTERVAL, heartbeatIn |-> INTERVAL, request |-> Idle]]
        /\ toWorker' = [a \in Workers |-> IF a = old THEN <<>> ELSE toWorker[a]]
        /\ toBroker' = [a \in Workers |->
             CASE a = new -> <<[kind |-> "READY", service |-> Serves[p]]>>
               [] a = old /\ ~flushed -> <<>>
               [] OTHER -> toBroker[a]]
        /\ UNCHANGED history
  BY DEF Connect
<1>2. new \in Unused /\ old = worker[p].address
  BY <1>1
<1>3. new \in Workers /\ new # worker[p].address
  BY <1>2 DEF Unused, Open
<1>4. /\ worker'[p] = [at |-> "recv", address |-> new, liveness |-> LIVENESS,
                       timer |-> INTERVAL, heartbeatIn |-> INTERVAL, request |-> Idle]
      /\ \A q \in Processes \ {p} : worker'[q] = worker[q]
  BY <1>1 DEF SysInv, ProgramsOK
<1>5. /\ toBroker'[new] = <<[kind |-> "READY", service |-> Serves[p]]>>
      /\ toWorker'[new] = toWorker[new]
  BY <1>1, <1>2, <1>3
<1>6. \A x \in Workers \ {new} :
        /\ toBroker'[x] # toBroker[x] => x = worker[p].address /\ toBroker'[x] = <<>>
        /\ toWorker'[x] = IF x = worker[p].address THEN <<>> ELSE toWorker[x]
  BY <1>1, <1>2
<1> QED
  BY <1>1, <1>2, <1>4, <1>5, <1>6 DEF Reconnects, history

\* A process that runs has an address, and the state has its types.
LEMMA Home ==
  ASSUME SysInv, NEW p \in Processes, worker[p].at # "down"
  PROVE  /\ worker[p].address \in Workers
         /\ worker \in [Processes -> WorkerType] /\ worker[p] \in WorkerType
         /\ toBroker \in [Workers -> Seq(ToBroker)] /\ toWorker \in [Workers -> Seq(ToWorker)]
BY DEF SysInv, ProgramsOK, ChannelsOK, Working

LEMMA PollEffect ==
  ASSUME SysInv, NEW p \in Processes, worker[p].at = "recv", NEW l, PollAgain(p, l),
         NEW d, toWorker' = [toWorker EXCEPT ![worker[p].address] = d]
  PROVE  LET a == worker[p].address IN
         /\ Polled(worker[p], worker'[p], toBroker[a], toBroker'[a], l)
         /\ a \in Workers /\ worker'[p].address = a /\ toWorker'[a] = d
         /\ \A x \in Workers \ {a} : toBroker'[x] = toBroker[x] /\ toWorker'[x] = toWorker[x]
         /\ \A q \in Processes \ {p} : worker'[q] = worker[q]
<1> DEFINE a == worker[p].address
           due == worker[p].heartbeatIn < 0
           w == [worker[p] EXCEPT !.liveness = l, !.timer = INTERVAL,
                                  !.heartbeatIn = IF due THEN INTERVAL ELSE @]
           u == IF due THEN Append(toBroker[a], [kind |-> "HEARTBEAT"]) ELSE toBroker[a]
<1>1. /\ worker[p] \in WorkerType /\ worker \in [Processes -> WorkerType]
      /\ toBroker \in [Workers -> Seq(ToBroker)]
  BY DEF SysInv, ProgramsOK, ChannelsOK
<1>2. worker' = [worker EXCEPT ![p] = w]
  BY <1>1 DEF PollAgain, WorkerType
<1>3. toBroker' = [toBroker EXCEPT ![a] = u]
  BY <1>1 DEF PollAgain, Enqueue
<1>4. /\ w.at = "recv" /\ w.liveness = l /\ w.timer = INTERVAL /\ w.address = a
      /\ w.heartbeatIn = IF due THEN INTERVAL ELSE worker[p].heartbeatIn
  BY <1>1 DEF WorkerType
<1> HIDE DEF w
<1>5. /\ a \in Workers /\ worker'[p] = w /\ toBroker'[a] = u /\ toWorker'[a] = d
      /\ \A x \in Workers \ {a} : toBroker'[x] = toBroker[x] /\ toWorker'[x] = toWorker[x]
      /\ \A q \in Processes \ {p} : worker'[q] = worker[q]
  BY <1>1, <1>2, <1>3, Home
<1> QED
  BY <1>4, <1>5 DEF Polled

LEMMA WorkerEffect ==
  ASSUME SysInv, Links, NEW p \in Processes, WorkerRuns(p)
  PROVE  KeepsConnection(p) \/ (Reconnects(p) /\ IsCut(p))
<1> DEFINE w == worker[p]
           a == worker[p].address
<1>1. /\ w \in WorkerType /\ worker \in [Processes -> WorkerType]
      /\ toBroker \in [Workers -> Seq(ToBroker)] /\ toWorker \in [Workers -> Seq(ToWorker)]
  BY DEF SysInv, ProgramsOK, ChannelsOK
<1>2. CASE TakeRequest(p)
  <2> DEFINE v == [w EXCEPT !.at = "busy", !.request = Head(Inbox(p)).request,
                            !.liveness = LIVENESS, !.timer = 0]
  <2>1. /\ w.at = "recv" /\ toWorker[a] # <<>> /\ Head(toWorker[a]).kind = "REQUEST"
        /\ toWorker' = [toWorker EXCEPT ![a] = Tail(toWorker[a])]
        /\ toBroker' = [toBroker EXCEPT ![a] = toBroker[a]]
        /\ served' = served \cup {p}
    BY <1>1, <1>2 DEF TakeRequest, Reads, Inbox, Dequeue
  <2>2. worker' = [worker EXCEPT ![p] = v]
    BY <1>1, <1>2 DEF TakeRequest, WorkerType
  <2>3. /\ v.at = "busy" /\ v.liveness = LIVENESS /\ v.heartbeatIn = w.heartbeatIn
        /\ v.address = a
    BY <1>1 DEF WorkerType
  <2> HIDE DEF v
  <2>4. /\ a \in Workers /\ worker'[p] = v
        /\ toBroker'[a] = toBroker[a] /\ toWorker'[a] = Tail(toWorker[a])
        /\ \A x \in Workers \ {a} : toBroker'[x] = toBroker[x] /\ toWorker'[x] = toWorker[x]
        /\ \A q \in Processes \ {p} : worker'[q] = worker[q]
    BY <2>1, <2>2, Home
  <2> QED
    BY <2>1, <2>3, <2>4 DEF KeepsConnection, Took
<1>3. CASE TakeHeartbeat(p)
  <2>1. /\ w.at = "recv" /\ toWorker[a] # <<>> /\ Head(toWorker[a]).kind = "HEARTBEAT"
        /\ toWorker' = [toWorker EXCEPT ![a] = Tail(toWorker[a])]
        /\ PollAgain(p, LIVENESS) /\ served' = served
    BY <1>1, <1>3 DEF TakeHeartbeat, Reads, Inbox, Dequeue, history
  <2> QED
    <3>1. /\ Polled(w, worker'[p], toBroker[a], toBroker'[a], LIVENESS)
          /\ a \in Workers /\ worker'[p].address = a /\ toWorker'[a] = Tail(toWorker[a])
          /\ \A x \in Workers \ {a} : toBroker'[x] = toBroker[x] /\ toWorker'[x] = toWorker[x]
          /\ \A q \in Processes \ {p} : worker'[q] = worker[q]
      BY <2>1, PollEffect
    <3>2. worker'[p].at # "down"
      BY <3>1 DEF Polled
    <3> QED
      BY <2>1, <3>1, <3>2 DEF KeepsConnection, Turned, Heard
<1>4. CASE PollTimesOut(p)
  <2>1. /\ w.at = "recv" /\ w.timer = 0 /\ w.liveness > 1 /\ toWorker[a] = <<>>
        /\ toWorker' = [toWorker EXCEPT ![a] = toWorker[a]]
        /\ PollAgain(p, w.liveness - 1) /\ served' = served
    BY <1>1, <1>4 DEF PollTimesOut, NothingCame, Inbox, history
  <2> QED
    <3>1. /\ Polled(w, worker'[p], toBroker[a], toBroker'[a], w.liveness - 1)
          /\ a \in Workers /\ worker'[p].address = a /\ toWorker'[a] = toWorker[a]
          /\ \A x \in Workers \ {a} : toBroker'[x] = toBroker[x] /\ toWorker'[x] = toWorker[x]
          /\ \A q \in Processes \ {p} : worker'[q] = worker[q]
      BY <2>1, PollEffect
    <3>2. worker'[p].at # "down"
      BY <3>1 DEF Polled
    <3> QED
      BY <2>1, <3>1, <3>2 DEF KeepsConnection, Turned, Waited
<1>5. CASE GiveUpOnBroker(p)
  <2> DEFINE v == [w EXCEPT !.at = "asleep", !.timer = RECONNECT, !.liveness = 0]
  <2>1. /\ w.at = "recv" /\ w.timer = 0 /\ w.liveness = 1 /\ toWorker[a] = <<>>
        /\ toBroker' = [toBroker EXCEPT ![a] = toBroker[a]]
        /\ toWorker' = [toWorker EXCEPT ![a] = toWorker[a]] /\ served' = served
    BY <1>1, <1>5 DEF GiveUpOnBroker, NothingCame, Inbox, history
  <2>2. worker' = [worker EXCEPT ![p] = v]
    BY <1>1, <1>5 DEF GiveUpOnBroker, WorkerType
  <2>3. v.at = "asleep" /\ v.timer = RECONNECT /\ v.address = a
    BY <1>1 DEF WorkerType
  <2> HIDE DEF v
  <2>4. /\ a \in Workers /\ worker'[p] = v
        /\ toBroker'[a] = toBroker[a] /\ toWorker'[a] = toWorker[a]
        /\ \A x \in Workers \ {a} : toBroker'[x] = toBroker[x] /\ toWorker'[x] = toWorker[x]
        /\ \A q \in Processes \ {p} : worker'[q] = worker[q]
    BY <2>1, <2>2, Home
  <2> QED
    BY <2>1, <2>3, <2>4 DEF KeepsConnection, Turned, Resigned
<1>6. CASE SendReport(p)
  <2> DEFINE v == [w EXCEPT !.at = "recv", !.timer = INTERVAL, !.request = Idle]
             m == [kind |-> "REPORT", request |-> w.request]
  <2>1. /\ w.at = "busy" /\ toBroker' = [toBroker EXCEPT ![a] = Append(toBroker[a], m)]
        /\ toWorker' = [toWorker EXCEPT ![a] = toWorker[a]] /\ served' = served
    BY <1>1, <1>6 DEF SendReport, Enqueue, history
  <2>2. worker' = [worker EXCEPT ![p] = v]
    BY <1>1, <1>6 DEF SendReport, WorkerType
  <2>3. /\ v.at = "recv" /\ v.timer = INTERVAL /\ v.liveness = w.liveness
        /\ v.heartbeatIn = w.heartbeatIn /\ v.address = a
    BY <1>1 DEF WorkerType
  <2>4. m \in Results
    BY <2>1 DEF SysInv, ProgramsOK, Working, Results
  <2> HIDE DEF v, m
  <2>5. /\ a \in Workers /\ worker'[p] = v
        /\ toBroker'[a] = Append(toBroker[a], m) /\ toWorker'[a] = toWorker[a]
        /\ \A x \in Workers \ {a} : toBroker'[x] = toBroker[x] /\ toWorker'[x] = toWorker[x]
        /\ \A q \in Processes \ {p} : worker'[q] = worker[q]
    BY <2>1, <2>2, Home
  <2> QED
    BY <2>1, <2>3, <2>4, <2>5 DEF KeepsConnection, Turned, Reported
<1>7. CASE TakeDisconnect(p) \/ WakeUp(p) \/ StartWorker(p)
  <2>1. Reconnects(p)
    BY <1>7, ConnectEffect DEF TakeDisconnect, WakeUp, StartWorker
  <2>2. CASE TakeDisconnect(p)
    <3>1. /\ w.at = "recv" /\ toWorker[a] # <<>> /\ Head(toWorker[a]).kind = "DISCONNECT"
      BY <2>2 DEF TakeDisconnect, Inbox
    <3>2. toWorker[a] \in Seq(ToWorker)
      BY <3>1, Home
    <3>3. Head(toWorker[a]) \in Told("DISCONNECT")
      BY <3>1, <3>2, HeadTailProperties DEF Told
    <3>4. Has(toWorker[a], Told("DISCONNECT"))
      BY <3>1, <3>2, <3>3, HasTail
    <3> QED
      BY <2>1, <3>1, <3>4 DEF IsCut
  <2>3. CASE WakeUp(p)
    BY <2>1, <2>3 DEF WakeUp, IsCut
  <2>4. CASE StartWorker(p)
    <3>1. w.at = "down" /\ a \notin Workers
      BY <2>4, CompositionAssumption DEF StartWorker, Links
    <3> QED
      BY <2>1, <3>1 DEF IsCut
  <2> QED
    BY <1>7, <2>2, <2>3, <2>4
<1> QED
  BY <1>2, <1>3, <1>4, <1>5, <1>6, <1>7 DEF WorkerRuns

LEMMA EndEffect ==
  ASSUME SysInv, NEW p \in Processes, WorkerEnds(p)
  PROVE  Leaves(p)
<1> DEFINE a == worker[p].address
<1>1. PICK last : Ends(p, last) /\ worker[p].at # "down"
  BY DEF WorkerEnds, Interrupt, Crash
<1>2. PICK flushed \in BOOLEAN :
        /\ toBroker' = [toBroker EXCEPT ![a] = IF flushed THEN toBroker[a] \o last ELSE <<>>]
        /\ toWorker' = [toWorker EXCEPT ![a] = <<>>]
        /\ worker' = [worker EXCEPT ![p] = Down]
  BY <1>1 DEF Ends, SysInv, ChannelsOK
<1>3. /\ a \in Workers /\ worker'[p] = Down /\ toWorker'[a] = <<>>
      /\ \A x \in Workers \ {a} : toBroker'[x] = toBroker[x] /\ toWorker'[x] = toWorker[x]
      /\ \A q \in Processes \ {p} : worker'[q] = worker[q]
  BY <1>1, <1>2, Home
<1> QED
  BY <1>3 DEF Leaves, WorkerEnds, history

-----------------------------------------------------------------------------
(* The connections stay in order *)

\* A message that is no READY, put behind the others.
LEMMA ReadyStaysFirst ==
  ASSUME NEW S, NEW up \in Seq(S), NEW m, m.kind # "READY",
         \A i \in DOMAIN up : up[i].kind = "READY" => i = 1
  PROVE  \A i \in DOMAIN Append(up, m) : Append(up, m)[i].kind = "READY" => i = 1
<1> DEFINE r == Append(up, m)
<1>1. /\ Len(up) \in Nat /\ DOMAIN up = 1..Len(up)
      /\ DOMAIN r = 1..(Len(up) + 1)
      /\ \A i \in 1..Len(up) : r[i] = up[i]
      /\ r[Len(up) + 1] = m
  BY LenProperties
<1> HIDE DEF r
<1>2. \A i \in DOMAIN r : r[i].kind = "READY" => i = 1
  BY <1>1
<1> QED
  BY <1>2 DEF r

LEMMA LinkTurned ==
  ASSUME NEW w \in WorkerType, NEW v, NEW up \in Seq(ToBroker), NEW up2,
         NEW down \in Seq(ToWorker), NEW down2, NEW known, Link(w, up, down, known),
         Turned(w, v, up, up2, down, down2) \/ Took(w, v, up, up2, down, down2)
  PROVE  Link(v, up2, down2, known)
<1>1. LIVENESS >= 1 /\ INTERVAL \in Nat /\ w.liveness \in 0..LIVENESS /\ LIVENESS \in Nat
  BY NumbersAssumption DEF WorkerType
<1>2. \A M : Has(down2, M) => Has(down, M)
  BY RestHas DEF Turned, Took, Heard, Waited, Resigned, Reported
<1>3. /\ v.at = "busy" => v.liveness = LIVENESS
      /\ v.at = "recv" => v.timer <= INTERVAL /\ v.liveness >= 1
      /\ v.at = "asleep" => v.timer <= RECONNECT
  BY <1>1, CompositionAssumption
     DEF Link, Turned, Took, Heard, Waited, Resigned, Reported, Polled
<1>4. up2 = up \/ \E m : up2 = Append(up, m) /\ m.kind \in {"HEARTBEAT", "REPORT"}
  <2>1. [kind |-> "HEARTBEAT"].kind = "HEARTBEAT"
    OBVIOUS
  <2>2. \A m \in Results : m.kind = "REPORT"
    BY DEF Results
  <2> QED
    BY <2>1, <2>2 DEF Turned, Took, Heard, Waited, Resigned, Reported, Polled
<1>5. CASE up2 = up
  BY <1>2, <1>3, <1>5 DEF Link
<1>6. ASSUME NEW m, up2 = Append(up, m), m.kind \in {"HEARTBEAT", "REPORT"}
      PROVE  Link(v, up2, down2, known)
  <2>1. /\ Has(up2, Said("READY")) => Has(up, Said("READY"))
        /\ Has(up2, Said("DISCONNECT")) => Has(up, Said("DISCONNECT"))
    BY <1>6, LongerHas DEF Said
  <2>2. \A i \in DOMAIN up2 : up2[i].kind = "READY" => i = 1
    BY <1>6, ReadyStaysFirst DEF Link
  <2> QED
    BY <1>2, <1>3, <2>1, <2>2 DEF Link
<1> QED
  BY <1>4, <1>5, <1>6

\* A connection just opened.
LEMMA LinkFresh ==
  ASSUME NEW s \in Offered, NEW w, w.at = "recv", w.liveness = LIVENESS, w.timer = INTERVAL
  PROVE  Link(w, <<[kind |-> "READY", service |-> s]>>, <<>>, FALSE)
<1> DEFINE m == [kind |-> "READY", service |-> s]
           up == <<m>>
<1>1. DOMAIN up = {1} /\ up[1] = m /\ m.kind = "READY"
  OBVIOUS
<1> HIDE DEF up
<1>2. ~Has(up, Said("DISCONNECT")) /\ \A M : ~Has(<<>>, M)
  BY <1>1 DEF Has, Said
<1>3. LIVENESS >= 1 /\ INTERVAL \in Nat
  BY NumbersAssumption
<1> QED
  BY <1>1, <1>2, <1>3 DEF Link, up

\* Who has an address has it alone.
LEMMA OwnAddress ==
  ASSUME SysInv, Links, NEW p \in Processes, NEW q \in Processes \ {p},
         worker[q].at # "down"
  PROVE  worker[q].address \in Workers /\ worker[q].address # worker[p].address
BY Home, CompositionAssumption DEF Links

LEMMA ConnectionKeepsLinks ==
  ASSUME SysInv, Links, NEW p \in Processes, KeepsConnection(p), BrokerRests
  PROVE  Links'
<1> DEFINE a == worker[p].address
<1>1. /\ a \in Workers /\ worker'[p].address = a /\ worker'[p].at # "down"
      /\ \/ Turned(worker[p], worker'[p], toBroker[a], toBroker'[a], toWorker[a], toWorker'[a])
         \/ Took(worker[p], worker'[p], toBroker[a], toBroker'[a], toWorker[a], toWorker'[a])
      /\ \A x \in Workers \ {a} : toBroker'[x] = toBroker[x] /\ toWorker'[x] = toWorker[x]
      /\ \A q \in Processes \ {p} : worker'[q] = worker[q]
      /\ broker' = broker /\ status' = status
  BY DEF KeepsConnection, BrokerRests, vars
<1>2. worker[p].at # "down"
  BY <1>1 DEF Turned, Took, Heard, Waited, Resigned, Reported
<1>3. Link(worker'[p], toBroker'[a], toWorker'[a], a \in broker'.known)
  <2>1. /\ worker[p] \in WorkerType /\ toBroker[a] \in Seq(ToBroker)
        /\ toWorker[a] \in Seq(ToWorker)
        /\ Link(worker[p], toBroker[a], toWorker[a], a \in broker.known)
    BY <1>1, <1>2, Home DEF Links
  <2>2. Link(worker'[p], toBroker'[a], toWorker'[a], a \in broker.known)
    BY <1>1, <2>1, LinkTurned
  <2> QED
    BY <1>1, <2>2
<1>4. \A q \in Processes : worker'[q].address = worker[q].address
  BY <1>1
<1>5. ASSUME NEW q \in Processes \ {p}, worker[q].at # "down"
      PROVE  LET b == worker[q].address IN
             Link(worker'[q], toBroker'[b], toWorker'[b], b \in broker'.known)
  BY <1>1, <1>5, OwnAddress DEF Links
<1>6. ASSUME NEW q \in Processes
      PROVE  LET b == worker'[q].address IN
             IF worker'[q].at = "down" THEN b = NoAddress
             ELSE Link(worker'[q], toBroker'[b], toWorker'[b], b \in broker'.known)
  BY <1>1, <1>3, <1>4, <1>5 DEF Links
<1>7. ASSUME NEW x \in Workers, \A q \in Processes : worker'[q].address # x
      PROVE  toWorker'[x] = <<>>
  BY <1>1, <1>4, <1>7 DEF Links, Open
<1> QED
  BY <1>1, <1>4, <1>6, <1>7 DEF Links, Open

LEMMA ReconnectKeepsLinks ==
  ASSUME SysInv, Links, NEW p \in Processes, Reconnects(p), BrokerRests
  PROVE  Links'
<1> DEFINE old == worker[p].address
<1>1. PICK new \in Unused :
        /\ worker'[p] = [at |-> "recv", address |-> new, liveness |-> LIVENESS,
                         timer |-> INTERVAL, heartbeatIn |-> INTERVAL, request |-> Idle]
        /\ toBroker'[new] = <<[kind |-> "READY", service |-> Serves[p]]>>
        /\ toWorker'[new] = toWorker[new]
        /\ \A x \in Workers \ {new} :
             /\ toBroker'[x] # toBroker[x] => x = worker[p].address /\ toBroker'[x] = <<>>
             /\ toWorker'[x] = IF x = worker[p].address THEN <<>> ELSE toWorker[x]
  BY DEF Reconnects
<1>2. /\ \A q \in Processes \ {p} : worker'[q] = worker[q]
      /\ broker' = broker /\ status' = status
  BY DEF Reconnects, BrokerRests, vars
<1>3. /\ new \in Workers \ broker.known /\ toWorker[new] = <<>>
      /\ \A q \in Processes : worker[q].address # new
  BY <1>1 DEF Unused, Open, Links
<1>4. /\ worker'[p].at = "recv" /\ worker'[p].address = new
      /\ worker'[p].liveness = LIVENESS /\ worker'[p].timer = INTERVAL
  BY <1>1
<1>5. Link(worker'[p], toBroker'[new], toWorker'[new], new \in broker'.known)
  <2>1. Serves[p] \in Offered
    BY CompositionAssumption
  <2>2. Link(worker'[p], <<[kind |-> "READY", service |-> Serves[p]]>>, <<>>, FALSE)
    BY <1>4, <2>1, LinkFresh
  <2>3. new \notin broker'.known
    BY <1>2, <1>3
  <2> QED
    BY <1>1, <1>3, <2>2, <2>3 DEF Link
<1>6. ASSUME NEW q \in Processes \ {p}, worker[q].at # "down"
      PROVE  LET b == worker[q].address IN
             Link(worker'[q], toBroker'[b], toWorker'[b], b \in broker'.known)
  BY <1>1, <1>2, <1>3, <1>6, OwnAddress DEF Links
<1>7. ASSUME NEW q \in Processes
      PROVE  LET b == worker'[q].address IN
             IF worker'[q].at = "down" THEN b = NoAddress
             ELSE Link(worker'[q], toBroker'[b], toWorker'[b], b \in broker'.known)
  BY <1>2, <1>4, <1>5, <1>6 DEF Links
<1>8. ASSUME NEW x \in Workers, \A q \in Processes : worker'[q].address # x
      PROVE  toWorker'[x] = <<>>
  BY <1>1, <1>2, <1>4, <1>8 DEF Links, Open
<1>9. ASSUME NEW q \in Processes, NEW r \in Processes,
             worker'[q].address = worker'[r].address, worker'[q].address # NoAddress
      PROVE  q = r
  BY <1>2, <1>3, <1>4, <1>9 DEF Links
<1> QED
  BY <1>2, <1>7, <1>8, <1>9 DEF Links, Open

LEMMA LeavingKeepsLinks ==
  ASSUME SysInv, Links, NEW p \in Processes, Leaves(p), BrokerRests
  PROVE  Links'
<1> DEFINE a == worker[p].address
<1>1. /\ a \in Workers /\ worker'[p].at = "down" /\ worker'[p].address = NoAddress
      /\ toWorker'[a] = <<>>
      /\ \A x \in Workers \ {a} : toBroker'[x] = toBroker[x] /\ toWorker'[x] = toWorker[x]
      /\ \A q \in Processes \ {p} : worker'[q] = worker[q]
      /\ broker' = broker /\ status' = status
  BY DEF Leaves, Down, BrokerRests, vars
<1>2. ASSUME NEW q \in Processes \ {p}, worker[q].at # "down"
      PROVE  LET b == worker[q].address IN
             Link(worker'[q], toBroker'[b], toWorker'[b], b \in broker'.known)
  BY <1>1, <1>2, OwnAddress DEF Links
<1>3. ASSUME NEW q \in Processes
      PROVE  LET b == worker'[q].address IN
             IF worker'[q].at = "down" THEN b = NoAddress
             ELSE Link(worker'[q], toBroker'[b], toWorker'[b], b \in broker'.known)
  BY <1>1, <1>2 DEF Links
<1>4. ASSUME NEW x \in Workers, \A q \in Processes : worker'[q].address # x
      PROVE  toWorker'[x] = <<>>
  BY <1>1, <1>4 DEF Links, Open
<1>5. ASSUME NEW q \in Processes, NEW r \in Processes,
             worker'[q].address = worker'[r].address, worker'[q].address # NoAddress
      PROVE  q = r
  BY <1>1, <1>5 DEF Links
<1> QED
  BY <1>1, <1>3, <1>4, <1>5 DEF Links, Open

\* A part of a queue, element by element.
LEMMA PartElements ==
  ASSUME NEW S, NEW q \in Seq(S), NEW n \in Nat
  PROVE  /\ DOMAIN SubSeq(q, n + 1, Len(q)) = 1..(IF n + 1 <= Len(q) THEN Len(q) - n ELSE 0)
         /\ \A i \in DOMAIN SubSeq(q, n + 1, Len(q)) : SubSeq(q, n + 1, Len(q))[i] = q[n + i]
<1>1. ASSUME NEW m \in Nat \ {0}, NEW l \in Int, l <= Len(q)
      PROVE  /\ DOMAIN SubSeq(q, m, l) = 1..(IF m <= l THEN l - m + 1 ELSE 0)
             /\ \A i \in DOMAIN SubSeq(q, m, l) : SubSeq(q, m, l)[i] = q[m + i - 1]
  BY <1>1
<1> DEFINE u == SubSeq(q, n + 1, Len(q))
<1>2. Len(q) \in Nat /\ n + 1 \in Nat \ {0}
  BY LenProperties
<1>3. /\ DOMAIN u = 1..(IF n + 1 <= Len(q) THEN Len(q) - (n + 1) + 1 ELSE 0)
      /\ \A i \in DOMAIN u : u[i] = q[n + 1 + i - 1]
  BY <1>1, <1>2
<1> HIDE DEF u
<1>4. \A i \in DOMAIN u : i \in Int /\ n + 1 + i - 1 = n + i
  BY <1>2, <1>3
<1>5. DOMAIN u = 1..(IF n + 1 <= Len(q) THEN Len(q) - n ELSE 0)
  BY <1>2, <1>3
<1> QED
  BY <1>3, <1>4, <1>5 DEF u

\* What a connection loses with the broker.
LEMMA LinkCut ==
  ASSUME NEW w, NEW up \in Seq(ToBroker), NEW n \in Nat, NEW down \in Seq(ToWorker),
         NEW k \in Nat, NEW known, Link(w, up, down, known)
  PROVE  Link(w, SubSeq(up, n + 1, Len(up)), SubSeq(down, 1, Len(down) - k), FALSE)
<1> DEFINE u == SubSeq(up, n + 1, Len(up))
           d == SubSeq(down, 1, Len(down) - k)
<1>1. Len(up) \in Nat /\ DOMAIN up = 1..Len(up) /\ Len(down) \in Nat
  BY LenProperties
<1>2. /\ DOMAIN u = 1..(IF n + 1 <= Len(up) THEN Len(up) - n ELSE 0)
      /\ \A i \in DOMAIN u : u[i] = up[n + i]
  BY <1>1, PartElements
<1>3. \A M : (Has(u, M) => Has(up, M)) /\ (Has(d, M) => Has(down, M))
  BY <1>1, HasPart
<1> HIDE DEF u, d
<1>4. ASSUME NEW i \in DOMAIN u, u[i].kind = "READY" PROVE i = 1
  <2>1. n + i \in DOMAIN up /\ up[n + i].kind = "READY" /\ i \in Nat /\ i >= 1
    BY <1>1, <1>2, <1>4
  <2>2. n + i = 1
    BY <2>1 DEF Link
  <2> QED
    BY <2>1, <2>2
<1>5. Link(w, u, d, FALSE)
  BY <1>3, <1>4 DEF Link
<1> QED
  BY <1>5 DEF u, d

LEMMA StopKeepsLinks ==
  ASSUME SysInv, Links, StopBroker
  PROVE  Links'
<1>1. PICK n \in 0..MaxLost :
        toBroker' = [a \in Workers |->
            IF Open(a) THEN SubSeq(toBroker[a], n + 1, Len(toBroker[a])) ELSE <<>>]
  BY DEF StopBroker
<1>2. PICK k \in 0..MaxLost :
        toWorker' = [a \in Workers |-> SubSeq(toWorker[a], 1, Len(toWorker[a]) - k)]
  BY DEF StopBroker
<1>3. /\ n \in Nat /\ k \in Nat
      /\ toBroker \in [Workers -> Seq(ToBroker)] /\ toWorker \in [Workers -> Seq(ToWorker)]
      /\ worker' = worker /\ broker'.known = {}
  BY FaultsAssumption DEF SysInv, ChannelsOK, StopBroker, Shutdown, NewBroker
<1>4. ASSUME NEW p \in Processes, worker[p].at # "down"
      PROVE  LET a == worker[p].address IN
             Link(worker[p], toBroker'[a], toWorker'[a], a \in broker'.known)
  <2> DEFINE a == worker[p].address
  <2>1. a \in Workers /\ Open(a) /\ Link(worker[p], toBroker[a], toWorker[a], a \in broker.known)
    BY <1>4, Home DEF Links, Open
  <2>2. Link(worker[p], SubSeq(toBroker[a], n + 1, Len(toBroker[a])),
             SubSeq(toWorker[a], 1, Len(toWorker[a]) - k), FALSE)
    BY <1>3, <2>1, LinkCut
  <2>3. a \notin broker'.known
    BY <1>3
  <2> QED
    BY <1>1, <1>2, <2>1, <2>2, <2>3 DEF Link
<1>5. ASSUME NEW a \in Workers, ~Open(a) PROVE toWorker'[a] = <<>>
  <2>1. toWorker[a] = <<>>
    BY <1>5 DEF Links
  <2>2. toWorker'[a] = SubSeq(<<>>, 1, 0 - k)
    BY <1>2, <2>1
  <2> QED
    BY <1>3, <2>2
<1> QED
  BY <1>3, <1>4, <1>5 DEF Links, Open

\* What time does.
Aged(w, v) ==
  /\ v.at = w.at /\ v.address = w.address /\ v.liveness = w.liveness
  /\ v.request = w.request /\ v.timer = Less(w.timer, 0)
  /\ w.at # "down" => v.heartbeatIn = Less(w.heartbeatIn, -1)

Ages ==
  /\ \A p \in Processes : Aged(worker[p], worker'[p])
  /\ UNCHANGED <<network, outcome, history, faults, steady, status>>
  /\ broker'.known = broker.known /\ broker'.requests = broker.requests
  /\ status = "up" =>
       /\ heartbeatIn >= 0 /\ heartbeatIn' = heartbeatIn - 1
       /\ \A a \in Workers : /\ toBroker[a] = <<>>
                             /\ broker'.expiry[a] = Less(broker.expiry[a], 0)
  /\ steady => \A p \in Processes :
       /\ worker[p].at # "busy"
       /\ worker[p].at = "recv" => toWorker[worker[p].address] = <<>> /\ worker[p].timer > 0
       /\ worker[p].at = "asleep" => worker[p].timer > 0

LEMMA TimeEffect ==
  ASSUME SysInv, TimePasses
  PROVE  Ages
<1>1. ASSUME NEW p \in Processes PROVE Aged(worker[p], worker'[p])
  <2> DEFINE w == worker[p]
  <2>1. w \in WorkerType /\ worker'[p] = [w EXCEPT
       !.timer = Less(@, 0), !.heartbeatIn = IF w.at = "down" THEN 0 ELSE Less(@, -1)]
    BY DEF SysInv, ProgramsOK, TimePasses
  <2> HIDE DEF w
  <2>2. Aged(w, worker'[p])
    BY <2>1 DEF Aged, WorkerType
  <2> QED
    BY <2>2 DEF w
<1>2. /\ broker \in BrokerType /\ broker.expiry \in [Workers -> 0..EXPIRY]
      /\ heartbeatIn \in -1..INTERVAL
  BY BaseFacts DEF SysInv, IInv, Good, TypeOK
<1>3. UNCHANGED <<network, outcome, history, faults, steady>> /\ status' = status
  BY DEF TimePasses, Tick, BrokerRests, vars
<1>4. ASSUME status = "up"
      PROVE  /\ broker'.known = broker.known /\ broker'.requests = broker.requests
             /\ heartbeatIn >= 0 /\ heartbeatIn' = heartbeatIn - 1
             /\ \A a \in Workers : /\ toBroker[a] = <<>>
                                   /\ broker'.expiry[a] = Less(broker.expiry[a], 0)
  <2>1. heartbeatIn >= 0 /\ \A a \in Workers : toBroker[a] = <<>>
    BY <1>4 DEF TimePasses, UpToDate
  <2>2. /\ broker' = [broker EXCEPT !.expiry =
              [w \in Workers |-> IF @[w] > 0 THEN @[w] - 1 ELSE 0]]
        /\ heartbeatIn' = IF heartbeatIn >= 0 THEN heartbeatIn - 1 ELSE -1
    BY <1>4 DEF TimePasses, Tick
  <2>3. /\ broker'.known = broker.known /\ broker'.requests = broker.requests
        /\ broker'.expiry =
              [w \in Workers |-> IF broker.expiry[w] > 0 THEN broker.expiry[w] - 1 ELSE 0]
    BY <1>2, <2>2 DEF BrokerType
  <2>4. \A a \in Workers : broker'.expiry[a] = Less(broker.expiry[a], 0)
    BY <1>2, <2>3 DEF Less
  <2> QED
    BY <2>1, <2>2, <2>3, <2>4
<1>5. status # "up" => broker' = broker
  BY DEF TimePasses, BrokerRests, vars
<1>6. ASSUME steady, NEW p \in Processes
      PROVE  /\ worker[p].at # "busy"
             /\ worker[p].at = "recv" => toWorker[worker[p].address] = <<>> /\ worker[p].timer > 0
             /\ worker[p].at = "asleep" => worker[p].timer > 0
  BY <1>6 DEF TimePasses, UpToDate, Inbox
<1>7. broker'.known = broker.known /\ broker'.requests = broker.requests
  BY <1>4, <1>5
<1> QED
  BY <1>1, <1>3, <1>4, <1>6, <1>7 DEF Ages

LEMMA TimeKeepsLinks ==
  ASSUME SysInv, Links, Ages
  PROVE  Links'
<1>1. /\ toBroker' = toBroker /\ toWorker' = toWorker /\ broker'.known = broker.known
      /\ status' = status
      /\ \A p \in Processes : /\ worker'[p].address = worker[p].address
                              /\ worker'[p].at = worker[p].at
  BY DEF Ages, Aged, network
<1>2. ASSUME NEW p \in Processes, NEW up, NEW down, NEW known, Link(worker[p], up, down, known)
      PROVE  Link(worker'[p], up, down, known)
  <2>1. worker[p].timer \in Nat /\ worker'[p].timer <= worker[p].timer
        /\ worker'[p].at = worker[p].at /\ worker'[p].liveness = worker[p].liveness
        /\ worker'[p].timer \in Nat
    BY CompositionAssumption, NumbersAssumption
       DEF SysInv, ProgramsOK, WorkerType, Ages, Aged, Less
  <2> QED
    BY <1>2, <2>1, CompositionAssumption, NumbersAssumption DEF Link
<1>3. ASSUME NEW p \in Processes
      PROVE  LET a == worker[p].address IN
             IF worker[p].at = "down" THEN a = NoAddress
             ELSE Link(worker'[p], toBroker[a], toWorker[a], a \in broker.known)
  BY <1>2 DEF Links
<1>4. \A a \in Workers : (~Open(a))' => toWorker[a] = <<>>
  BY <1>1 DEF Links, Open
<1> QED
  BY <1>1, <1>3, <1>4 DEF Links, Open

LEMMA LinksInductive ==
  ASSUME SysInv, SysInv', [SystemNext]_all, Links
  PROVE  Links'
<1>1. CASE BrokerIterates
  BY <1>1, BrokerKeepsLinks DEF SysInv
<1>2. CASE StopBroker
  BY <1>2, StopKeepsLinks
<1>3. CASE StartBroker
  BY <1>3 DEF StartBroker, Start, network, Links, Open
<1>4. ASSUME NEW p \in Processes, WorkerRuns(p) PROVE Links'
  <2>1. BrokerRests
    BY <1>4 DEF WorkerRuns
  <2> QED
    BY <1>4, <2>1, WorkerEffect, ConnectionKeepsLinks, ReconnectKeepsLinks
<1>5. ASSUME NEW p \in Processes, WorkerEnds(p) PROVE Links'
  <2>1. BrokerRests
    BY <1>5 DEF WorkerEnds
  <2> QED
    BY <1>5, <2>1, EndEffect, LeavingKeepsLinks
<1>6. CASE TimePasses
  BY <1>6, TimeEffect, TimeKeepsLinks
<1>7. CASE UNCHANGED all \/ \E k \in Commands : ClientRuns(k)
  BY <1>7 DEF all, ClientRuns, BrokerRests, vars, network, Links, Open
<1> QED
  BY <1>1, <1>2, <1>3, <1>4, <1>5, <1>6, <1>7 DEF SystemNext, BrokerRuns, BrokerIterates

LEMMA LinksInitially ==
  ASSUME SystemInit
  PROVE  Links
<1>1. /\ \A p \in Processes : worker[p].at = "down" /\ worker[p].address = NoAddress
      /\ \A a \in Workers : toWorker[a] = <<>>
      /\ broker.known = {}
  BY DEF SystemInit, Init, NewBroker, Down
<1> QED
  BY <1>1 DEF Links

-----------------------------------------------------------------------------
(* The worker and the broker stay in touch *)

\* How long the worker waits for the broker: it starts with EXPIRY, and a poll that
\* times out takes nothing away that the timer has not.
LEMMA Waits0 ==
  /\ INTERVAL \in Nat /\ INTERVAL > 0 /\ LIVENESS \in Nat /\ LIVENESS > 0
  /\ EXPIRY \in Nat /\ (LIVENESS - 1) * INTERVAL + INTERVAL = EXPIRY
  /\ \A l \in Int : /\ (l - 1) * INTERVAL \in Int
                    /\ (l - 1 - 1) * INTERVAL + INTERVAL = (l - 1) * INTERVAL
  /\ (1 - 1) * INTERVAL + 0 = 0
<1>1. INTERVAL \in Nat /\ INTERVAL > 0 /\ LIVENESS \in Nat /\ LIVENESS > 0
  BY NumbersAssumption
<1>2. \A i, l \in Int : /\ (l - 1) * i \in Int /\ (l - 1) * i + i = i * l
                        /\ (l - 1 - 1) * i + i = (l - 1) * i
                        /\ (1 - 1) * i + 0 = 0
  OBVIOUS
<1> QED
  BY <1>1, <1>2, NumbersFacts DEF EXPIRY

\* The worker that has a message from the broker, or has just reported, has all of
\* its patience left.
LEMMA LeftFacts ==
  /\ \A w : w.liveness = LIVENESS /\ w.timer = INTERVAL => Left(w) = EXPIRY
  /\ \A w, v : /\ w.liveness \in Int /\ w.timer = 0
               /\ v.liveness = w.liveness - 1 /\ v.timer = INTERVAL
               => Left(v) = Left(w)
  /\ \A w : w.liveness = 1 /\ w.timer = 0 => Left(w) = 0
  /\ \A w, v : /\ w.liveness \in Int /\ w.timer \in Int /\ v.timer = w.timer - 1
               /\ v.liveness = w.liveness
               => Left(w) \in Int /\ Left(v) = Left(w) - 1
<1>1. ASSUME NEW w, NEW v, w.liveness \in Int, w.timer = 0,
             v.liveness = w.liveness - 1, v.timer = INTERVAL
      PROVE  Left(v) = Left(w)
  <2> DEFINE l == w.liveness
             x == (l - 1) * INTERVAL
  <2>1. x \in Int /\ (l - 1 - 1) * INTERVAL + INTERVAL = x
    BY <1>1, Waits0
  <2>2. Left(v) = (l - 1 - 1) * INTERVAL + INTERVAL /\ Left(w) = x + 0
    BY <1>1 DEF Left
  <2> HIDE DEF x
  <2> QED
    BY <2>1, <2>2
<1>2. ASSUME NEW w, NEW v, w.liveness \in Int, w.timer \in Int, v.timer = w.timer - 1,
             v.liveness = w.liveness
      PROVE  Left(w) \in Int /\ Left(v) = Left(w) - 1
  <2> DEFINE x == (w.liveness - 1) * INTERVAL
  <2>1. x \in Int /\ Left(w) = x + w.timer /\ Left(v) = x + (w.timer - 1)
    BY <1>2, Waits0 DEF Left
  <2> HIDE DEF x
  <2> QED
    BY <1>2, <2>1
<1>3. \A w : w.liveness = LIVENESS /\ w.timer = INTERVAL => Left(w) = EXPIRY
  BY Waits0 DEF Left
<1>4. \A w : w.liveness = 1 /\ w.timer = 0 => Left(w) = 0
  BY Waits0 DEF Left
<1> QED
  BY <1>1, <1>2, <1>3, <1>4

\* Whatever the worker does next, its next heartbeat is less than EXPIRY away.
LEMMA SilentShort ==
  ASSUME WorkersAreHeard, NEW w \in WorkerType, NEW up, NEW down, NEW known,
         Link(w, up, down, known)
  PROVE  Silent(w) \in Nat /\ Silent(w) < EXPIRY
BY NumbersAssumption, CompositionAssumption, Waits0 DEF Silent, WorkersAreHeard, Link, WorkerType

LEMMA HearsTurned ==
  ASSUME WorkersAreHeard, NEW w \in WorkerType, NEW v, NEW up, NEW up2, NEW down, NEW down2,
         NEW known, Link(w, up, down, known),
         Turned(w, v, up, up2, down, down2) \/ Took(w, v, up, up2, down, down2)
  PROVE  \A expiry \in Nat, due \in -1..INTERVAL :
           Hears(w, down, expiry, due) => Hears(v, down2, expiry, due)
<1> SUFFICES ASSUME NEW expiry \in Nat, NEW due \in -1..INTERVAL, Hears(w, down, expiry, due)
             PROVE  Hears(v, down2, expiry, due)
  OBVIOUS
<1>1. EXPIRY > due + 1
  BY Waits0, CompositionAssumption DEF WorkersAreHeard
<1>2. CASE Heard(w, v, up, up2, down, down2) \/ Reported(w, v, up, up2, down, down2)
  <2>1. v.liveness = LIVENESS /\ v.timer = INTERVAL
    BY <1>2 DEF Heard, Reported, Polled, Link
  <2>2. Left(v) = EXPIRY
    BY <2>1, LeftFacts
  <2> QED
    BY <1>1, <2>2 DEF Hears
<1>3. CASE Waited(w, v, up, up2, down, down2)
  <2>1. /\ w.liveness \in Int /\ w.timer = 0 /\ v.liveness = w.liveness - 1
        /\ v.timer = INTERVAL /\ w.at = "recv" /\ down = <<>>
    BY <1>3 DEF Waited, Polled, WorkerType
  <2>2. Left(v) = Left(w)
    BY <2>1, LeftFacts
  <2> QED
    BY <2>1, <2>2 DEF Hears
<1>4. CASE Took(w, v, up, up2, down, down2) \/ Resigned(w, v, up, up2, down, down2)
  BY <1>4 DEF Took, Resigned, Hears
<1> QED
  BY <1>2, <1>3, <1>4 DEF Turned

LEMMA HeardTurned ==
  ASSUME WorkersAreHeard, NEW w \in WorkerType, NEW v, NEW up \in Seq(ToBroker), NEW up2,
         NEW down, NEW down2, NEW known, Link(w, up, down, known),
         Turned(w, v, up, up2, down, down2)
  PROVE  \A expiry \in Nat, due \in -1..INTERVAL :
           Hears(w, down, expiry, due) /\ IsHeard(w, up, expiry) => IsHeard(v, up2, expiry)
<1> SUFFICES ASSUME NEW expiry \in Nat, NEW due \in -1..INTERVAL,
                    Hears(w, down, expiry, due), IsHeard(w, up, expiry)
             PROVE  IsHeard(v, up2, expiry)
  OBVIOUS
<1>1. INTERVAL \in Nat /\ EXPIRY \in Nat /\ RECONNECT \in Nat /\ w.heartbeatIn \in Int
  BY Waits0, CompositionAssumption DEF WorkerType
<1>2. CASE Heard(w, v, up, up2, down, down2) \/ Waited(w, v, up, up2, down, down2)
  <2>1. /\ w.at = "recv" /\ v.at = "recv" /\ v.timer = INTERVAL
        /\ IF w.heartbeatIn < 0
           THEN v.heartbeatIn = INTERVAL /\ up2 = Append(up, [kind |-> "HEARTBEAT"])
           ELSE v.heartbeatIn = w.heartbeatIn /\ up2 = up
    BY <1>2 DEF Heard, Waited, Polled
  <2>2. CASE w.heartbeatIn < 0
    <3>1. [kind |-> "HEARTBEAT"] \in Said("HEARTBEAT")
      BY DEF Said, ToBroker
    <3>2. PICK m \in Said("HEARTBEAT") : up2 = Append(up, m)
      BY <2>1, <2>2, <3>1
    <3>3. Has(up2, Said("HEARTBEAT"))
      BY <3>2, LongerHas
    <3> QED
      BY <3>3 DEF IsHeard
  <2>3. CASE w.heartbeatIn >= 0
    BY <1>1, <2>1, <2>3 DEF IsHeard, Silent
  <2> QED
    BY <1>1, <2>2, <2>3
<1>3. CASE Resigned(w, v, up, up2, down, down2)
  <2>1. /\ w.at = "recv" /\ w.timer = 0 /\ w.liveness = 1 /\ down = <<>>
        /\ v.at = "asleep" /\ v.timer = RECONNECT
    BY <1>3 DEF Resigned
  <2>2. Left(w) = 0
    BY <2>1, LeftFacts
  <2>3. expiry + INTERVAL >= EXPIRY + due
    BY <2>1, <2>2 DEF Hears
  <2>4. expiry > RECONNECT
    BY <1>1, <2>3 DEF WorkersAreHeard
  <2> QED
    BY <1>1, <2>1, <2>4 DEF IsHeard, Silent
<1>4. CASE Reported(w, v, up, up2, down, down2)
  <2>1. /\ w.at = "busy" /\ v.at = "recv" /\ v.timer = INTERVAL
        /\ v.heartbeatIn = w.heartbeatIn
    BY <1>4 DEF Reported
  <2>2. PICK m \in Results : up2 = Append(up, m)
    BY <1>4 DEF Reported
  <2>3. Has(up, Said("HEARTBEAT")) => Has(up2, Said("HEARTBEAT"))
    BY <2>2, LongerHas
  <2>4. Silent(v) = Silent(w)
    BY <1>1, <2>1 DEF Silent
  <2> QED
    BY <2>3, <2>4 DEF IsHeard
<1> QED
  BY <1>2, <1>3, <1>4 DEF Turned

\* A tick, before which the worker has nothing left to read and neither has the
\* broker.
LEMMA TouchAged ==
  ASSUME NEW w \in WorkerType, NEW v, Aged(w, v), NEW up, up = <<>>, NEW down, NEW known,
         Link(w, up, down, known),
         NEW expiry \in Nat, NEW due \in 0..INTERVAL,
         w.at \in {"recv", "asleep"}, w.timer > 0
  PROVE  /\ Hears(w, down, expiry, due) => Hears(v, down, Less(expiry, 0), due - 1)
         /\ IsHeard(w, up, expiry) => IsHeard(v, up, Less(expiry, 0))
<1>1. /\ INTERVAL \in Nat /\ EXPIRY \in Nat /\ w.heartbeatIn \in -1..INTERVAL
      /\ w.timer \in Nat /\ w.liveness \in Int
      /\ v.at = w.at /\ v.liveness = w.liveness /\ v.timer = w.timer - 1
      /\ v.heartbeatIn = Less(w.heartbeatIn, -1)
      /\ w.at = "recv" => w.timer <= INTERVAL
  BY Waits0, CompositionAssumption, NumbersAssumption DEF WorkerType, Aged, Less, Link
<1>2. ASSUME Hears(w, down, expiry, due) PROVE Hears(v, down, Less(expiry, 0), due - 1)
  <2>1. Left(w) \in Int /\ Left(v) = Left(w) - 1
    BY <1>1, LeftFacts
  <2> QED
    BY <1>1, <1>2, <2>1 DEF Hears, Less
<1>3. ASSUME IsHeard(w, up, expiry) PROVE IsHeard(v, up, Less(expiry, 0))
  <2>1. \A M : ~Has(up, M)
    BY DEF Has
  <2>2. expiry > Silent(w)
    BY <1>3, <2>1 DEF IsHeard
  <2>3. Silent(v) \in Nat /\ Silent(w) >= Silent(v) + 1
    BY <1>1, SMTT(40) DEF Silent, Less
  <2>4. Less(expiry, 0) > Silent(v)
    BY <2>2, <2>3, <1>1, SMTT(40) DEF Less, Silent
  <2> QED
    BY <2>3, <2>4 DEF IsHeard, Less
<1> QED
  BY <1>2, <1>3

\* What an iteration of the broker does to the two clocks of a worker that it
\* leaves in its tables.
LEMMA HearsIterated ==
  ASSUME NEW w, NEW down, NEW down2, NEW expiry \in Nat, NEW expiry2 \in Nat,
         NEW due \in -1..INTERVAL, NEW due2 \in -1..INTERVAL,
         down2 = <<>> => down = <<>> /\ due2 = due,
         expiry2 = EXPIRY \/ (expiry2 = expiry /\ Hears(w, down, expiry, due))
  PROVE  Hears(w, down2, expiry2, due2)
BY Waits0 DEF Hears

LEMMA TouchIterated ==
  ASSUME WorkersAreHeard, SysInv, SysInv', Links, InTouch, BrokerIterates
  PROVE  InTouch'
<1>1. PICK senders \in SUBSET Workers : HandlesOf(senders)
  BY SomeIteration
<1>2. Delivered /\ worker' = worker /\ Iterated(senders) /\ steady' = steady
  BY <1>1 DEF BrokerIterates, BrokerHeartbeat, HandleClient, HandleWorker, HandlesOf
<1>3. /\ heartbeatIn \in -1..INTERVAL /\ heartbeatIn' \in -1..INTERVAL
      /\ heartbeatIn' = IF heartbeatIn < 0 THEN INTERVAL ELSE heartbeatIn
      /\ broker.expiry \in [Workers -> Nat] /\ broker'.expiry \in [Workers -> Nat]
      /\ broker'.known \in SUBSET Workers
  <2>1. /\ broker.expiry \in [Workers -> 0..EXPIRY] /\ broker'.expiry \in [Workers -> 0..EXPIRY]
        /\ broker'.known \in SUBSET Workers
    BY BaseFacts DEF SysInv, IInv, Good
  <2>2. 0..EXPIRY \subseteq Nat
    BY Waits0
  <2> QED
    BY <1>2, <2>1, <2>2 DEF SysInv, IInv, TypeOK, Iterated
<1> SUFFICES ASSUME steady, NEW p \in Processes, worker[p].address \in broker'.known
             PROVE  LET a == worker[p].address IN
                    /\ Hears(worker[p], toWorker'[a], broker'.expiry[a], heartbeatIn')
                    /\ p \notin served' => IsHeard(worker[p], toBroker'[a], broker'.expiry[a])
  BY <1>2 DEF InTouch
<1> DEFINE a == worker[p].address
           up == toBroker[a]
           down == toWorker[a]
<1>4. worker[p].at # "down"
  BY <1>3, CompositionAssumption DEF Links
<1>5. /\ a \in Workers /\ Open(a) /\ worker[p] \in WorkerType /\ up \in Seq(ToBroker)
      /\ Link(worker[p], up, down, a \in broker.known)
  BY <1>4, Home DEF Links, Open
<1>6. toWorker'[a] = <<>> => down = <<>> /\ heartbeatIn' = heartbeatIn
  <2>1. IInv'
    BY DEF SysInv
  <2>2. toWorker'[a] = <<>> => toWorker[a] = <<>> /\ (a \in broker'.known => heartbeatIn >= 0)
    BY <1>2, <1>5, <2>1, WorkersHear
  <2> QED
    BY <1>3, <2>2
<1>7. ASSUME broker'.expiry[a] = EXPIRY
      PROVE  /\ Hears(worker[p], toWorker'[a], broker'.expiry[a], heartbeatIn')
             /\ IsHeard(worker[p], toBroker'[a], broker'.expiry[a])
  <2>1. Silent(worker[p]) \in Nat /\ Silent(worker[p]) < EXPIRY
    BY <1>5, SilentShort
  <2>2. IsHeard(worker[p], toBroker'[a], broker'.expiry[a])
    BY <1>7, <2>1, Waits0 DEF IsHeard
  <2> QED
    BY <1>3, <1>5, <1>6, <1>7, <2>2, HearsIterated
<1>8. ASSUME a \in broker.known, broker'.expiry[a] = broker.expiry[a],
             p \in served => p \in served', 
             Has(toBroker'[a], Said("HEARTBEAT")) <=> Has(up, Said("HEARTBEAT"))
      PROVE  /\ Hears(worker[p], toWorker'[a], broker'.expiry[a], heartbeatIn')
             /\ p \notin served' => IsHeard(worker[p], toBroker'[a], broker'.expiry[a])
  <2>1. /\ Hears(worker[p], down, broker.expiry[a], heartbeatIn)
        /\ p \notin served => IsHeard(worker[p], up, broker.expiry[a])
    BY <1>8 DEF InTouch
  <2>2. p \notin served' => IsHeard(worker[p], toBroker'[a], broker'.expiry[a])
    BY <1>8, <2>1 DEF IsHeard
  <2> QED
    BY <1>3, <1>5, <1>6, <1>8, <2>1, <2>2, HearsIterated
<1>9. CASE a \notin senders
  <2>1. /\ a \in broker.known /\ broker'.expiry[a] = broker.expiry[a]
        /\ toBroker'[a] = up /\ (p \in served => p \in served')
    BY <1>1, <1>2, <1>5, <1>9 DEF Iterated, HandlesOf
  <2> QED
    BY <1>8, <2>1
<1>10. CASE a \in senders
  <2>1. /\ up # <<>> /\ toBroker'[a] = Tail(up) /\ Handled(a, Head(up).kind)
        /\ Head(up) \in ToBroker /\ (Head(up).kind # "HEARTBEAT" => (p \in served => p \in served'))
    BY <1>1, <1>5, <1>10, HeadTailProperties DEF HandlesOf
  <2>2. \A M : Head(up) \in M => Has(up, M)
    BY <1>5, <2>1, HasTail
  <2>3. Head(up).kind \in {"READY", "HEARTBEAT", "REPORT"}
    <3>1. Head(up).kind \in {"READY", "HEARTBEAT", "REPORT", "DISCONNECT"}
      BY <2>1 DEF ToBroker
    <3>2. Head(up) \notin Said("DISCONNECT")
      BY <1>5, <2>2 DEF Link
    <3> QED
      BY <2>1, <3>1, <3>2 DEF Said
  <2>4. CASE Head(up).kind \in {"READY", "HEARTBEAT"}
    <3>1. broker'.expiry[a] = EXPIRY
      BY <2>1, <2>4 DEF Handled
    <3> QED
      BY <1>7, <3>1
  <2>5. CASE Head(up).kind = "REPORT"
    <3>1. a \in broker.known /\ broker'.expiry[a] = broker.expiry[a]
      BY <2>1, <2>5 DEF Handled
    <3>2. Has(Tail(up), Said("HEARTBEAT")) <=> Has(up, Said("HEARTBEAT"))
      <4>1. Head(up) \notin Said("HEARTBEAT")
        BY <2>5 DEF Said
      <4> QED
        BY <1>5, <2>1, <4>1, RestHas
    <3> QED
      BY <1>8, <2>1, <2>5, <3>1, <3>2
  <2> QED
    BY <2>3, <2>4, <2>5
<1> QED
  BY <1>9, <1>10

\* A step of one worker, whose record and queues alone it changes.
LEMMA TouchKept ==
  ASSUME WorkersAreHeard, SysInv, Links, InTouch, NEW p \in Processes, KeepsConnection(p),
         BrokerRests, steady' = steady
  PROVE  InTouch'
<1> SUFFICES ASSUME steady, NEW q \in Processes, worker'[q].address \in broker'.known
             PROVE  LET a == worker'[q].address IN
                    /\ Hears(worker'[q], toWorker'[a], broker'.expiry[a], heartbeatIn')
                    /\ q \notin served' => IsHeard(worker'[q], toBroker'[a], broker'.expiry[a])
  BY DEF InTouch
<1> DEFINE a == worker[p].address
<1>1. /\ a \in Workers /\ worker'[p].address = a
      /\ \/ /\ Turned(worker[p], worker'[p], toBroker[a], toBroker'[a], toWorker[a], toWorker'[a])
            /\ served' = served
         \/ /\ Took(worker[p], worker'[p], toBroker[a], toBroker'[a], toWorker[a], toWorker'[a])
            /\ served' = served \cup {p}
      /\ \A x \in Workers \ {a} : toBroker'[x] = toBroker[x] /\ toWorker'[x] = toWorker[x]
      /\ \A r \in Processes \ {p} : worker'[r] = worker[r]
      /\ broker' = broker /\ heartbeatIn' = heartbeatIn
  BY DEF KeepsConnection, BrokerRests, vars
<1>2. /\ heartbeatIn \in -1..INTERVAL /\ broker.expiry \in [Workers -> Nat]
      /\ broker.known \in SUBSET Workers
  <2>1. broker.expiry \in [Workers -> 0..EXPIRY] /\ broker.known \in SUBSET Workers
    BY BaseFacts DEF SysInv, IInv, Good
  <2>2. 0..EXPIRY \subseteq Nat
    BY Waits0
  <2> QED
    BY <2>1, <2>2 DEF SysInv, IInv, TypeOK
<1>3. worker[q].address = worker'[q].address
  BY <1>1
<1>4. worker[q].at # "down"
  BY <1>1, <1>2, <1>3, CompositionAssumption DEF Links
<1>5. CASE q = p
  <2> DEFINE e == broker.expiry[a]
  <2>1. /\ worker[p] \in WorkerType /\ toBroker[a] \in Seq(ToBroker)
        /\ Link(worker[p], toBroker[a], toWorker[a], a \in broker.known)
    BY <1>1, <1>3, <1>4, <1>5, Home DEF Links
  <2>2. /\ Hears(worker[p], toWorker[a], e, heartbeatIn)
        /\ p \notin served => IsHeard(worker[p], toBroker[a], e)
    BY <1>1, <1>3, <1>5 DEF InTouch
  <2>3. e \in Nat
    BY <1>1, <1>2
  <2> HIDE DEF e
  <2>4. Hears(worker'[p], toWorker'[a], e, heartbeatIn)
    <3>1. \/ Turned(worker[p], worker'[p], toBroker[a], toBroker'[a], toWorker[a], toWorker'[a])
          \/ Took(worker[p], worker'[p], toBroker[a], toBroker'[a], toWorker[a], toWorker'[a])
      BY <1>1
    <3>2. \A expiry \in Nat, due \in -1..INTERVAL :
            Hears(worker[p], toWorker[a], expiry, due) =>
              Hears(worker'[p], toWorker'[a], expiry, due)
      BY <2>1, <3>1, HearsTurned
    <3> QED
      BY <1>2, <2>2, <2>3, <3>2
  <2>5. ASSUME p \notin served'
        PROVE  IsHeard(worker'[p], toBroker'[a], e)
    <3>1. /\ Turned(worker[p], worker'[p], toBroker[a], toBroker'[a], toWorker[a], toWorker'[a])
          /\ IsHeard(worker[p], toBroker[a], e)
      BY <1>1, <2>2, <2>5
    <3>2. \A expiry \in Nat, due \in -1..INTERVAL :
            Hears(worker[p], toWorker[a], expiry, due) /\ IsHeard(worker[p], toBroker[a], expiry)
              => IsHeard(worker'[p], toBroker'[a], expiry)
      BY <2>1, <3>1, HeardTurned
    <3> QED
      BY <1>2, <2>2, <2>3, <3>1, <3>2
  <2> QED
    BY <1>1, <1>5, <2>4, <2>5 DEF e
<1>6. CASE q # p
  <2> DEFINE b == worker[q].address
  <2>1. b \in Workers /\ b # a
    BY <1>4, <1>6, OwnAddress
  <2>2. /\ Hears(worker[q], toWorker[b], broker.expiry[b], heartbeatIn)
        /\ q \notin served => IsHeard(worker[q], toBroker[b], broker.expiry[b])
    BY <1>1, <1>3 DEF InTouch
  <2> QED
    BY <1>1, <1>3, <1>6, <2>1, <2>2
<1> QED
  BY <1>5, <1>6

\* Where p reconnects or ends, and what the broker knows of the others.
LEMMA TouchElsewhere ==
  ASSUME SysInv, Links, InTouch, NEW p \in Processes, Reconnects(p) \/ Leaves(p),
         BrokerRests, steady' = steady
  PROVE  InTouch'
<1> SUFFICES ASSUME steady, NEW q \in Processes, worker'[q].address \in broker'.known
             PROVE  LET a == worker'[q].address IN
                    /\ Hears(worker'[q], toWorker'[a], broker'.expiry[a], heartbeatIn')
                    /\ q \notin served' => IsHeard(worker'[q], toBroker'[a], broker'.expiry[a])
  BY DEF InTouch
<1> DEFINE b == worker'[q].address
<1>1. /\ \A r \in Processes \ {p} : worker'[r] = worker[r]
      /\ broker' = broker /\ heartbeatIn' = heartbeatIn /\ served' = served
      /\ broker.known \in SUBSET Workers
  BY BaseFacts DEF Reconnects, Leaves, BrokerRests, vars, SysInv, IInv, Good
<1>2. b \in broker.known /\ b \in Workers
  BY <1>1
<1>3. worker'[p].address \notin broker.known
  <2>1. CASE Reconnects(p)
    <3>1. PICK new \in Unused : worker'[p] =
            [at |-> "recv", address |-> new, liveness |-> LIVENESS,
             timer |-> INTERVAL, heartbeatIn |-> INTERVAL, request |-> Idle]
      BY <2>1 DEF Reconnects
    <3> QED
      BY <3>1 DEF Unused
  <2>2. CASE Leaves(p)
    <3>1. worker'[p].address = NoAddress
      BY <2>2 DEF Leaves, Down
    <3> QED
      BY <1>1, <3>1, CompositionAssumption
  <2> QED
    BY <2>1, <2>2
<1>4. q # p
  BY <1>2, <1>3
<1>5. worker'[q] = worker[q]
  BY <1>1, <1>4
<1>6. worker[q].at # "down"
  BY <1>2, <1>5, CompositionAssumption DEF Links
<1>7. b # worker[p].address /\ Open(b)
  BY <1>4, <1>5, <1>6, OwnAddress DEF Open
<1>8. toBroker'[b] = toBroker[b] /\ toWorker'[b] = toWorker[b]
  <2>1. CASE Reconnects(p)
    <3>1. PICK new \in Unused : \A x \in Workers \ {new} :
             /\ toBroker'[x] # toBroker[x] => x = worker[p].address /\ toBroker'[x] = <<>>
             /\ toWorker'[x] = IF x = worker[p].address THEN <<>> ELSE toWorker[x]
      BY <2>1 DEF Reconnects
    <3>2. b # new
      BY <1>2, <3>1 DEF Unused
    <3> QED
      BY <1>2, <1>7, <3>1, <3>2
  <2>2. CASE Leaves(p)
    BY <1>2, <1>7, <2>2 DEF Leaves
  <2> QED
    BY <2>1, <2>2
<1> QED
  BY <1>1, <1>2, <1>5, <1>8 DEF InTouch

LEMMA TouchTime ==
  ASSUME SysInv, Links, InTouch, Ages
  PROVE  InTouch'
<1> SUFFICES ASSUME steady, NEW p \in Processes, worker'[p].address \in broker'.known
             PROVE  LET a == worker'[p].address IN
                    /\ Hears(worker'[p], toWorker'[a], broker'.expiry[a], heartbeatIn')
                    /\ p \notin served' => IsHeard(worker'[p], toBroker'[a], broker'.expiry[a])
  BY DEF InTouch, Ages
<1> DEFINE a == worker[p].address
           e == broker.expiry[a]
<1>1. /\ worker'[p].address = a /\ broker'.known = broker.known /\ Aged(worker[p], worker'[p])
      /\ toBroker' = toBroker /\ toWorker' = toWorker /\ served' = served
  BY DEF Ages, Aged, network, history
<1>2. a \in broker.known /\ status = "up" /\ broker.known \in SUBSET Workers
  BY <1>1, BaseFacts DEF Links, SysInv, IInv, Good
<1>3. worker[p].at # "down"
  BY <1>2, CompositionAssumption DEF Links
<1>4. /\ a \in Workers /\ worker[p] \in WorkerType
      /\ Link(worker[p], toBroker[a], toWorker[a], a \in broker.known)
      /\ worker[p].at \in {"recv", "busy", "asleep", "down"}
  BY <1>3, Home DEF Links, WorkerType
<1>5. /\ worker[p].at \in {"recv", "asleep"} /\ worker[p].timer > 0
      /\ toBroker[a] = <<>> /\ broker'.expiry[a] = Less(e, 0)
      /\ heartbeatIn >= 0 /\ heartbeatIn' = heartbeatIn - 1
  BY <1>2, <1>3, <1>4 DEF Ages
<1>6. e \in Nat /\ heartbeatIn \in 0..INTERVAL
  <2>1. broker.expiry \in [Workers -> 0..EXPIRY] /\ heartbeatIn \in -1..INTERVAL
    BY BaseFacts DEF SysInv, IInv, Good, TypeOK
  <2> QED
    BY <1>4, <1>5, <2>1, Waits0
<1>7. /\ Hears(worker[p], toWorker[a], e, heartbeatIn)
      /\ p \notin served => IsHeard(worker[p], toBroker[a], e)
  BY <1>2 DEF InTouch
<1> HIDE DEF e
<1>8. /\ Hears(worker[p], toWorker[a], e, heartbeatIn) =>
           Hears(worker'[p], toWorker[a], Less(e, 0), heartbeatIn - 1)
      /\ IsHeard(worker[p], toBroker[a], e) => IsHeard(worker'[p], toBroker[a], Less(e, 0))
  BY <1>1, <1>4, <1>5, <1>6, TouchAged
<1> QED
  BY <1>1, <1>5, <1>7, <1>8

LEMMA InTouchInductive ==
  ASSUME WorkersAreHeard, SysInv, SysInv', [SystemNext]_all, Links, InTouch
  PROVE  InTouch'
<1>1. CASE BrokerIterates
  BY <1>1, TouchIterated
<1>2. CASE StopBroker
  BY <1>2 DEF StopBroker, Shutdown, NewBroker, InTouch
<1>3. CASE StartBroker
  <2>1. broker'.known = {}
    BY <1>3 DEF StartBroker, Start, Links
  <2> QED
    BY <2>1 DEF InTouch
<1>4. ASSUME NEW p \in Processes, WorkerRuns(p) PROVE InTouch'
  <2>1. BrokerRests /\ steady' = steady
    BY <1>4 DEF WorkerRuns
  <2> QED
    BY <1>4, <2>1, WorkerEffect, TouchKept, TouchElsewhere
<1>5. ASSUME NEW p \in Processes, WorkerEnds(p) PROVE InTouch'
  <2>1. BrokerRests /\ steady' = steady
    BY <1>5 DEF WorkerEnds
  <2> QED
    BY <1>5, <2>1, EndEffect, TouchElsewhere
<1>6. CASE TimePasses
  BY <1>6, TimeEffect, TouchTime
<1>7. CASE UNCHANGED all \/ \E k \in Commands : ClientRuns(k)
  BY <1>7 DEF all, ClientRuns, BrokerRests, vars, network, history, InTouch
<1> QED
  BY <1>1, <1>2, <1>3, <1>4, <1>5, <1>6, <1>7 DEF SystemNext, BrokerRuns, BrokerIterates

LEMMA TouchInitially ==
  ASSUME SystemInit
  PROVE  InTouch
BY DEF SystemInit, Init, NewBroker, InTouch

\* Whom the broker drops although the connection is still there.
LEMMA NobodyPurged ==
  ASSUME SysInv, Links, InTouch, [SystemNext]_all, steady, status' = status,
         NEW p \in Processes \ served, Registered(p), worker'[p].address = worker[p].address
  PROVE  Registered(p)'
<1> DEFINE a == worker[p].address
           up == toBroker[a]
<1>1. a \in broker.known /\ a \in Workers
  BY BaseFacts DEF Registered, SysInv, IInv, Good
<1>2. worker[p].at # "down"
  BY <1>1, CompositionAssumption DEF Links
<1>3. /\ Link(worker[p], up, toWorker[a], a \in broker.known) /\ up \in Seq(ToBroker)
      /\ IsHeard(worker[p], up, broker.expiry[a])
  BY <1>1, <1>2, Home DEF Links, InTouch
<1>4. CASE BrokerIterates
  <2>1. PICK senders \in SUBSET Workers : HandlesOf(senders)
    BY <1>4, SomeIteration
  <2>2. broker.expiry[a] > 0
    BY <1>3 DEF IsHeard
  <2>3. CASE a \notin senders
    BY <1>1, <2>1, <2>2, <2>3 DEF HandlesOf, Iterated, Registered
  <2>4. CASE a \in senders
    <3>1. /\ up # <<>> /\ Handled(a, Head(up).kind)
          /\ Head(up) \in ToBroker
      BY <1>3, <2>1, <2>4, HeadTailProperties DEF HandlesOf
    <3>2. \A M : Head(up) \in M => Has(up, M)
      BY <1>3, <3>1, HasTail
    <3>3. Head(up).kind \in {"HEARTBEAT", "REPORT"}
      <4>1. Head(up).kind \in {"READY", "HEARTBEAT", "REPORT", "DISCONNECT"}
        BY <3>1 DEF ToBroker
      <4>2. Head(up) \notin Said("DISCONNECT") /\ Head(up) \notin Said("READY")
        BY <1>1, <1>3, <3>2 DEF Link
      <4> QED
        BY <3>1, <4>1, <4>2 DEF Said
    <3> QED
      BY <1>1, <2>2, <3>1, <3>3 DEF Handled, Registered
  <2> QED
    BY <2>3, <2>4
<1>5. CASE StopBroker \/ StartBroker
  BY <1>5 DEF StopBroker, StartBroker, Shutdown, Start
<1>6. CASE TimePasses
  <2>1. broker'.known = broker.known
    BY <1>6, TimeEffect DEF Ages
  <2> QED
    BY <2>1 DEF Registered
<1>7. CASE BrokerRests
  BY <1>7 DEF BrokerRests, vars, Registered
<1> QED
  BY <1>4, <1>5, <1>6, <1>7
     DEF SystemNext, BrokerRuns, BrokerIterates, WorkerRuns, WorkerEnds, ClientRuns, all, BrokerRests

\* In a steady run the broker hears of every worker it knows before the worker
\* expires, and the worker of the broker, or was heard of just before.
THEOREM AlwaysInTouch ==
  ASSUME WorkersAreHeard
  PROVE  System => [](SysInv /\ Links /\ InTouch)
<1>1. SystemInit => SysInv /\ Links /\ InTouch
  BY SystemInitial, LinksInitially, TouchInitially
<1>2. SysInv /\ Links /\ InTouch /\ [SystemNext]_all => (SysInv /\ Links /\ InTouch)'
  BY SystemInductive, LinksInductive, InTouchInductive
<1> QED
  BY <1>1, <1>2, PTL DEF System

\* A worker that keeps up and waits in mdp_worker_recv is not purged, however its
\* reconnections, crashes and restarts of either side, and late messages interleave,
\* for all intervals that leave its heartbeats time to arrive.
THEOREM WaitingNotPurged ==
  ASSUME WorkersAreHeard
  PROVE  System => WaitingIsNotPurged
<1>1. SysInv /\ Links /\ InTouch /\ [SystemNext]_all =>
        [steady /\ status' = status =>
           \A p \in Processes \ served :
             Registered(p) /\ worker'[p].address = worker[p].address => Registered(p)']_all
  BY NobodyPurged
<1> QED
  BY <1>1, AlwaysInTouch, PTL DEF System, WaitingIsNotPurged

-----------------------------------------------------------------------------
(* Nothing disturbs a steady run without faults *)

\* A broker's heartbeat comes before a worker that hears it gives up.
LEMMA DueSoon ==
  ASSUME BrokerIsHeard, NEW due \in -1..INTERVAL
  PROVE  EXPIRY > due + 1
<1>1. INTERVAL \in Nat /\ EXPIRY \in Nat
  BY Waits0
<1> QED
  BY <1>1 DEF BrokerIsHeard

\* A worker of which the broker handles a message.
LEMMA UndisturbedHandled ==
  ASSUME BrokerIsHeard, NEW a \in Workers, NEW w, NEW up \in Seq(ToBroker), up # <<>>,
         NEW down, NEW down2,
         broker.expiry[a] \in Nat, broker'.expiry[a] \in Nat,
         heartbeatIn \in -1..INTERVAL, heartbeatIn' \in -1..INTERVAL,
         Link(w, up, down, a \in broker.known), Handled(a, Head(up).kind),
         Undisturbed(w, up, down, a \in broker.known, broker.expiry[a], heartbeatIn),
         a \in broker'.known /\ down2 = <<>> => down = <<>> /\ heartbeatIn' = heartbeatIn,
         Has(down2, Told("REQUEST")) =>
           Has(down, Told("REQUEST")) \/ (a \in broker'.known /\ broker'.expiry[a] > 0)
  PROVE  Undisturbed(w, Tail(up), down2, a \in broker'.known, broker'.expiry[a], heartbeatIn')
<1> DEFINE m == Head(up)
           r == Tail(up)
<1>1. m \in ToBroker /\ \A M : (m \in M => Has(up, M)) /\ (Has(r, M) => Has(up, M))
  BY HeadTailProperties, HasTail
<1>2. ~Has(r, Said("READY"))
  BY ReadyIsFirst DEF Link
<1>3. m.kind \in {"READY", "HEARTBEAT", "REPORT"}
  <2>1. m.kind \in {"READY", "HEARTBEAT", "REPORT", "DISCONNECT"}
    BY <1>1 DEF ToBroker
  <2>2. m \notin Said("DISCONNECT")
    BY <1>1 DEF Link
  <2> QED
    BY <1>1, <2>1, <2>2 DEF Said
<1> HIDE DEF r
<1>4. CASE m.kind = "READY"
  <2>1. Has(up, Said("READY"))
    BY <1>1, <1>4 DEF Said
  <2>2. /\ w.at = "recv" /\ Left(w) = EXPIRY /\ a \notin broker.known
    BY <2>1, LeftFacts DEF Undisturbed, Link
  <2>3. a \in broker'.known /\ broker'.expiry[a] = EXPIRY
    BY <1>4, <2>2 DEF Handled
  <2>4. EXPIRY > heartbeatIn' + 1 /\ EXPIRY > 0
    BY DueSoon, NumbersFacts
  <2> QED
    BY <1>2, <2>2, <2>3, <2>4 DEF Undisturbed, r
<1>5. CASE m.kind = "HEARTBEAT"
  <2>1. /\ a \in broker'.known <=> a \in broker.known
        /\ a \in broker'.known => broker'.expiry[a] > 0
    BY <1>5, Waits0, SMTT(40) DEF Handled
  <2> QED
    BY <1>1, <1>2, <2>1 DEF Undisturbed, r
<1>6. CASE m.kind = "REPORT"
  <2>1. Has(up, Said("REPORT"))
    BY <1>1, <1>6 DEF Said
  <2>2. a \in broker'.known /\ a \in broker.known /\ broker'.expiry[a] > 0
    BY <1>6, <2>1 DEF Undisturbed, Handled
  <2> QED
    BY <1>1, <1>2, <2>2 DEF Undisturbed, r
<1> QED
  BY <1>3, <1>4, <1>5, <1>6

\* A turn of mdp_worker_recv, or mdp_worker_send.
LEMMA UndisturbedTurned ==
  ASSUME BrokerIsHeard, NEW w \in WorkerType, NEW v, NEW up \in Seq(ToBroker), NEW up2,
         NEW down \in Seq(ToWorker), NEW down2, NEW known, Link(w, up, down, known),
         Turned(w, v, up, up2, down, down2) \/ Took(w, v, up, up2, down, down2)
  PROVE  \A expiry \in Nat, due \in -1..INTERVAL :
           Undisturbed(w, up, down, known, expiry, due) =>
             Undisturbed(v, up2, down2, known, expiry, due)
<1> SUFFICES ASSUME NEW expiry \in Nat, NEW due \in -1..INTERVAL,
                    Undisturbed(w, up, down, known, expiry, due)
             PROVE  Undisturbed(v, up2, down2, known, expiry, due)
  OBVIOUS
<1>1. EXPIRY > due + 1 /\ INTERVAL > 0 /\ INTERVAL \in Nat
  BY Waits0 DEF BrokerIsHeard
<1>2. \A M : Has(down2, M) => Has(down, M)
  BY RestHas DEF Turned, Took, Heard, Waited, Resigned, Reported
<1>3. \A m : up2 = Append(up, m) => \A M : Has(up2, M) => Has(up, M) \/ m \in M
  BY LongerHas
<1>4. /\ [kind |-> "HEARTBEAT"] \notin Said("READY") \cup Said("REPORT")
      /\ \A m \in Results : m \notin Said("READY")
  BY DEF Said, Results
<1>5. CASE Took(w, v, up, up2, down, down2)
  <2>1. Head(down) \in ToWorker /\ Head(down).kind = "REQUEST" /\ v.at = "busy" /\ up2 = up
        /\ down # <<>>
    BY <1>5, HeadTailProperties DEF Took
  <2>2. Has(down, Told("REQUEST"))
    BY <2>1, HasTail DEF Told
  <2> QED
    BY <1>2, <2>1, <2>2 DEF Undisturbed, Link
<1>6. CASE Heard(w, v, up, up2, down, down2)
  <2>1. /\ w.at = "recv" /\ v.at = "recv" /\ v.liveness = LIVENESS /\ v.timer = INTERVAL
        /\ up2 = up \/ up2 = Append(up, [kind |-> "HEARTBEAT"])
    BY <1>6 DEF Heard, Polled
  <2>2. Left(v) = EXPIRY
    BY <2>1, LeftFacts
  <2>3. Has(up2, Said("REPORT")) => Has(up, Said("REPORT"))
    BY <1>3, <1>4, <2>1
  <2> QED
    BY <1>1, <1>2, <2>1, <2>2, <2>3 DEF Undisturbed
<1>7. CASE Waited(w, v, up, up2, down, down2)
  <2>1. /\ w.liveness \in Int /\ w.timer = 0 /\ v.liveness = w.liveness - 1
        /\ v.timer = INTERVAL /\ w.at = "recv" /\ v.at = "recv" /\ down = <<>>
        /\ up2 = up \/ up2 = Append(up, [kind |-> "HEARTBEAT"])
    BY <1>7 DEF Waited, Polled, WorkerType
  <2>2. Left(v) = Left(w)
    BY <2>1, LeftFacts
  <2>3. /\ Has(up2, Said("REPORT")) => Has(up, Said("REPORT"))
        /\ Has(up2, Said("READY")) => Has(up, Said("READY"))
    BY <1>3, <1>4, <2>1
  <2>4. ~Has(up, Said("READY"))
    BY <1>1, <2>1 DEF Undisturbed
  <2> QED
    BY <1>1, <1>2, <2>1, <2>2, <2>3, <2>4 DEF Undisturbed
<1>8. CASE Resigned(w, v, up, up2, down, down2)
  <2>1. /\ w.at = "recv" /\ w.timer = 0 /\ w.liveness = 1 /\ down = <<>>
        /\ v.at = "asleep" /\ up2 = up
    BY <1>8 DEF Resigned
  <2>2. Left(w) = 0
    BY <2>1, LeftFacts
  <2>3. ~known /\ ~Has(up, Said("READY"))
    BY <1>1, <2>1, <2>2 DEF Undisturbed
  <2> QED
    BY <1>2, <2>1, <2>3 DEF Undisturbed
<1>9. CASE Reported(w, v, up, up2, down, down2)
  <2>1. /\ w.at = "busy" /\ v.at = "recv" /\ v.timer = INTERVAL /\ v.liveness = LIVENESS
    BY <1>9 DEF Reported, Link
  <2>2. Left(v) = EXPIRY
    BY <2>1, LeftFacts
  <2> QED
    BY <1>1, <2>1, <2>2 DEF Undisturbed
<1> QED
  BY <1>5, <1>6, <1>7, <1>8, <1>9 DEF Turned

\* A tick.
LEMMA UndisturbedAged ==
  ASSUME NEW w \in WorkerType, NEW v, Aged(w, v), NEW up, up = <<>>, NEW down, NEW known,
         NEW expiry \in Nat, NEW due \in 0..INTERVAL,
         Undisturbed(w, up, down, known, expiry, due), NEW expiry2,
         w.at \in {"recv", "asleep"}, w.timer > 0, w.at = "recv" => down = <<>>
  PROVE  Undisturbed(v, up, down, known, expiry2, due - 1)
<1>1. /\ w.timer \in Nat /\ w.liveness \in Int /\ v.liveness = w.liveness
      /\ v.at = w.at /\ v.timer = w.timer - 1
  BY CompositionAssumption, NumbersAssumption DEF WorkerType, Aged, Less
<1>2. Left(w) \in Int /\ Left(v) = Left(w) - 1
  BY <1>1, LeftFacts
<1>3. \A M : ~Has(<<>>, M)
  BY DEF Has
<1> QED
  BY <1>1, <1>2, <1>3 DEF Undisturbed

\* A connection just opened.
LEMMA UndisturbedFresh ==
  ASSUME NEW s, NEW w, w.at = "recv", w.liveness = LIVENESS, w.timer = INTERVAL,
         NEW expiry, NEW due
  PROVE  Undisturbed(w, <<[kind |-> "READY", service |-> s]>>, <<>>, FALSE, expiry, due)
<1> DEFINE m == [kind |-> "READY", service |-> s]
           up == <<m>>
<1>1. DOMAIN up = {1} /\ up[1] = m /\ m.kind = "READY"
  OBVIOUS
<1> HIDE DEF up
<1>2. ~Has(up, Said("REPORT")) /\ \A M : ~Has(<<>>, M)
  BY <1>1 DEF Has, Said
<1> QED
  BY <1>2 DEF Undisturbed, up

LEMMA QuietIterated ==
  ASSUME BrokerIsHeard, SysInv, SysInv', Links, Quiet, BrokerIterates
  PROVE  Quiet'
<1>1. PICK senders \in SUBSET Workers : HandlesOf(senders)
  BY SomeIteration
<1>2. /\ Delivered /\ worker' = worker /\ Iterated(senders) /\ UNCHANGED <<steady, faults>>
      /\ status' = "up" /\ IInv'
  BY <1>1 DEF BrokerIterates, BrokerHeartbeat, HandleClient, HandleWorker, HandlesOf,
              Iterated, SysInv
<1>3. /\ heartbeatIn \in -1..INTERVAL /\ heartbeatIn' \in -1..INTERVAL
      /\ heartbeatIn' = IF heartbeatIn < 0 THEN INTERVAL ELSE heartbeatIn
      /\ broker.expiry \in [Workers -> Nat] /\ broker'.expiry \in [Workers -> Nat]
      /\ toBroker \in [Workers -> Seq(ToBroker)]
  <2>1. broker.expiry \in [Workers -> 0..EXPIRY] /\ broker'.expiry \in [Workers -> 0..EXPIRY]
    BY BaseFacts DEF SysInv, IInv, Good
  <2>2. 0..EXPIRY \subseteq Nat
    BY Waits0
  <2> QED
    BY <1>2, <2>1, <2>2 DEF SysInv, ChannelsOK, IInv, TypeOK, Iterated
<1> SUFFICES ASSUME steady, faults = 0
             PROVE  /\ \A p \in Processes : LET a == worker[p].address IN
                         worker[p].at # "down" =>
                           Undisturbed(worker[p], toBroker'[a], toWorker'[a],
                                       a \in broker'.known, broker'.expiry[a], heartbeatIn')
                    /\ \A a \in Workers : ~Open(a) =>
                         /\ a \notin broker'.known
                         /\ ~Has(toBroker'[a], Said("READY"))
                         /\ ~Has(toBroker'[a], Said("REPORT"))
  BY <1>2 DEF Quiet, Open
<1>4. ASSUME NEW p \in Processes, worker[p].at # "down", NEW a, a = worker[p].address
      PROVE  Undisturbed(worker[p], toBroker'[a], toWorker'[a],
                         a \in broker'.known, broker'.expiry[a], heartbeatIn')
  <2> DEFINE up == toBroker[a]
             down == toWorker[a]
             down2 == toWorker'[a]
             was == a \in broker.known
             is == a \in broker'.known
  <2>1. /\ a \in Workers /\ Open(a) /\ up \in Seq(ToBroker)
        /\ Link(worker[p], up, down, was)
        /\ Undisturbed(worker[p], up, down, was, broker.expiry[a], heartbeatIn)
    BY <1>4, Home DEF Links, Open, Quiet
  <2>2. /\ down2 = <<>> => down = <<>> /\ (a \in broker'.known => heartbeatIn >= 0)
        /\ Has(down2, Told("REQUEST")) =>
              Has(down, Told("REQUEST")) \/ (a \in broker'.known /\ broker'.expiry[a] > 0)
    BY <1>2, <2>1, WorkersHear
  <2>3. a \in broker'.known /\ down2 = <<>> => down = <<>> /\ heartbeatIn' = heartbeatIn
    BY <1>3, <2>2
  <2>4. broker.expiry[a] \in Nat /\ broker'.expiry[a] \in Nat
    BY <1>3, <2>1
  <2>5. CASE a \in senders
    <3>1. up # <<>> /\ toBroker'[a] = Tail(up) /\ Handled(a, Head(up).kind)
      BY <1>1, <2>5 DEF HandlesOf
    <3> HIDE DEF up, down, down2
    <3>2. Undisturbed(worker[p], Tail(up), down2, is, broker'.expiry[a], heartbeatIn')
      BY <1>3, <2>1, <2>2, <2>3, <2>4, <3>1, UndisturbedHandled
    <3> QED
      BY <3>1, <3>2 DEF down2
  <2>6. CASE a \notin senders
    <3>1. /\ is => was /\ broker'.expiry[a] = broker.expiry[a]
          /\ was /\ broker.expiry[a] > 0 => is
          /\ toBroker'[a] = up /\ heartbeatIn \in Int /\ heartbeatIn' \in Int
      BY <1>1, <1>3, <2>1, <2>6 DEF HandlesOf, Iterated
    <3>2. Undisturbed(worker[p], up, down2, is, broker'.expiry[a], heartbeatIn')
      BY <2>1, <2>2, <2>3, <2>4, <3>1 DEF Undisturbed
    <3> QED
      BY <3>1, <3>2
  <2> QED
    BY <2>5, <2>6
<1>5. ASSUME NEW a \in Workers, ~Open(a)
      PROVE  /\ a \notin broker'.known
             /\ ~Has(toBroker'[a], Said("READY")) /\ ~Has(toBroker'[a], Said("REPORT"))
  <2> DEFINE up == toBroker[a]
  <2>1. /\ up \in Seq(ToBroker) /\ a \notin broker.known
        /\ ~Has(up, Said("READY")) /\ ~Has(up, Said("REPORT"))
    BY <1>3, <1>5 DEF Quiet
  <2>2. CASE a \in senders
    <3>1. up # <<>> /\ toBroker'[a] = Tail(up) /\ Handled(a, Head(up).kind)
      BY <1>1, <2>2 DEF HandlesOf
    <3>2. Head(up) \in ToBroker /\ \A M : (Head(up) \in M \/ Has(Tail(up), M)) => Has(up, M)
      BY <2>1, <3>1, HeadTailProperties, HasTail
    <3>3. Head(up).kind \in {"HEARTBEAT", "DISCONNECT"}
      BY <2>1, <3>2 DEF ToBroker, Said
    <3> QED
      BY <2>1, <3>1, <3>2, <3>3 DEF Handled
  <2>3. CASE a \notin senders
    BY <1>1, <2>1, <2>3 DEF HandlesOf, Iterated
  <2> QED
    BY <2>2, <2>3
<1> QED
  BY <1>4, <1>5

LEMMA QuietKept ==
  ASSUME BrokerIsHeard, SysInv, Links, Quiet, NEW p \in Processes, KeepsConnection(p),
         BrokerRests, UNCHANGED <<steady, faults>>
  PROVE  Quiet'
<1> DEFINE a == worker[p].address
<1>1. /\ a \in Workers /\ worker'[p].address = a
      /\ \/ Turned(worker[p], worker'[p], toBroker[a], toBroker'[a], toWorker[a], toWorker'[a])
         \/ Took(worker[p], worker'[p], toBroker[a], toBroker'[a], toWorker[a], toWorker'[a])
      /\ \A x \in Workers \ {a} : toBroker'[x] = toBroker[x] /\ toWorker'[x] = toWorker[x]
      /\ \A r \in Processes \ {p} : worker'[r] = worker[r]
      /\ broker' = broker /\ heartbeatIn' = heartbeatIn /\ status' = status
  BY DEF KeepsConnection, BrokerRests, vars
<1> SUFFICES ASSUME steady, faults = 0
             PROVE  /\ status = "up"
                    /\ \A q \in Processes : LET b == worker'[q].address IN
                         worker'[q].at # "down" =>
                           Undisturbed(worker'[q], toBroker'[b], toWorker'[b],
                                       b \in broker.known, broker.expiry[b], heartbeatIn)
                    /\ \A b \in Workers : ~Open(b)' =>
                         /\ b \notin broker.known
                         /\ ~Has(toBroker'[b], Said("READY"))
                         /\ ~Has(toBroker'[b], Said("REPORT"))
  BY <1>1 DEF Quiet
<1>2. heartbeatIn \in -1..INTERVAL /\ broker.expiry \in [Workers -> Nat]
  <2>1. broker.expiry \in [Workers -> 0..EXPIRY]
    BY BaseFacts DEF SysInv, IInv, Good
  <2>2. 0..EXPIRY \subseteq Nat
    BY Waits0
  <2> QED
    BY <2>1, <2>2 DEF SysInv, IInv, TypeOK
<1>3. worker[p].at # "down"
  BY <1>1 DEF Turned, Took, Heard, Waited, Resigned, Reported
<1>4. Undisturbed(worker'[p], toBroker'[a], toWorker'[a],
                  a \in broker.known, broker.expiry[a], heartbeatIn)
  <2>1. /\ worker[p] \in WorkerType /\ toBroker[a] \in Seq(ToBroker)
        /\ toWorker[a] \in Seq(ToWorker)
        /\ Link(worker[p], toBroker[a], toWorker[a], a \in broker.known)
    BY <1>1, <1>3, Home DEF Links
  <2>2. Undisturbed(worker[p], toBroker[a], toWorker[a], a \in broker.known,
                    broker.expiry[a], heartbeatIn)
    BY <1>3 DEF Quiet
  <2>3. \A expiry \in Nat, due \in -1..INTERVAL :
          Undisturbed(worker[p], toBroker[a], toWorker[a], a \in broker.known, expiry, due) =>
            Undisturbed(worker'[p], toBroker'[a], toWorker'[a], a \in broker.known, expiry, due)
    BY <1>1, <2>1, UndisturbedTurned
  <2>4. broker.expiry[a] \in Nat
    BY <1>1, <1>2
  <2> QED
    BY <1>2, <2>2, <2>3, <2>4
<1>5. ASSUME NEW q \in Processes, worker'[q].at # "down"
      PROVE  LET b == worker'[q].address IN
             Undisturbed(worker'[q], toBroker'[b], toWorker'[b],
                         b \in broker.known, broker.expiry[b], heartbeatIn)
  <2>1. CASE q = p
    BY <1>1, <1>4, <2>1
  <2>2. CASE q # p
    <3> DEFINE b == worker[q].address
    <3>1. b \in Workers /\ b # a /\ worker'[q] = worker[q]
      BY <1>1, <1>5, <2>2, OwnAddress
    <3>2. Undisturbed(worker[q], toBroker[b], toWorker[b],
                      b \in broker.known, broker.expiry[b], heartbeatIn)
      BY <1>5, <3>1 DEF Quiet
    <3> QED
      BY <1>1, <3>1, <3>2
  <2> QED
    BY <2>1, <2>2
<1>6. ASSUME NEW b \in Workers, ~Open(b)'
      PROVE  /\ b \notin broker.known
             /\ ~Has(toBroker'[b], Said("READY")) /\ ~Has(toBroker'[b], Said("REPORT"))
  <2>1. ~Open(b) /\ b # a
    BY <1>1, <1>6 DEF Open
  <2> QED
    BY <1>1, <2>1 DEF Quiet
<1>7. status = "up"
  BY DEF Quiet
<1> QED
  BY <1>5, <1>6, <1>7

LEMMA QuietReconnects ==
  ASSUME SysInv, Links, Quiet, NEW p \in Processes, Reconnects(p), IsCut(p),
         BrokerRests, UNCHANGED <<steady, faults>>
  PROVE  Quiet'
<1> DEFINE old == worker[p].address
<1>1. PICK new \in Unused :
        /\ worker'[p] = [at |-> "recv", address |-> new, liveness |-> LIVENESS,
                         timer |-> INTERVAL, heartbeatIn |-> INTERVAL, request |-> Idle]
        /\ toBroker'[new] = <<[kind |-> "READY", service |-> Serves[p]]>>
        /\ toWorker'[new] = toWorker[new]
        /\ \A x \in Workers \ {new} :
             /\ toBroker'[x] # toBroker[x] => x = worker[p].address /\ toBroker'[x] = <<>>
             /\ toWorker'[x] = IF x = worker[p].address THEN <<>> ELSE toWorker[x]
  BY DEF Reconnects
<1>2. /\ \A q \in Processes \ {p} : worker'[q] = worker[q]
      /\ broker' = broker /\ heartbeatIn' = heartbeatIn /\ status' = status
  BY DEF Reconnects, BrokerRests, vars
<1> SUFFICES ASSUME steady, faults = 0
             PROVE  /\ status = "up"
                    /\ \A q \in Processes : LET b == worker'[q].address IN
                         worker'[q].at # "down" =>
                           Undisturbed(worker'[q], toBroker'[b], toWorker'[b],
                                       b \in broker.known, broker.expiry[b], heartbeatIn)
                    /\ \A b \in Workers : ~Open(b)' =>
                         /\ b \notin broker.known
                         /\ ~Has(toBroker'[b], Said("READY"))
                         /\ ~Has(toBroker'[b], Said("REPORT"))
  BY <1>2 DEF Quiet
<1>3. /\ new \in Workers /\ new \notin broker.known /\ toWorker[new] = <<>>
      /\ \A q \in Processes : worker[q].address # new
  BY <1>1 DEF Unused, Open, Links
<1>4. /\ worker'[p].at = "recv" /\ worker'[p].address = new
      /\ worker'[p].liveness = LIVENESS /\ worker'[p].timer = INTERVAL
  BY <1>1
<1>5. ASSUME NEW q \in Processes, worker'[q].at # "down"
      PROVE  LET b == worker'[q].address IN
             Undisturbed(worker'[q], toBroker'[b], toWorker'[b],
                         b \in broker.known, broker.expiry[b], heartbeatIn)
  <2>1. CASE q = p
    <3>1. Undisturbed(worker'[p], toBroker'[new], <<>>, FALSE, broker.expiry[new], heartbeatIn)
      BY <1>1, <1>4, UndisturbedFresh, ZenonT(40)
    <3>2. toWorker'[new] = <<>>
      BY <1>1, <1>3
    <3> QED
      BY <1>3, <1>4, <2>1, <3>1, <3>2 DEF Undisturbed
  <2>2. CASE q # p
    <3> DEFINE b == worker[q].address
    <3>1. b \in Workers /\ b # old /\ worker'[q] = worker[q] /\ b # new
      BY <1>2, <1>3, <1>5, <2>2, OwnAddress
    <3>2. Undisturbed(worker[q], toBroker[b], toWorker[b],
                      b \in broker.known, broker.expiry[b], heartbeatIn)
      BY <1>5, <3>1 DEF Quiet
    <3> QED
      BY <1>1, <3>1, <3>2
  <2> QED
    BY <2>1, <2>2
<1>6. ASSUME NEW b \in Workers, ~Open(b)'
      PROVE  /\ b \notin broker.known
             /\ ~Has(toBroker'[b], Said("READY")) /\ ~Has(toBroker'[b], Said("REPORT"))
  <2>1. b # new /\ \A q \in Processes \ {p} : worker[q].address # b
    BY <1>2, <1>4, <1>6 DEF Open
  <2>2. \A M : ~Has(<<>>, M)
    BY DEF Has
  <2>3. \A M : Has(toBroker'[b], M) => Has(toBroker[b], M)
    BY <1>1, <2>1, <2>2
  <2>4. CASE b # old
    <3>1. ~Open(b)
      BY <2>1, <2>4 DEF Open
    <3> QED
      BY <2>3, <3>1 DEF Quiet
  <2>5. CASE b = old
    <3>1. worker[p].at # "down"
      BY <2>5, CompositionAssumption DEF Links
    <3>2. /\ Link(worker[p], toBroker[b], toWorker[b], b \in broker.known)
          /\ Undisturbed(worker[p], toBroker[b], toWorker[b],
                         b \in broker.known, broker.expiry[b], heartbeatIn)
      BY <2>5, <3>1 DEF Links, Quiet
    <3>3. b \notin broker.known /\ ~Has(toBroker[b], Said("READY"))
      BY <2>5, <3>1, <3>2 DEF IsCut, Link, Undisturbed
    <3>4. ~Has(toBroker[b], Said("REPORT"))
      BY <3>2, <3>3 DEF Undisturbed
    <3> QED
      BY <2>3, <3>3, <3>4
  <2> QED
    BY <2>4, <2>5
<1>7. status = "up"
  BY DEF Quiet
<1> QED
  BY <1>5, <1>6, <1>7

LEMMA QuietTime ==
  ASSUME SysInv, Links, Quiet, Ages
  PROVE  Quiet'
<1>1. /\ toBroker' = toBroker /\ toWorker' = toWorker /\ broker'.known = broker.known
      /\ status' = status /\ UNCHANGED <<steady, faults>>
      /\ \A p \in Processes : Aged(worker[p], worker'[p])
  BY DEF Ages, network
<1>2. \A p \in Processes : worker'[p].address = worker[p].address /\ worker'[p].at = worker[p].at
  BY <1>1 DEF Aged
<1> SUFFICES ASSUME steady, faults = 0
             PROVE  /\ status = "up"
                    /\ \A p \in Processes : LET a == worker[p].address IN
                         worker[p].at # "down" =>
                           Undisturbed(worker'[p], toBroker[a], toWorker[a],
                                       a \in broker.known, broker'.expiry[a], heartbeatIn')
  BY <1>1, <1>2 DEF Quiet, Open
<1>3. status = "up"
  BY DEF Quiet
<1>4. heartbeatIn \in 0..INTERVAL /\ heartbeatIn' = heartbeatIn - 1
  BY <1>3 DEF Ages, SysInv, IInv, TypeOK
<1>5. ASSUME NEW p \in Processes, worker[p].at # "down", NEW a, a = worker[p].address
      PROVE  Undisturbed(worker'[p], toBroker[a], toWorker[a],
                         a \in broker.known, broker'.expiry[a], heartbeatIn')
  <2>1. /\ a \in Workers /\ worker[p] \in WorkerType
        /\ worker[p].at \in {"recv", "busy", "asleep", "down"}
    BY <1>5, Home DEF WorkerType
  <2>2. broker.expiry[a] \in Nat
    <3>1. broker.expiry \in [Workers -> 0..EXPIRY] /\ 0..EXPIRY \subseteq Nat
      BY BaseFacts, Waits0 DEF SysInv, IInv, Good
    <3> QED
      BY <2>1, <3>1
  <2>3. Undisturbed(worker[p], toBroker[a], toWorker[a],
                    a \in broker.known, broker.expiry[a], heartbeatIn)
    BY <1>5 DEF Quiet
  <2>4. /\ worker[p].at \in {"recv", "asleep"} /\ worker[p].timer > 0
        /\ worker[p].at = "recv" => toWorker[a] = <<>>
        /\ toBroker[a] = <<>>
    BY <1>3, <1>5, <2>1 DEF Ages
  <2>5. Undisturbed(worker'[p], toBroker[a], toWorker[a],
                    a \in broker.known, broker'.expiry[a], heartbeatIn - 1)
    BY <1>1, <1>4, <2>1, <2>2, <2>3, <2>4, UndisturbedAged
  <2> QED
    BY <1>4, <2>5
<1> QED
  BY <1>3, <1>5

LEMMA QuietInductive ==
  ASSUME BrokerIsHeard, SysInv, SysInv', [SystemNext]_all, Links, Quiet
  PROVE  Quiet'
<1>1. CASE BrokerIterates
  BY <1>1, QuietIterated
<1>2. CASE StopBroker \/ \E p \in Processes : WorkerEnds(p)
  <2>1. faults \in Nat
    BY FaultsAssumption DEF SysInv, ProgramsOK
  <2>2. faults' # 0
    BY <1>2, <2>1 DEF StopBroker, WorkerEnds
  <2> QED
    BY <2>2 DEF Quiet
<1>3. CASE StartBroker
  BY <1>3 DEF StartBroker, Start, Quiet
<1>4. ASSUME NEW p \in Processes, WorkerRuns(p) PROVE Quiet'
  <2>1. BrokerRests /\ UNCHANGED <<steady, faults>>
    BY <1>4 DEF WorkerRuns
  <2> QED
    BY <1>4, <2>1, WorkerEffect, QuietKept, QuietReconnects
<1>5. CASE TimePasses
  BY <1>5, TimeEffect, QuietTime
<1>6. CASE UNCHANGED all \/ \E k \in Commands : ClientRuns(k)
  BY <1>6 DEF all, ClientRuns, BrokerRests, vars, network, Quiet, Open
<1> QED
  BY <1>1, <1>2, <1>3, <1>4, <1>5, <1>6 DEF SystemNext, BrokerRuns, BrokerIterates

LEMMA QuietInitially ==
  ASSUME SystemInit
  PROVE  Quiet
<1>1. /\ \A p \in Processes : worker[p].at = "down"
      /\ \A a \in Workers : toBroker[a] = <<>>
      /\ broker.known = {} /\ status = "up"
  BY DEF SystemInit, Init, NewBroker, Down
<1>2. \A M : ~Has(<<>>, M)
  BY DEF Has
<1> QED
  BY <1>1, <1>2 DEF Quiet

-----------------------------------------------------------------------------
(* No call is lost *)

\* Call k of client c is somewhere.
Present(c, k) ==
  \/ Has(calls[c], CallOf(k))
  \/ \E s \in Names : Has(broker.requests[s], AskOf(c, k))
  \/ \E a \in Workers : Has(toWorker[a], TaskOf(c, k))
  \/ \E p \in Processes : worker[p].request = Ask(c, k)
  \/ \E a \in Workers : Has(toBroker[a], ResultOf(c, k))
  \/ Has(answers[c], AnswerOf(k))
  \/ \E x \in Commands : outcome[x] = k

NothingLost ==
  steady /\ faults = 0 =>
    \A k \in Commands : outcome[k] # "new" => Present(Asker[k], k)

\* Only a worker that is busy has a request in its hands.
EmptyHands == \A p \in Processes : worker[p].at # "busy" => worker[p].request = Idle

\* Nobody is lost: the broker is up, and knows whom it sends a request, and that
\* worker is there and hears it.
LEMMA TaskArrives ==
  ASSUME SysInv, SysInv', Links, Quiet', steady', faults' = 0, Delivered, worker' = worker,
         NEW c \in Clients, NEW k \in Commands,
         NEW i \in DOMAIN sent'.work, sent'.work[i].request = Ask(c, k)
  PROVE  \E a \in Workers : Has(toWorker'[a], TaskOf(c, k))
<1> DEFINE m == sent'.work[i]
<1>1. sent'.work \in Seq(RequestMsg)
  BY DEF SysInv, IInv, TypeOK, Output
<1>2. m \in RequestMsg /\ m \in Range(sent'.work)
  BY <1>1, LenProperties, ElementOfSeq DEF Range
<1>3. m \in TaskOf(c, k) /\ m.to \in Workers
  BY <1>2 DEF TaskOf, RequestMsg
<1>4. m.to \in broker'.known
  BY <1>2 DEF SysInv, IInv, SendsMatchRegistry
<1>5. Open(m.to)
  BY <1>3, <1>4 DEF Quiet, Open
<1>6. toWorker \in [Workers -> Seq(ToWorker)] /\ IInv'
  BY DEF SysInv, ChannelsOK
<1> HIDE DEF m
<1>7. Has(toWorker'[m.to], TaskOf(c, k))
  BY <1>2, <1>3, <1>5, <1>6, Deliveries
<1> QED
  BY <1>3, <1>7

\* What is on its way to a worker stays there until the worker reads it.
LEMMA TaskStays ==
  ASSUME SysInv, IInv', Links, Delivered, NEW a \in Workers, NEW M, Has(toWorker[a], M)
  PROVE  Has(toWorker'[a], M)
<1>1. toWorker \in [Workers -> Seq(ToWorker)]
  BY DEF SysInv, ChannelsOK
<1>2. Open(a)
  BY DEF Links, Has
<1> QED
  BY <1>1, <1>2, Deliveries

\* A request that the broker has is dispatched or waits.
LEMMA RequestStays ==
  ASSUME SysInv, SysInv', Links, Quiet', steady', faults' = 0, Delivered, worker' = worker,
         NEW b, Base(b), NEW s \in Names, Stranded(b) \subseteq {s}, DispatchFrom(b, s),
         NEW c \in Clients, NEW k \in Commands, NEW t \in Names, Has(b.requests[t], AskOf(c, k))
  PROVE  \/ Has(broker'.requests[t], AskOf(c, k))
         \/ \E a \in Workers : Has(toWorker'[a], TaskOf(c, k))
<1>1. /\ sent'.work \in Seq(RequestMsg)
      /\ \A x \in Names : x # s => broker'.requests[x] = b.requests[x]
      /\ \/ broker'.requests[s] = b.requests[s]
         \/ /\ Len(sent'.work) = Len(b.requests[s])
            /\ \A i \in 1..Len(sent'.work) : sent'.work[i].request = b.requests[s][i]
  BY DispatchIteration
<1>2. CASE t # s \/ broker'.requests[s] = b.requests[s]
  BY <1>1, <1>2
<1>3. CASE /\ t = s /\ Len(sent'.work) = Len(b.requests[s])
           /\ \A i \in 1..Len(sent'.work) : sent'.work[i].request = b.requests[s][i]
  <2>1. b.requests[s] \in Seq(Request)
    BY BaseFacts DEF BrokerType
  <2>2. DOMAIN b.requests[s] = 1..Len(b.requests[s]) /\ DOMAIN sent'.work = 1..Len(sent'.work)
    BY <1>1, <2>1, LenProperties
  <2>3. PICK i \in DOMAIN b.requests[s] : b.requests[s][i] = Ask(c, k)
    BY <1>3 DEF Has, AskOf
  <2>4. i \in DOMAIN sent'.work /\ sent'.work[i].request = Ask(c, k)
    BY <1>3, <2>2, <2>3
  <2> QED
    BY <2>4, TaskArrives
<1> QED
  BY <1>1, <1>2, <1>3

LEMMA ClientMessageStays ==
  ASSUME SysInv, SysInv', Links, Quiet', steady', faults' = 0,
         NEW d \in Clients, HandleClient(d),
         NEW c \in Clients, NEW k \in Commands, Present(c, k)
  PROVE  Present(c, k)'
<1> DEFINE m == Head(calls[d])
           s == m.service
           r == [client |-> d, command |-> m.command]
           b == [broker EXCEPT !.requests[s] = Append(@, r)]
<1>1. /\ calls \in [Clients -> Seq(Asked)] /\ calls[d] \in Seq(Asked) /\ calls[d] # <<>>
      /\ calls' = Dequeue(calls, d) /\ DispatchFrom(b, s) /\ Delivered
      /\ UNCHANGED <<toBroker, answers, worker, outcome>>
  BY DEF SysInv, ChannelsOK, HandleClient, Submit, clients, history
<1>2. m \in Asked
  BY <1>1, DequeueType
<1>3. s \in Names /\ r \in Request
  BY <1>2 DEF Asked, Names, Request
<1>4. broker.requests \in [Names -> Seq(Request)] /\ broker \in BrokerType
  BY DEF SysInv, IInv, TypeOK, BrokerType
<1>5. /\ Base(b) /\ Stranded(b) \subseteq {s}
  <2>1. Base(broker) /\ Stranded(broker) = {}
    BY BaseFacts DEF SysInv, IInv, Good
  <2> HIDE DEF r, s
  <2> QED
    BY <1>3, <2>1, EnqueueBase
<1>6. \A t \in Names : b.requests[t] = IF t = s THEN Append(broker.requests[s], r)
                                                ELSE broker.requests[t]
  BY <1>3, <1>4 DEF BrokerType
<1>7. m \in CallOf(k) /\ d = c => r = Ask(c, k)
  BY DEF CallOf, Ask
<1> HIDE DEF m, s, r, b
<1>8. \A t \in Names : Has(broker.requests[t], AskOf(c, k)) => Has(b.requests[t], AskOf(c, k))
  BY <1>3, <1>4, <1>6, LongerHas
<1>9. r = Ask(c, k) => Has(b.requests[s], AskOf(c, k))
  <2>1. broker.requests[s] \in Seq(Request)
    BY <1>3, <1>4
  <2>2. Ask(c, k) \in AskOf(c, k)
    BY DEF AskOf
  <2> QED
    BY <1>3, <1>6, <2>1, <2>2, LongerHas
<1>10. ASSUME NEW t \in Names, Has(b.requests[t], AskOf(c, k)) PROVE Present(c, k)'
  BY <1>1, <1>3, <1>5, <1>10, RequestStays DEF Present
<1>11. CASE Has(calls[c], CallOf(k))
  <2>1. CASE c # d
    BY <1>1, <1>11, <2>1 DEF Present, Dequeue
  <2>2. CASE c = d
    <3>1. m \in CallOf(k) \/ Has(Tail(calls[c]), CallOf(k))
      BY <1>1, <1>11, <2>2, RestHas DEF m
    <3>2. calls'[c] = Tail(calls[c])
      BY <1>1, <2>2 DEF Dequeue
    <3> QED
      BY <1>3, <1>7, <1>9, <1>10, <2>2, <3>1, <3>2 DEF Present
  <2> QED
    BY <2>1, <2>2
<1>12. ASSUME NEW t \in Names, Has(broker.requests[t], AskOf(c, k)) PROVE Present(c, k)'
  BY <1>8, <1>10, <1>12
<1>13. ASSUME NEW a \in Workers, Has(toWorker[a], TaskOf(c, k)) PROVE Present(c, k)'
  BY <1>1, <1>13, TaskStays DEF Present, SysInv
<1> QED
  BY <1>1, <1>11, <1>12, <1>13 DEF Present

LEMMA WorkerMessageStays ==
  ASSUME SysInv, SysInv', Links, Quiet, Quiet', steady, faults = 0,
         NEW o \in Workers, HandleWorker(o),
         NEW c \in Clients, NEW k \in Commands, Present(c, k)
  PROVE  Present(c, k)'
<1> DEFINE m == Head(toBroker[o])
<1>1. /\ toBroker[o] # <<>> /\ toBroker' = Dequeue(toBroker, o) /\ Delivered
      /\ UNCHANGED <<calls, worker, outcome, steady, faults>>
  BY DEF HandleWorker, clients
<1>2. toBroker \in [Workers -> Seq(ToBroker)] /\ m \in ToBroker /\ toBroker[o] \in Seq(ToBroker)
  BY <1>1, DequeueType DEF SysInv, ChannelsOK
<1>3. ASSUME NEW t \in Names, Has(broker.requests[t], AskOf(c, k)) PROVE Present(c, k)'
  <2>1. CASE m.kind = "READY" /\ ReadyNew(o, m.service)
    <3> DEFINE s == m.service
               b == Attach(broker, o, s)
    <3>1. s \in Offered /\ s \in Names
      BY <1>2, <2>1, NamesAssumption DEF ToBroker
    <3>2. Base(broker) /\ Stranded(broker) = {} /\ broker \in BrokerType
      BY BaseFacts DEF SysInv, IInv, Good
    <3>3. Base(b) /\ Stranded(b) \subseteq {s}
      BY <2>1, <3>1, <3>2, AttachBase DEF ReadyNew
    <3>4. b.requests = broker.requests /\ DispatchFrom(b, s)
      BY <2>1, <3>2 DEF Attach, BrokerType, ReadyNew
    <3> HIDE DEF b, s
    <3>5. \/ Has(broker'.requests[t], AskOf(c, k))
          \/ \E a \in Workers : Has(toWorker'[a], TaskOf(c, k))
      BY <1>1, <1>3, <3>1, <3>3, <3>4, RequestStays
    <3> QED
      BY <3>5 DEF Present
  <2>2. CASE ReadyAgain(o) \/ Heartbeat(o) \/ Unknown(o) \/ Disconnect(o)
    <3>1. broker'.requests = broker.requests
      BY <2>2, QuietIterations DEF SysInv
    <3> QED
      BY <1>3, <3>1 DEF Present
  <2>3. CASE m.kind = "REPORT" /\ Report(o, m.request.client)
    <3>1. m.request.client \in Clients
      BY <1>2, <2>3 DEF ToBroker, Request
    <3>2. broker'.requests = broker.requests
      BY <2>3, <3>1, QuietIterations DEF SysInv
    <3> QED
      BY <1>3, <3>2 DEF Present
  <2> QED
    BY <2>1, <2>2, <2>3 DEF HandleWorker
<1>4. ASSUME NEW a \in Workers, Has(toWorker[a], TaskOf(c, k)) PROVE Present(c, k)'
  BY <1>1, <1>4, TaskStays DEF Present, SysInv
<1>5. ASSUME m \in ResultOf(c, k) PROVE Present(c, k)'
  <2>1. m.kind = "REPORT" /\ m.request = Ask(c, k) /\ m \in Said("REPORT")
    BY <1>2, <1>5 DEF ResultOf, Said
  <2>2. Has(toBroker[o], Said("REPORT"))
    BY <1>1, <1>2, <2>1, HasTail
  <2>3. Open(o)
    BY <2>2 DEF Quiet
  <2>4. PICK p \in Processes : worker[p].address = o
    BY <2>3 DEF Open
  <2>5. worker[p].at # "down"
    BY <2>4, CompositionAssumption DEF Links
  <2>6. o \in broker.known
    BY <2>2, <2>4, <2>5 DEF Quiet, Undisturbed
  <2>7. ~Unknown(o)
    BY <2>6 DEF Unknown
  <2>8. answers' = Enqueue(answers, c, k)
    BY <2>1, <2>7 DEF HandleWorker, Ask
  <2>9. answers \in [Clients -> Seq(Commands)]
    BY DEF SysInv, ChannelsOK
  <2>10. answers'[c] = Append(answers[c], k)
    BY <2>8, <2>9 DEF Enqueue
  <2>11. Has(answers'[c], AnswerOf(k))
    BY <2>9, <2>10, LongerHas DEF AnswerOf
  <2> QED
    BY <2>11 DEF Present
<1>6. ASSUME NEW a \in Workers, Has(toBroker[a], ResultOf(c, k)) PROVE Present(c, k)'
  <2>1. CASE a # o
    BY <1>1, <1>2, <1>6, <2>1 DEF Present, Dequeue
  <2>2. CASE a = o
    <3>1. toBroker'[o] = Tail(toBroker[o])
      BY <1>1, <1>2 DEF Dequeue
    <3>2. m \in ResultOf(c, k) \/ Has(Tail(toBroker[o]), ResultOf(c, k))
      BY <1>1, <1>2, <1>6, <2>2, RestHas
    <3> QED
      BY <1>5, <3>1, <3>2 DEF Present
  <2> QED
    BY <2>1, <2>2
<1>7. Has(answers[c], AnswerOf(k)) => Has(answers'[c], AnswerOf(k))
  <2>1. answers \in [Clients -> Seq(Commands)]
    BY DEF SysInv, ChannelsOK
  <2>2. \A x \in Commands, d \in Clients :
          Has(answers[c], AnswerOf(k)) => Has(Enqueue(answers, d, x)[c], AnswerOf(k))
    BY <2>1, LongerHas DEF Enqueue
  <2>3. \/ answers' = answers
        \/ m.kind = "REPORT" /\ answers' = Enqueue(answers, m.request.client, m.request.command)
    BY DEF HandleWorker
  <2>4. m.kind = "REPORT" => m.request.client \in Clients /\ m.request.command \in Commands
    BY <1>2 DEF ToBroker, Request
  <2> HIDE DEF m
  <2> QED
    BY <2>2, <2>3, <2>4
<1> QED
  BY <1>1, <1>3, <1>4, <1>6, <1>7 DEF Present

LEMMA BrokerLosesNothing ==
  ASSUME SysInv, SysInv', Links, Quiet, Quiet', steady, faults = 0, BrokerIterates,
         NEW c \in Clients, NEW k \in Commands, Present(c, k)
  PROVE  Present(c, k)'
<1>1. ASSUME NEW a \in Workers, HandleWorker(a) PROVE Present(c, k)'
  BY <1>1, WorkerMessageStays
<1>2. ASSUME NEW d \in Clients, HandleClient(d) PROVE Present(c, k)'
  <2>1. steady' /\ faults' = 0
    BY <1>2 DEF HandleClient
  <2> QED
    BY <1>2, <2>1, ClientMessageStays
<1>3. CASE BrokerHeartbeat
  <2>1. /\ NoMessage /\ Delivered
        /\ UNCHANGED <<toBroker, calls, answers, worker, outcome>>
    BY <1>3 DEF BrokerHeartbeat, clients
  <2>2. broker'.requests = broker.requests
    <3>1. \A a \in Workers : broker'.requests = broker.requests
      BY <2>1, QuietIterations DEF SysInv
    <3>2. CASE Workers = {}
      <4>1. PICK other : Finish(broker, <<>>, other)
        BY <2>1 DEF NoMessage, Answer
      <4> QED
        BY <4>1, BaseFacts, FinishFacts DEF SysInv, IInv, Good
    <3> QED
      BY <3>1, <3>2
  <2>3. \A a \in Workers : Has(toWorker[a], TaskOf(c, k)) => Has(toWorker'[a], TaskOf(c, k))
    BY <2>1, TaskStays DEF SysInv
  <2> QED
    BY <2>1, <2>2, <2>3 DEF Present
<1> QED
  BY <1>1, <1>2, <1>3 DEF BrokerIterates

\* A process keeps its connection, or opens a new one without a loss.
LEMMA ConnectLosesNothing ==
  ASSUME SysInv, Links, Quiet, steady, faults = 0, EmptyHands,
         NEW p \in Processes, Reconnects(p), IsCut(p), BrokerRests,
         UNCHANGED <<calls, answers, outcome>>,
         NEW c \in Clients, NEW k \in Commands, Present(c, k)
  PROVE  Present(c, k)'
<1> DEFINE old == worker[p].address
<1>1. PICK new \in Unused :
        /\ worker'[p].request = Idle
        /\ toBroker'[new] = <<[kind |-> "READY", service |-> Serves[p]]>>
        /\ toWorker'[new] = toWorker[new]
        /\ \A x \in Workers \ {new} :
             /\ toBroker'[x] # toBroker[x] => x = worker[p].address /\ toBroker'[x] = <<>>
             /\ toWorker'[x] = IF x = worker[p].address THEN <<>> ELSE toWorker[x]
  BY DEF Reconnects
<1>2. /\ \A q \in Processes \ {p} : worker'[q] = worker[q]
      /\ broker' = broker
  BY DEF Reconnects, BrokerRests, vars
<1>3. worker[p].request = Idle /\ Ask(c, k) # Idle
  BY Sorts DEF EmptyHands, IsCut
<1>4. toBroker[new] = <<>>
  BY DEF Unused
<1>5. ASSUME NEW M PROVE ~Has(<<>>, M)
  BY DEF Has
\* On a connection that is cut there is neither a request nor a REPORT.
<1>6. ASSUME old \in Workers
      PROVE  ~Has(toWorker[old], TaskOf(c, k)) /\ ~Has(toBroker[old], ResultOf(c, k))
  <2>1. worker[p].at # "down"
    BY <1>6, CompositionAssumption DEF Links
  <2>2. /\ toWorker[old] \in Seq(ToWorker) /\ toBroker[old] \in Seq(ToBroker)
        /\ Link(worker[p], toBroker[old], toWorker[old], old \in broker.known)
        /\ Undisturbed(worker[p], toBroker[old], toWorker[old],
                       old \in broker.known, broker.expiry[old], heartbeatIn)
    BY <2>1, Home DEF Links, Quiet
  <2>3. old \notin broker.known
    BY <2>1, <2>2 DEF IsCut, Link, Undisturbed
  <2>4. ~Has(toWorker[old], Told("REQUEST")) /\ ~Has(toBroker[old], Said("REPORT"))
    BY <2>2, <2>3 DEF Undisturbed
  <2>5. /\ \A i \in DOMAIN toWorker[old] : toWorker[old][i] \in ToWorker
        /\ \A i \in DOMAIN toBroker[old] : toBroker[old][i] \in ToBroker
    BY <2>2, LenProperties, ElementOfSeq
  <2> HIDE DEF old
  <2> QED
    BY <2>4, <2>5 DEF Has, Told, Said, TaskOf, ResultOf
<1>7. ASSUME NEW a \in Workers, Has(toWorker[a], TaskOf(c, k)) PROVE Has(toWorker'[a], TaskOf(c, k))
  BY <1>1, <1>6, <1>7
<1>8. ASSUME NEW a \in Workers, Has(toBroker[a], ResultOf(c, k))
      PROVE  Has(toBroker'[a], ResultOf(c, k))
  BY <1>1, <1>4, <1>5, <1>6, <1>8
<1>9. ASSUME NEW q \in Processes, worker[q].request = Ask(c, k)
      PROVE  worker'[q].request = Ask(c, k)
  BY <1>2, <1>3, <1>9
<1> QED
  BY <1>2, <1>7, <1>8, <1>9 DEF Present

LEMMA TurnLosesNothing ==
  ASSUME SysInv, NEW p \in Processes,
         TakeHeartbeat(p) \/ PollTimesOut(p) \/ GiveUpOnBroker(p), BrokerRests,
         UNCHANGED <<calls, answers, outcome>>,
         NEW c \in Clients, NEW k \in Commands, Present(c, k)
  PROVE  Present(c, k)'
<1> DEFINE a == worker[p].address
           beat == [kind |-> "HEARTBEAT"]
<1>1. /\ worker[p] \in WorkerType /\ worker \in [Processes -> WorkerType]
      /\ worker[p].at = "recv" /\ a \in Workers
  BY DEF TakeHeartbeat, Reads, Inbox, PollTimesOut, GiveUpOnBroker, NothingCame,
         SysInv, ProgramsOK, Working
<1>2. broker' = broker
  BY DEF BrokerRests, vars
<1>3. \A q \in Processes : worker'[q].request = worker[q].request
  BY <1>1 DEF TakeHeartbeat, PollTimesOut, GiveUpOnBroker, PollAgain, WorkerType
<1>4. /\ toWorker \in [Workers -> Seq(ToWorker)] /\ toBroker \in [Workers -> Seq(ToBroker)]
      /\ \/ toWorker' = toWorker
         \/ /\ toWorker[a] # <<>> /\ Head(toWorker[a]).kind = "HEARTBEAT"
            /\ toWorker' = Dequeue(toWorker, a)
      /\ toBroker' = toBroker \/ toBroker' = Enqueue(toBroker, a, beat)
  BY <1>1 DEF SysInv, ChannelsOK, TakeHeartbeat, Reads, Inbox, PollTimesOut, GiveUpOnBroker,
              PollAgain
<1> HIDE DEF a
<1>5. ASSUME NEW x \in Workers, Has(toWorker[x], TaskOf(c, k)) PROVE Has(toWorker'[x], TaskOf(c, k))
  <2>1. CASE /\ toWorker[a] # <<>> /\ Head(toWorker[a]).kind = "HEARTBEAT"
             /\ toWorker' = Dequeue(toWorker, a)
    <3>1. Head(toWorker[a]) \notin TaskOf(c, k)
      BY <2>1 DEF TaskOf
    <3>2. Has(toWorker[a], TaskOf(c, k)) => Has(Tail(toWorker[a]), TaskOf(c, k))
      BY <1>1, <1>4, <2>1, <3>1, RestHas DEF a
    <3>3. toWorker'[x] = IF x = a THEN Tail(toWorker[a]) ELSE toWorker[x]
      BY <1>4, <2>1 DEF Dequeue
    <3> QED
      BY <1>5, <3>2, <3>3
  <2> QED
    BY <1>4, <1>5, <2>1
<1>6. ASSUME NEW x \in Workers, Has(toBroker[x], ResultOf(c, k))
      PROVE  Has(toBroker'[x], ResultOf(c, k))
  <2>1. Has(Append(toBroker[x], beat), ResultOf(c, k))
    BY <1>4, <1>6, LongerHas
  <2>2. toBroker'[x] \in {toBroker[x], Append(toBroker[x], beat)}
    BY <1>4 DEF Enqueue
  <2> QED
    BY <1>6, <2>1, <2>2
<1> QED
  BY <1>2, <1>3, <1>5, <1>6 DEF Present

LEMMA TakeLosesNothing ==
  ASSUME SysInv, EmptyHands, NEW p \in Processes, TakeRequest(p), BrokerRests,
         UNCHANGED <<calls, answers, outcome>>,
         NEW c \in Clients, NEW k \in Commands, Present(c, k)
  PROVE  Present(c, k)'
<1> DEFINE a == worker[p].address
           m == Head(toWorker[a])
<1>1. /\ worker[p].at = "recv" /\ worker[p] \in WorkerType /\ a \in Workers
      /\ worker \in [Processes -> WorkerType]
  BY DEF TakeRequest, Reads, Inbox, SysInv, ProgramsOK, Working
<1>2. /\ toWorker[a] # <<>> /\ toWorker' = Dequeue(toWorker, a)
      /\ worker' = [worker EXCEPT ![p].at = "busy", ![p].request = m.request,
                                  ![p].liveness = LIVENESS, ![p].timer = 0]
      /\ UNCHANGED <<toBroker, broker>>
  BY <1>1 DEF TakeRequest, Reads, Inbox, BrokerRests, vars
<1>3. toWorker \in [Workers -> Seq(ToWorker)]
  BY DEF SysInv, ChannelsOK
<1> HIDE DEF m, a
<1>4. /\ worker'[p].request = m.request
      /\ \A q \in Processes \ {p} : worker'[q] = worker[q]
  BY <1>1, <1>2, ZenonT(40) DEF WorkerType
<1>5. worker[p].request # Ask(c, k)
  BY <1>1, Sorts DEF EmptyHands
<1>6. m \in TaskOf(c, k) => worker'[p].request = Ask(c, k)
  BY <1>4 DEF TaskOf
<1>7. ASSUME NEW x \in Workers, Has(toWorker[x], TaskOf(c, k)) PROVE Present(c, k)'
  <2>1. toWorker'[x] = IF x = a THEN Tail(toWorker[a]) ELSE toWorker[x]
    BY <1>2, <1>3 DEF Dequeue
  <2>2. Has(toWorker[a], TaskOf(c, k)) =>
          m \in TaskOf(c, k) \/ Has(Tail(toWorker[a]), TaskOf(c, k))
    BY <1>1, <1>2, <1>3, RestHas DEF m, a
  <2> QED
    BY <1>6, <1>7, <2>1, <2>2 DEF Present
<1>8. ASSUME NEW q \in Processes, worker[q].request = Ask(c, k)
      PROVE  worker'[q].request = Ask(c, k)
  BY <1>4, <1>5, <1>8
<1> QED
  BY <1>2, <1>7, <1>8 DEF Present

LEMMA ReportLosesNothing ==
  ASSUME SysInv, NEW p \in Processes, SendReport(p), BrokerRests,
         UNCHANGED <<calls, answers, outcome>>,
         NEW c \in Clients, NEW k \in Commands, Present(c, k)
  PROVE  Present(c, k)'
<1> DEFINE a == worker[p].address
           m == [kind |-> "REPORT", request |-> worker[p].request]
<1>1. /\ worker[p].at = "busy" /\ a \in Workers /\ worker \in [Processes -> WorkerType]
      /\ m \in ToBroker
  BY DEF SendReport, SysInv, ProgramsOK, Working, ToBroker
<1>2. /\ toBroker' = Enqueue(toBroker, a, m)
      /\ worker' = [worker EXCEPT ![p].at = "recv", ![p].timer = INTERVAL,
                                  ![p].request = Idle]
      /\ UNCHANGED <<broker, toWorker>>
  BY DEF SendReport, BrokerRests, vars
<1>3. \A q \in Processes \ {p} : worker'[q] = worker[q]
  BY <1>1, <1>2
<1>4. toBroker \in [Workers -> Seq(ToBroker)]
  BY DEF SysInv, ChannelsOK
<1>5. worker[p].request = Ask(c, k) => m \in ResultOf(c, k)
  BY DEF ResultOf
<1> HIDE DEF m, a
<1>6. \A x \in Workers : toBroker'[x] = IF x = a THEN Append(toBroker[a], m) ELSE toBroker[x]
  BY <1>1, <1>2, <1>4 DEF Enqueue
<1>7. Has(Append(toBroker[a], m), ResultOf(c, k)) <=>
        Has(toBroker[a], ResultOf(c, k)) \/ m \in ResultOf(c, k)
  BY <1>1, <1>4, LongerHas
<1>8. \A x \in Workers : Has(toBroker[x], ResultOf(c, k)) => Has(toBroker'[x], ResultOf(c, k))
  BY <1>6, <1>7
<1>9. ASSUME NEW q \in Processes, worker[q].request = Ask(c, k) PROVE Present(c, k)'
  <2>1. CASE q # p
    BY <1>3, <1>9, <2>1 DEF Present
  <2>2. CASE q = p
    BY <1>1, <1>5, <1>6, <1>7, <1>9, <2>2 DEF Present
  <2> QED
    BY <2>1, <2>2
<1> QED
  BY <1>2, <1>8, <1>9 DEF Present

LEMMA WorkerLosesNothing ==
  ASSUME SysInv, Links, Quiet, steady, faults = 0, EmptyHands,
         NEW p \in Processes, WorkerRuns(p),
         NEW c \in Clients, NEW k \in Commands, Present(c, k)
  PROVE  Present(c, k)'
<1>1. BrokerRests /\ UNCHANGED <<calls, answers, outcome>>
  BY DEF WorkerRuns, clients
<1>2. CASE TakeDisconnect(p) \/ WakeUp(p) \/ StartWorker(p)
  <2>1. Reconnects(p)
    BY <1>2, ConnectEffect DEF TakeDisconnect, WakeUp, StartWorker
  <2>2. CASE IsCut(p)
    BY <1>1, <2>1, <2>2, ConnectLosesNothing
  <2>3. CASE KeepsConnection(p)
    <3>1. worker'[p].address # worker[p].address
      BY <2>1 DEF Reconnects, Unused, Open
    <3> QED
      BY <2>3, <3>1 DEF KeepsConnection
  <2> QED
    BY <2>2, <2>3, WorkerEffect
<1>3. CASE TakeRequest(p)
  BY <1>1, <1>3, TakeLosesNothing
<1>4. CASE TakeHeartbeat(p) \/ PollTimesOut(p) \/ GiveUpOnBroker(p)
  BY <1>1, <1>4, TurnLosesNothing
<1>5. CASE SendReport(p)
  BY <1>1, <1>5, ReportLosesNothing
<1> QED
  BY <1>2, <1>3, <1>4, <1>5 DEF WorkerRuns

LEMMA ClientLosesNothing ==
  ASSUME SysInv, NEW j \in Commands, ClientRuns(j)
  PROVE  /\ \A k \in Commands : Present(Asker[k], k) => Present(Asker[k], k)'
         /\ \A k \in Commands : outcome[k] = "new" /\ outcome'[k] # "new" => Present(Asker[k], k)'
<1> DEFINE c == Asker[j]
<1>1. /\ UNCHANGED <<broker, toBroker, toWorker, worker>>
      /\ c \in Clients /\ \A k \in Commands : Asker[k] \in Clients
      /\ calls \in [Clients -> Seq(Asked)] /\ answers \in [Clients -> Seq(Commands)]
      /\ outcome \in [Commands -> ToBe \cup Commands]
  BY CompositionAssumption
     DEF ClientRuns, BrokerRests, vars, SysInv, ChannelsOK, ProgramsOK, ToBe
<1>2. \A k \in Commands : k \notin ToBe
  BY CompositionAssumption DEF ToBe
<1>3. ASSUME outcome[j] \in ToBe,
             NEW v, outcome' = [outcome EXCEPT ![j] = v],
             NEW k \in Commands, NEW x \in Commands, outcome[x] = k
      PROVE  outcome'[x] = k
  BY <1>1, <1>2, <1>3
<1>4. ASSUME NEW s \in Services, Call(j, s)
      PROVE  /\ \A k \in Commands : Present(Asker[k], k) => Present(Asker[k], k)'
             /\ \A k \in Commands : outcome[k] = "new" /\ outcome'[k] # "new" =>
                                      Present(Asker[k], k)'
  <2> DEFINE r == [service |-> s, command |-> j]
  <2>1. /\ outcome[j] \in ToBe /\ outcome' = [outcome EXCEPT ![j] = "waiting"]
        /\ calls' = Enqueue(calls, c, r) /\ answers' = answers
    BY <1>4 DEF Call, ToBe
  <2>2. r \in Asked /\ r \in CallOf(j)
    BY DEF Asked, CallOf
  <2> HIDE DEF c, r
  <2>3. \A d \in Clients : calls'[d] = IF d = c THEN Append(calls[c], r) ELSE calls[d]
    BY <1>1, <2>1 DEF Enqueue
  <2>4. ASSUME NEW M PROVE Has(Append(calls[c], r), M) <=> Has(calls[c], M) \/ r \in M
    BY <1>1, <2>2, LongerHas DEF c
  <2>5. ASSUME NEW k \in Commands, Present(Asker[k], k) PROVE Present(Asker[k], k)'
    <3>1. Has(calls[Asker[k]], CallOf(k)) => Has(calls'[Asker[k]], CallOf(k))
      BY <1>1, <2>3, <2>4
    <3>2. \A x \in Commands : outcome[x] = k => outcome'[x] = k
      BY <1>3, <2>1
    <3> QED
      BY <1>1, <2>1, <2>5, <3>1, <3>2 DEF Present
  <2>6. Present(Asker[j], j)'
    <3>1. Has(calls'[c], CallOf(j))
      BY <1>1, <2>2, <2>3, <2>4 DEF c
    <3> QED
      BY <3>1 DEF Present, c
  <2>7. \A k \in Commands : outcome[k] = "new" /\ outcome'[k] # "new" => k = j
    BY <1>1, <2>1
  <2> QED
    BY <2>5, <2>6, <2>7
<1>5. CASE Return(j)
  <2> DEFINE i == Head(answers[c])
  <2>1. /\ outcome[j] \in ToBe /\ outcome[j] # "new" /\ outcome' = [outcome EXCEPT ![j] = i]
        /\ answers[c] # <<>> /\ answers' = Dequeue(answers, c) /\ calls' = calls
    BY <1>5 DEF Return, ToBe
  <2> HIDE DEF c
  <2>2. \A d \in Clients : answers'[d] = IF d = c THEN Tail(answers[c]) ELSE answers[d]
    BY <1>1, <2>1 DEF Dequeue
  <2>3. ASSUME NEW k \in Commands, Present(Asker[k], k) PROVE Present(Asker[k], k)'
    <3>1. CASE Has(answers[Asker[k]], AnswerOf(k))
      <4>1. CASE Asker[k] # c
        BY <1>1, <2>2, <3>1, <4>1 DEF Present
      <4>2. CASE Asker[k] = c
        <5>1. i \in AnswerOf(k) \/ Has(Tail(answers[c]), AnswerOf(k))
          BY <1>1, <2>1, <3>1, <4>2, RestHas DEF c
        <5>2. i \in AnswerOf(k) => outcome'[j] = k
          BY <1>1, <2>1 DEF AnswerOf
        <5> QED
          BY <1>1, <2>2, <4>2, <5>1, <5>2 DEF Present
      <4> QED
        BY <4>1, <4>2
    <3>2. \A x \in Commands : outcome[x] = k => outcome'[x] = k
      BY <1>3, <2>1
    <3> QED
      BY <1>1, <2>1, <2>3, <3>1, <3>2 DEF Present
  <2>4. \A k \in Commands : ~(outcome[k] = "new" /\ outcome'[k] # "new")
    BY <1>1, <2>1
  <2> QED
    BY <2>3, <2>4
<1>6. CASE TimeOut(j)
  <2>1. /\ outcome[j] \in ToBe /\ outcome[j] # "new"
        /\ outcome' = [outcome EXCEPT ![j] = "timeout"] /\ UNCHANGED <<calls, answers>>
    BY <1>6 DEF TimeOut, ToBe
  <2>2. ASSUME NEW k \in Commands, Present(Asker[k], k) PROVE Present(Asker[k], k)'
    <3>1. \A x \in Commands : outcome[x] = k => outcome'[x] = k
      BY <1>3, <2>1
    <3> QED
      BY <1>1, <2>1, <2>2, <3>1 DEF Present
  <2>3. \A k \in Commands : ~(outcome[k] = "new" /\ outcome'[k] # "new")
    BY <1>1, <2>1
  <2> QED
    BY <2>2, <2>3
<1> QED
  BY <1>4, <1>5, <1>6 DEF ClientRuns

LEMMA EmptyHandsInductive ==
  ASSUME SysInv, [SystemNext]_all, EmptyHands
  PROVE  EmptyHands'
<1>1. worker \in [Processes -> WorkerType]
  BY DEF SysInv, ProgramsOK
<1>2. CASE worker' = worker
  BY <1>2 DEF EmptyHands
<1>3. ASSUME NEW p \in Processes, worker'[p].request = Idle \/ worker'[p].at = "busy",
             \A q \in Processes \ {p} : worker'[q] = worker[q]
      PROVE  EmptyHands'
  BY <1>3 DEF EmptyHands
<1>4. ASSUME NEW p \in Processes, Connect(p) PROVE EmptyHands'
  <2>1. Reconnects(p)
    BY <1>4, ConnectEffect
  <2>2. worker'[p].request = Idle /\ \A q \in Processes \ {p} : worker'[q] = worker[q]
    BY <2>1 DEF Reconnects
  <2> QED
    BY <1>3, <2>2
<1>5. ASSUME NEW p \in Processes, TakeRequest(p) \/ SendReport(p) PROVE EmptyHands'
  <2>1. /\ worker'[p].request = Idle \/ worker'[p].at = "busy"
        /\ \A q \in Processes \ {p} : worker'[q] = worker[q]
    <3>1. CASE TakeRequest(p)
      BY <1>1, <3>1 DEF TakeRequest, WorkerType
    <3>2. CASE SendReport(p)
      BY <1>1, <3>2 DEF SendReport, WorkerType
    <3> QED
      BY <1>5, <3>1, <3>2
  <2> QED
    BY <1>3, <2>1
<1>6. ASSUME NEW p \in Processes, TakeHeartbeat(p) \/ PollTimesOut(p) \/ GiveUpOnBroker(p)
      PROVE  EmptyHands'
  <2>1. worker[p].at = "recv"
    BY <1>6 DEF TakeHeartbeat, Reads, Inbox, PollTimesOut, GiveUpOnBroker, NothingCame
  <2>2. worker'[p].request = worker[p].request
    BY <1>1, <1>6 DEF TakeHeartbeat, PollTimesOut, GiveUpOnBroker, PollAgain, WorkerType
  <2>3. \A q \in Processes \ {p} : worker'[q] = worker[q]
    BY <1>1, <1>6 DEF TakeHeartbeat, PollTimesOut, GiveUpOnBroker, PollAgain
  <2>4. worker'[p].request = Idle
    BY <2>1, <2>2 DEF EmptyHands
  <2> QED
    BY <1>3, <2>3, <2>4
<1>7. ASSUME NEW p \in Processes, WorkerRuns(p) PROVE EmptyHands'
  BY <1>4, <1>5, <1>6, <1>7 DEF WorkerRuns, TakeDisconnect, WakeUp, StartWorker
<1>8. ASSUME NEW p \in Processes, WorkerEnds(p) PROVE EmptyHands'
  <2>1. worker' = [worker EXCEPT ![p] = Down]
    BY <1>8 DEF WorkerEnds, Interrupt, Crash, Ends
  <2>2. worker'[p].request = Idle /\ \A q \in Processes \ {p} : worker'[q] = worker[q]
    BY <1>1, <2>1 DEF Down
  <2> QED
    BY <1>3, <2>2
<1>9. CASE TimePasses
  <2>1. \A p \in Processes : /\ worker'[p].at = worker[p].at
                             /\ worker'[p].request = worker[p].request
    BY <1>9, TimeEffect DEF Ages, Aged
  <2> QED
    BY <2>1 DEF EmptyHands
<1>10. CASE BrokerRuns \/ UNCHANGED all \/ \E k \in Commands : ClientRuns(k)
  <2>1. worker' = worker
    BY <1>10 DEF BrokerRuns, HandleWorker, HandleClient, BrokerHeartbeat, StopBroker, StartBroker,
                 all, ClientRuns
  <2> QED
    BY <1>2, <2>1
<1> QED
  BY <1>7, <1>8, <1>9, <1>10 DEF SystemNext

LEMMA TimeLosesNothing ==
  ASSUME SysInv, TimePasses, NEW c \in Clients, NEW k \in Commands, Present(c, k)
  PROVE  Present(c, k)'
<1>1. /\ UNCHANGED <<toBroker, toWorker, calls, answers, outcome>>
      /\ broker'.requests = broker.requests
      /\ \A p \in Processes : worker'[p].request = worker[p].request
  BY TimeEffect DEF Ages, Aged, network
<1> QED
  BY <1>1 DEF Present

\* No step of a steady run without faults loses a call.
LEMMA NothingLostInductive ==
  ASSUME SysInv, SysInv', [SystemNext]_all, Links, Quiet, Quiet', EmptyHands, NothingLost
  PROVE  NothingLost'
<1> SUFFICES ASSUME steady', faults' = 0, NEW k \in Commands, outcome'[k] # "new"
             PROVE  Present(Asker[k], k)'
  BY DEF NothingLost
<1>1. Asker[k] \in Clients
  BY CompositionAssumption
<1>2. steady /\ faults = 0
  <2>1. UNCHANGED <<steady, faults>> \/ (UNCHANGED steady /\ faults' = faults + 1)
    <3>1. StopBroker \/ (\E p \in Processes : WorkerEnds(p)) =>
            UNCHANGED steady /\ faults' = faults + 1
      BY DEF StopBroker, WorkerEnds
    <3>2. (\E a \in Workers : HandleWorker(a)) \/ (\E c \in Clients : HandleClient(c))
            \/ BrokerHeartbeat \/ StartBroker => UNCHANGED <<steady, faults>>
      BY DEF HandleWorker, HandleClient, BrokerHeartbeat, StartBroker
    <3>3. (\E p \in Processes : WorkerRuns(p)) \/ (\E j \in Commands : ClientRuns(j))
            \/ UNCHANGED all => UNCHANGED <<steady, faults>>
      BY DEF WorkerRuns, ClientRuns, all
    <3>4. TimePasses => UNCHANGED <<steady, faults>>
      BY TimeEffect DEF Ages
    <3> QED
      BY <3>1, <3>2, <3>3, <3>4 DEF SystemNext, BrokerRuns
  <2>2. faults \in Nat
    BY FaultsAssumption DEF SysInv, ProgramsOK
  <2>3. steady' = steady /\ (faults' = faults \/ faults' = faults + 1)
    BY <2>1
  <2>4. faults = 0
    BY <2>2, <2>3
  <2>5. steady
    BY <2>3, Zenon
  <2> QED
    BY <2>4, <2>5
<1>3. \A j \in Commands : outcome[j] # "new" => Present(Asker[j], j)
  BY <1>2 DEF NothingLost
<1>4. ASSUME NEW j \in Commands, ClientRuns(j) PROVE Present(Asker[k], k)'
  BY <1>3, <1>4, ClientLosesNothing
<1>5. CASE BrokerIterates
  <2>1. outcome' = outcome
    BY <1>5 DEF BrokerIterates, BrokerHeartbeat, HandleClient, HandleWorker, clients
  <2> QED
    BY <1>1, <1>2, <1>3, <1>5, <2>1, BrokerLosesNothing
<1>6. ASSUME NEW p \in Processes, WorkerRuns(p) PROVE Present(Asker[k], k)'
  <2>1. outcome' = outcome
    BY <1>6 DEF WorkerRuns, clients
  <2> QED
    BY <1>1, <1>2, <1>3, <1>6, <2>1, WorkerLosesNothing
<1>7. CASE TimePasses
  <2>1. outcome' = outcome
    BY <1>7, TimeEffect DEF Ages
  <2> QED
    BY <1>1, <1>3, <1>7, <2>1, TimeLosesNothing
<1>8. CASE UNCHANGED all
  BY <1>3, <1>8 DEF all, vars, network, clients, Present
<1>9. ~StopBroker /\ ~StartBroker /\ \A p \in Processes : ~WorkerEnds(p)
  <2>1. faults' # faults + 1
    BY <1>2 DEF SysInv
  <2>2. status = "up"
    BY <1>2 DEF Quiet
  <2> QED
    BY <2>1, <2>2 DEF StopBroker, StartBroker, Start, WorkerEnds
<1> QED
  BY <1>4, <1>5, <1>6, <1>7, <1>8, <1>9 DEF SystemNext, BrokerRuns, BrokerIterates

\* What carries a call is a copy of it.
LEMMA CopyThere ==
  ASSUME NEW tag, NEW queues, NEW M, NEW o \in DOMAIN queues, Has(queues[o], M)
  PROVE  {tag} \X Places(queues, M) # {}
<1>1. PICK i \in DOMAIN queues[o] : queues[o][i] \in M
  BY DEF Has
<1> DEFINE T(x) == {<<x, n>> : n \in {j \in DOMAIN queues[x] : queues[x][j] \in M}}
<1>2. <<o, i>> \in T(o)
  BY <1>1
<1>3. T(o) \subseteq Places(queues, M)
  BY DEF Places
<1>4. <<tag, <<o, i>>>> \in {tag} \X Places(queues, M)
  BY <1>2, <1>3
<1> QED
  BY <1>4

LEMMA PresentIsCopied ==
  ASSUME SysInv, NEW k \in Commands, NEW c \in Clients, Present(c, k)
  PROVE  Copies(k) # {}
<1> DEFINE asked == [client : Clients, command : {k}]
           tasks == [to : Workers, kind : {"REQUEST"}, request : asked]
           results == [kind : {"REPORT"}, request : asked]
<1>1. /\ DOMAIN calls = Clients /\ DOMAIN broker.requests = Names
      /\ DOMAIN toWorker = Workers /\ DOMAIN toBroker = Workers /\ DOMAIN answers = Clients
  BY DEF SysInv, ChannelsOK, IInv, TypeOK, BrokerType
<1>2. Ask(c, k) \in asked
  BY DEF Ask
<1>3. /\ AskOf(c, k) \subseteq asked /\ TaskOf(c, k) \subseteq tasks
      /\ ResultOf(c, k) \subseteq results
  BY <1>2 DEF AskOf, TaskOf, ResultOf
<1>4. \A q : /\ Has(q, AskOf(c, k)) => Has(q, asked)
             /\ Has(q, TaskOf(c, k)) => Has(q, tasks)
             /\ Has(q, ResultOf(c, k)) => Has(q, results)
  BY <1>3 DEF Has
<1>5. /\ {"calls"} \X Places(calls, CallOf(k)) \subseteq Copies(k)
      /\ {"requests"} \X Places(broker.requests, asked) \subseteq Copies(k)
      /\ {"toWorker"} \X Places(toWorker, tasks) \subseteq Copies(k)
      /\ {"hands"} \X {p \in Processes : worker[p].request \in asked} \subseteq Copies(k)
      /\ {"toBroker"} \X Places(toBroker, results) \subseteq Copies(k)
      /\ {"answers"} \X Places(answers, AnswerOf(k)) \subseteq Copies(k)
      /\ {"outcome"} \X {x \in Commands : outcome[x] = k} \subseteq Copies(k)
  BY DEF Copies, CallOf, AnswerOf
<1> HIDE DEF asked, tasks, results
<1>6. CASE Has(calls[c], CallOf(k))
  <2>1. {"calls"} \X Places(calls, CallOf(k)) # {}
    BY <1>1, <1>6, CopyThere
  <2> QED
    BY <1>5, <2>1
<1>7. CASE Has(answers[c], AnswerOf(k))
  <2>1. {"answers"} \X Places(answers, AnswerOf(k)) # {}
    BY <1>1, <1>7, CopyThere
  <2> QED
    BY <1>5, <2>1
<1>8. ASSUME NEW s \in Names, Has(broker.requests[s], AskOf(c, k)) PROVE Copies(k) # {}
  <2>1. {"requests"} \X Places(broker.requests, asked) # {}
    BY <1>1, <1>4, <1>8, CopyThere
  <2> QED
    BY <1>5, <2>1
<1>9. ASSUME NEW a \in Workers, Has(toWorker[a], TaskOf(c, k)) PROVE Copies(k) # {}
  <2>1. {"toWorker"} \X Places(toWorker, tasks) # {}
    BY <1>1, <1>4, <1>9, CopyThere
  <2> QED
    BY <1>5, <2>1
<1>10. ASSUME NEW a \in Workers, Has(toBroker[a], ResultOf(c, k)) PROVE Copies(k) # {}
  <2>1. {"toBroker"} \X Places(toBroker, results) # {}
    BY <1>1, <1>4, <1>10, CopyThere
  <2> QED
    BY <1>5, <2>1
<1>11. ASSUME NEW p \in Processes, worker[p].request = Ask(c, k) PROVE Copies(k) # {}
  <2>1. <<"hands", p>> \in {"hands"} \X {q \in Processes : worker[q].request \in asked}
    BY <1>2, <1>11
  <2> QED
    BY <1>5, <2>1
<1>12. ASSUME NEW x \in Commands, outcome[x] = k PROVE Copies(k) # {}
  <2>1. <<"outcome", x>> \in {"outcome"} \X {y \in Commands : outcome[y] = k}
    BY <1>12
  <2> QED
    BY <1>5, <2>1
<1> QED
  BY <1>6, <1>7, <1>8, <1>9, <1>10, <1>11, <1>12 DEF Present

\* In a steady run without faults every call is somewhere, with what its proof needs.
THEOREM AlwaysPresent ==
  ASSUME BrokerIsHeard
  PROVE  System => [](SysInv /\ Links /\ Quiet /\ EmptyHands /\ NothingLost)
<1>1. SystemInit => SysInv /\ Links /\ Quiet /\ EmptyHands /\ NothingLost
  <2>1. SystemInit => EmptyHands /\ NothingLost
    BY DEF SystemInit, Down, EmptyHands, NothingLost
  <2> QED
    BY <2>1, SystemInitial, LinksInitially, QuietInitially
<1>2. SysInv /\ Links /\ Quiet /\ EmptyHands /\ NothingLost /\ [SystemNext]_all =>
        (SysInv /\ Links /\ Quiet /\ EmptyHands /\ NothingLost)'
  <2> SUFFICES ASSUME SysInv, Links, Quiet, EmptyHands, NothingLost, [SystemNext]_all
               PROVE  (SysInv /\ Links /\ Quiet /\ EmptyHands /\ NothingLost)'
    OBVIOUS
  <2>1. SysInv'
    BY SystemInductive
  <2>2. Links' /\ Quiet' /\ EmptyHands'
    BY <2>1, LinksInductive, QuietInductive, EmptyHandsInductive
  <2>3. NothingLost'
    BY <2>1, <2>2, NothingLostInductive
  <2> QED
    BY <2>1, <2>2, <2>3
<1> QED
  BY <1>1, <1>2, PTL DEF System

\* No call is lost while the workers keep up and nobody crashes: a client's request,
\* the task of a worker and its REPORT wait, are on their way, or have arrived, for
\* all intervals with which a worker hears the broker before it gives up.
THEOREM CallsNotLost ==
  ASSUME BrokerIsHeard
  PROVE  System => []CallsAreNotLost
<1>1. SysInv /\ NothingLost => CallsAreNotLost
  <2> SUFFICES ASSUME SysInv, NothingLost, NEW k \in Commands,
                      steady, faults = 0, outcome[k] # "new"
               PROVE  Copies(k) # {}
    BY DEF CallsAreNotLost
  <2>1. Asker[k] \in Clients /\ Present(Asker[k], k)
    BY CompositionAssumption DEF NothingLost
  <2> QED
    BY <2>1, PresentIsCopied
<1> QED
  BY <1>1, AlwaysPresent, PTL

=============================================================================
