------------------------- MODULE ServiceQueueProofs -------------------------
(***************************************************************************)
(* The proof that the broker implements ServiceQueue, for any workers,     *)
(* services and requests: whatever its lists and timers do in an iteration *)
(* is one step of the queues that it promises.  With it, that a purge only *)
(* deletes workers that have expired.                                      *)
(***************************************************************************)
EXTENDS MDPBrokerProofs

\* The tables hold no request for a name of the broker's own services.
ReservedIdle(b) == \A s \in MMI : b.requests[s] = <<>>

Members(b, s) == Range(b.queue[s])

-----------------------------------------------------------------------------
(* What a purge and the end of an iteration keep *)

\* Who is a member of a service can be read off the registry.
LEMMA MembersFromRegistry ==
  ASSUME NEW b, Base(b), NEW s \in Names
  PROVE  Members(b, s) = {w \in b.known : b.service[w] = s}
<1>1. ListsMatchRegistry(b) /\ s # NoService
  BY BaseFacts, NamesAssumption
<1> QED
  BY <1>1 DEF ListsMatchRegistry, Attached, Members

\* A purge takes members away, but none that is alive, and leaves live ones only.
LEMMA PurgeMembers ==
  ASSUME NEW b, Base(b), NEW s \in Names
  PROVE  /\ Members(Purge(b), s) \subseteq Members(b, s)
         /\ \A w \in Members(b, s) : b.expiry[w] > 0 => w \in Members(Purge(b), s)
         /\ \A w \in Members(Purge(b), s) : Purge(b).expiry[w] > 0
<1>1. /\ Base(Purge(b))
      /\ Purge(b).known \subseteq b.known
      /\ \A w \in b.known : b.expiry[w] > 0 => w \in Purge(b).known
      /\ \A w \in Purge(b).known : Purge(b).service[w] = b.service[w]
      /\ \A w \in Range(Purge(b).waiting) : Purge(b).expiry[w] > 0
  BY PurgeBase
<1>2. /\ Members(b, s) = {w \in b.known : b.service[w] = s}
      /\ Members(Purge(b), s) = {w \in Purge(b).known : Purge(b).service[w] = s}
  BY <1>1, MembersFromRegistry
<1>3. s # NoService /\ ListsMatchRegistry(Purge(b))
  BY <1>1, BaseFacts, NamesAssumption
<1>4. Members(Purge(b), s) \subseteq Range(Purge(b).waiting)
  BY <1>2, <1>3 DEF ListsMatchRegistry, Attached
<1> QED
  BY <1>1, <1>2, <1>4

\* The end of an iteration writes no request, and deletes nobody who is alive.
LEMMA FinishFacts ==
  ASSUME NEW b, Base(b), NEW work, NEW other, Finish(b, work, other)
  PROVE  /\ broker'.requests = b.requests
         /\ sent'.work = work
         /\ status' = status
         /\ \A w \in b.known \ broker'.known : b.expiry[w] = 0
         /\ \A s \in Names :
              /\ Members(broker', s) \subseteq Members(b, s)
              /\ \A w \in Members(b, s) : b.expiry[w] > 0 => w \in Members(broker', s)
<1>1. /\ broker' = IF heartbeatIn < 0 THEN Purge(b) ELSE b
      /\ sent'.work = work /\ status' = status
  BY DEF Finish
<1>2. CASE broker' = b
  BY <1>1, <1>2
<1>3. CASE broker' = Purge(b)
  <2>1. b.known \in SUBSET Workers /\ b.expiry \in [Workers -> 0..EXPIRY] /\ EXPIRY \in Nat
    BY BaseFacts, NumbersFacts
  <2>2. \A w \in b.known \ Purge(b).known : b.expiry[w] = 0
    BY <2>1, PurgeBase
  <2> QED
    BY <1>1, <1>3, <2>2, PurgeBase, PurgeMembers
<1> QED
  BY <1>1, <1>2, <1>3

\* s_service_dispatch hands over all requests of a service or, if it has nobody
\* left after the purge, none.
LEMMA DispatchFacts ==
  ASSUME NEW b, Base(b), NEW s \in Names, Stranded(b) \subseteq {s}
  PROVE  LET d == Dispatch(b, s).broker
             work == Dispatch(b, s).work
         IN  /\ Base(d)
             /\ work \in Seq(RequestMsg)
             /\ d.known = Purge(b).known /\ d.expiry = Purge(b).expiry
             /\ \A t \in Names : Members(d, t) = Members(Purge(b), t)
             /\ \A t \in Names : t # s => d.requests[t] = b.requests[t]
             /\ \/ Members(d, s) = {} /\ d.requests[s] = b.requests[s] /\ work = <<>>
                \/ /\ Members(d, s) # {} /\ d.requests[s] = <<>>
                   /\ Len(work) = Len(b.requests[s])
                   /\ \A i \in 1..Len(work) : /\ work[i].request = b.requests[s][i]
                                              /\ work[i].to \in Members(d, s)
<1> DEFINE p == Purge(b)
           q == p.queue[s]
           r == p.requests[s]
           rotated == Rotate(q, Len(r))
           a == [p EXCEPT !.queue[s] = rotated, !.requests[s] = <<>>]
           work == [i \in 1..Len(r) |-> [to |-> Popped(q, i), kind |-> "REQUEST",
                                         request |-> r[i]]]
<1>1. Base(p) /\ p.requests = b.requests
  BY PurgeBase
<1>2. Base(Dispatch(b, s).broker) /\ Dispatch(b, s).work \in Seq(RequestMsg)
  BY DispatchGood DEF Good
<1> HIDE DEF p
<1>3. p \in BrokerType /\ q \in Seq(Workers) /\ r \in Seq(Request) /\ Len(r) \in Nat
  <2>1. /\ p \in BrokerType
        /\ p.queue \in [Names -> Seq(Workers)] /\ p.requests \in [Names -> Seq(Request)]
    BY <1>1, BaseFacts
  <2> QED
    BY <2>1, LenProperties
<1>4. CASE q = <<>>
  <2>1. Dispatch(b, s) = [broker |-> p, work |-> <<>>]
    BY <1>4 DEF Dispatch, p
  <2>2. Members(p, s) = {}
    BY <1>4 DEF Members, Range
  <2> QED
    BY <1>1, <1>2, <2>1, <2>2 DEF p
<1>5. CASE q # <<>>
  <2>1. Dispatch(b, s) = [broker |-> a, work |-> work]
    BY <1>5 DEF Dispatch, p
  <2>2. /\ a.known = p.known /\ a.expiry = p.expiry
        /\ a.queue[s] = rotated /\ a.requests[s] = <<>>
        /\ \A t \in Names : t # s => a.queue[t] = p.queue[t] /\ a.requests[t] = p.requests[t]
    BY <1>3 DEF BrokerType
  <2> HIDE DEF a, q, r
  <2>3. Range(rotated) = Range(q) /\ Range(q) # {}
    BY <1>3, <1>5, RotateProperties, EmptyRange
  <2>4. Range(q) = Members(p, s)
    BY DEF q, Members
  <2>5. \A t \in Names : Members(a, t) = Members(p, t)
    BY <2>2, <2>3, <2>4 DEF Members
  <2>6. \A i \in 1..Len(r) : Popped(q, i) \in Range(q)
    BY <1>3, <1>5, PoppedInRange
  <2>7. Len(work) = Len(r)
    BY <1>3
  <2>8. \A i \in 1..Len(r) : work[i].request = r[i] /\ work[i].to = Popped(q, i)
    OBVIOUS
  <2>9. r = b.requests[s]
    BY <1>1 DEF r
  <2> HIDE DEF work
  <2>10. \A i \in 1..Len(work) : work[i].request = b.requests[s][i] /\ work[i].to \in Members(a, s)
    BY <2>4, <2>5, <2>6, <2>7, <2>8, <2>9
  <2> QED
    BY <1>1, <1>2, <2>1, <2>2, <2>3, <2>4, <2>5, <2>7, <2>9, <2>10 DEF p
<1> QED
  BY <1>4, <1>5

-----------------------------------------------------------------------------
(* Steps of the broker as steps of ServiceQueue *)

\* The members of a service are workers.
LEMMA MembersAreWorkers ==
  ASSUME NEW b, Base(b), NEW s \in Names
  PROVE  Members(b, s) \subseteq Workers
BY MembersFromRegistry, BaseFacts

\* An iteration that hands over nothing only lets members leave.
LEMMA QuietIteration ==
  ASSUME NEW b, Base(b), b.requests = broker.requests,
         \A s \in Names : Members(b, s) \subseteq Members(broker, s),
         NEW work, NEW other, work = <<>>, Finish(b, work, other)
  PROVE  Promise!Leave /\ (ReservedIdle(broker) => ReservedIdle(broker'))
<1>1. /\ broker'.requests = broker.requests /\ sent'.work = <<>>
      /\ \A s \in Names : Members(broker', s) \subseteq Members(b, s)
  BY FinishFacts
<1>2. \A s \in Services : s \in Names
  BY DEF Names
<1>3. \A s \in Services : /\ Range(broker'.queue[s]) \subseteq Range(broker.queue[s])
                          /\ Range(broker'.queue[s]) \subseteq Workers
  BY <1>1, <1>2, MembersAreWorkers DEF Members
<1>4. ReservedIdle(broker) => ReservedIdle(broker')
  BY <1>1 DEF ReservedIdle
<1> QED
  BY <1>1, <1>3, <1>4 DEF Promise!Leave, Promise!Dropping

\* An iteration that dispatches service s hands over what waits there, or keeps it.
LEMMA DispatchIteration ==
  ASSUME NEW b, Base(b), NEW s \in Names, Stranded(b) \subseteq {s}, DispatchFrom(b, s)
  PROVE  /\ sent'.work \in Seq(RequestMsg)
         /\ status' = status
         /\ \A w \in b.known \ broker'.known : b.expiry[w] = 0
         /\ \A t \in Names : /\ Members(broker', t) \subseteq Members(b, t)
                             /\ \A w \in Members(b, t) :
                                  b.expiry[w] > 0 => w \in Members(broker', t)
         /\ \A t \in Names : t # s => broker'.requests[t] = b.requests[t]
         /\ \/ /\ Members(broker', s) = {}
               /\ broker'.requests[s] = b.requests[s] /\ sent'.work = <<>>
            \/ /\ Members(broker', s) # {} /\ broker'.requests[s] = <<>>
               /\ Len(sent'.work) = Len(b.requests[s])
               /\ \A i \in 1..Len(sent'.work) :
                    /\ sent'.work[i].request = b.requests[s][i]
                    /\ sent'.work[i].to \in Members(broker', s)
<1> DEFINE d == Dispatch(b, s).broker
           work == Dispatch(b, s).work
<1>1. Finish(d, work, <<>>)
  BY DEF DispatchFrom
<1>2. /\ Base(d) /\ work \in Seq(RequestMsg)
      /\ d.known = Purge(b).known /\ d.expiry = Purge(b).expiry
      /\ \A t \in Names : Members(d, t) = Members(Purge(b), t)
      /\ \A t \in Names : t # s => d.requests[t] = b.requests[t]
      /\ \/ Members(d, s) = {} /\ d.requests[s] = b.requests[s] /\ work = <<>>
         \/ /\ Members(d, s) # {} /\ d.requests[s] = <<>>
            /\ Len(work) = Len(b.requests[s])
            /\ \A i \in 1..Len(work) : /\ work[i].request = b.requests[s][i]
                                       /\ work[i].to \in Members(d, s)
  BY DispatchFacts
<1> HIDE DEF d, work
<1>3. /\ broker'.requests = d.requests /\ sent'.work = work /\ status' = status
      /\ \A w \in d.known \ broker'.known : d.expiry[w] = 0
      /\ \A t \in Names :
           /\ Members(broker', t) \subseteq Members(d, t)
           /\ \A w \in Members(d, t) : d.expiry[w] > 0 => w \in Members(broker', t)
  BY <1>1, <1>2, FinishFacts
<1>4. \A t \in Names : /\ Members(d, t) \subseteq Members(b, t)
                       /\ \A w \in Members(b, t) : b.expiry[w] > 0 => w \in Members(d, t)
                       /\ \A w \in Members(d, t) : d.expiry[w] > 0
  BY <1>2, PurgeMembers
<1>5. \A t \in Names : Members(broker', t) = Members(d, t)
  BY <1>3, <1>4
<1>6. \A w \in b.known \ broker'.known : b.expiry[w] = 0
  <2>1. b.known \in SUBSET Workers /\ b.expiry \in [Workers -> 0..EXPIRY] /\ EXPIRY \in Nat
    BY BaseFacts, NumbersFacts
  <2>2. \A w \in b.known \ d.known : b.expiry[w] = 0
    BY <1>2, <2>1, PurgeBase
  <2>3. \A w \in d.known : d.expiry[w] = b.expiry[w]
    BY <1>2, PurgeBase
  <2> QED
    BY <1>3, <2>2, <2>3
<1> QED
  BY <1>2, <1>3, <1>4, <1>5, <1>6

\* For an ordinary service that is the delivery of ServiceQueue.
LEMMA DispatchDelivers ==
  ASSUME IInv, NEW b, Base(b), NEW s \in Services, Stranded(b) \subseteq {s}, DispatchFrom(b, s),
         \A t \in Names : t # s => b.requests[t] = broker.requests[t],
         NEW batch, batch = b.requests[s]
  PROVE  /\ Promise!Deliver(s, batch)
         /\ ReservedIdle(broker) => ReservedIdle(broker')
<1>1. s \in Names /\ s \notin MMI /\ \A t \in Services : t \in Names
  BY NamesAssumption DEF Names
<1>2. /\ sent'.work \in Seq(RequestMsg)
      /\ \A t \in Names : t # s => broker'.requests[t] = b.requests[t]
      /\ \/ /\ Members(broker', s) = {}
            /\ broker'.requests[s] = b.requests[s] /\ sent'.work = <<>>
         \/ /\ Members(broker', s) # {} /\ broker'.requests[s] = <<>>
            /\ Len(sent'.work) = Len(b.requests[s])
            /\ \A i \in 1..Len(sent'.work) :
                 /\ sent'.work[i].request = b.requests[s][i]
                 /\ sent'.work[i].to \in Members(broker', s)
  BY <1>1, DispatchIteration
<1>3. ReservedIdle(broker) => ReservedIdle(broker')
  BY <1>1, <1>2 DEF ReservedIdle, Names
<1>4. \A t \in Services : t # s => broker'.requests[t] = broker.requests[t]
  BY <1>1, <1>2
<1>5. CASE /\ Members(broker', s) = {}
           /\ broker'.requests[s] = b.requests[s] /\ sent'.work = <<>>
  <2>1. [t \in Services |-> broker'.requests[t]]
          = [[t \in Services |-> broker.requests[t]] EXCEPT ![s] = batch]
    BY <1>4, <1>5
  <2> QED
    BY <1>3, <1>5, <2>1 DEF Promise!Deliver, Members
<1>6. CASE /\ Members(broker', s) # {} /\ broker'.requests[s] = <<>>
           /\ Len(sent'.work) = Len(b.requests[s])
           /\ \A i \in 1..Len(sent'.work) :
                /\ sent'.work[i].request = b.requests[s][i]
                /\ sent'.work[i].to \in Members(broker', s)
  <2>1. [t \in Services |-> broker'.requests[t]]
          = [[t \in Services |-> broker.requests[t]] EXCEPT ![s] = <<>>]
    BY <1>4, <1>6
  <2> QED
    BY <1>3, <1>6, <2>1 DEF Promise!Deliver, Promise!Handed, Members
<1> QED
  BY <1>2, <1>5, <1>6

\* A step deletes a live worker only if that worker has asked for it.
DropsExpired ==
  \A w \in broker.known \ broker'.known :
    broker.expiry[w] = 0 \/ status' # status \/ Disconnect(w) \/ ReadyAgain(w)

\* A handler that gives no worker less time deletes those it names, and the purge
\* after it those who have expired.
LEMMA LiveAreKept ==
  ASSUME NEW b, Base(b), NEW work, NEW other, Finish(b, work, other),
         \A w \in broker.known \ b.known : Disconnect(w) \/ ReadyAgain(w),
         \A w \in broker.known \cap b.known : b.expiry[w] = 0 => broker.expiry[w] = 0
  PROVE  DropsExpired
BY FinishFacts DEF DropsExpired

\* What a handler that changes no table does.
LEMMA AnswerStep ==
  ASSUME IInv, NEW msg, Answer(msg)
  PROVE  Promise!Leave /\ (ReservedIdle(broker) => ReservedIdle(broker')) /\ DropsExpired
<1>1. Base(broker) /\ Finish(broker, <<>>, <<msg>>)
  BY DEF IInv, Good, Answer
<1>2. Promise!Leave /\ (ReservedIdle(broker) => ReservedIdle(broker'))
  BY <1>1, QuietIteration
<1>3. DropsExpired
  BY <1>1, LiveAreKept
<1> QED
  BY <1>2, <1>3

\* What the deletion of a worker does that asked for it.
LEMMA DeleteStep ==
  ASSUME IInv, NEW D \in SUBSET broker.known, \A w \in D : Disconnect(w) \/ ReadyAgain(w),
         NEW other, Finish(DeleteWorkers(broker, D), <<>>, other)
  PROVE  Promise!Leave /\ (ReservedIdle(broker) => ReservedIdle(broker')) /\ DropsExpired
<1> DEFINE b == DeleteWorkers(broker, D)
<1>1. Base(broker) /\ broker.known \in SUBSET Workers
  BY BaseFacts DEF IInv, Good
<1>2. /\ Base(b)
      /\ \A s \in Names : Range(b.queue[s]) = Range(broker.queue[s]) \ D
  BY <1>1, DeleteBase
<1>3. /\ b.requests = broker.requests /\ b.known = broker.known \ D
      /\ \A w \in Workers : b.expiry[w] = IF w \in D THEN 0 ELSE broker.expiry[w]
  BY <1>1, DeleteFields
<1> HIDE DEF b
<1>4. \A s \in Names : Members(b, s) \subseteq Members(broker, s)
  BY <1>2 DEF Members
<1>5. Finish(b, <<>>, other)
  BY DEF b
<1>6. Promise!Leave /\ (ReservedIdle(broker) => ReservedIdle(broker'))
  BY <1>2, <1>3, <1>4, <1>5, QuietIteration
<1>7. DropsExpired
  BY <1>1, <1>2, <1>3, <1>5, LiveAreKept
<1> QED
  BY <1>6, <1>7

\* What a handler does that leaves the queues alone and gives nobody less time.
LEMMA SameQueuesStep ==
  ASSUME NEW b, Base(b), b.requests = broker.requests, b.queue = broker.queue,
         broker.known \subseteq b.known,
         \A w \in broker.known : b.expiry[w] = 0 => broker.expiry[w] = 0,
         NEW other, Finish(b, <<>>, other)
  PROVE  Promise!Leave /\ (ReservedIdle(broker) => ReservedIdle(broker')) /\ DropsExpired
<1>1. \A s \in Names : Members(b, s) \subseteq Members(broker, s)
  BY DEF Members
<1>2. Promise!Leave /\ (ReservedIdle(broker) => ReservedIdle(broker'))
  BY <1>1, QuietIteration
<1>3. DropsExpired
  BY LiveAreKept
<1> QED
  BY <1>2, <1>3

\* A new worker joins its service and is there for what waits.
LEMMA ReadyStep ==
  ASSUME IInv, ReservedIdle(broker), NEW w \in Workers, NEW s \in Offered, ReadyNew(w, s)
  PROVE  Promise!Next /\ ReservedIdle(broker') /\ DropsExpired
<1> DEFINE b == Attach(broker, w, s)
<1>1. s \in Names /\ w \in Workers \ broker.known /\ \A t \in Services : t \in Names
  BY NamesAssumption DEF ReadyNew, Names
<1>2. Base(broker) /\ Stranded(broker) = {}
  BY DEF IInv, Good
<1>3. /\ broker \in BrokerType /\ broker.known \in SUBSET Workers
      /\ broker.queue \in [Names -> Seq(Workers)]
      /\ broker.service \in [Workers -> Names \cup {NoService}]
      /\ broker.expiry \in [Workers -> 0..EXPIRY]
  BY <1>2, BaseFacts
<1>4. Base(b) /\ Stranded(b) \subseteq {s}
  BY <1>1, <1>2, AttachBase
<1>5. /\ b.known = broker.known \cup {w} /\ b.requests = broker.requests
      /\ b.expiry[w] = EXPIRY /\ \A v \in Workers : v # w => b.expiry[v] = broker.expiry[v]
      /\ b.queue[s] = Append(broker.queue[s], w)
      /\ \A t \in Names : t # s => b.queue[t] = broker.queue[t]
  BY <1>1, <1>3 DEF Attach, BrokerType
<1>6. DispatchFrom(b, s)
  BY DEF ReadyNew
<1> HIDE DEF b
<1>7. /\ Members(b, s) = Members(broker, s) \cup {w}
      /\ \A t \in Names : t # s => Members(b, t) = Members(broker, t)
  BY <1>1, <1>3, <1>5, AppendRange DEF Members
<1>8. /\ \A v \in b.known \ broker'.known : b.expiry[v] = 0
      /\ \A t \in Names : /\ Members(broker', t) \subseteq Members(b, t)
                          /\ \A v \in Members(b, t) :
                               b.expiry[v] > 0 => v \in Members(broker', t)
      /\ \A t \in Names : t # s => broker'.requests[t] = b.requests[t]
      /\ sent'.work \in Seq(RequestMsg)
      /\ \/ /\ broker'.requests[s] = b.requests[s] /\ sent'.work = <<>>
         \/ /\ broker'.requests[s] = <<>> /\ Len(sent'.work) = Len(b.requests[s])
  BY <1>1, <1>4, <1>6, DispatchIteration
<1>9. DropsExpired
  BY <1>1, <1>3, <1>5, <1>8 DEF DropsExpired
<1>10. w \in Members(broker', s)
  BY <1>1, <1>5, <1>7, <1>8, NumbersFacts
<1>11. \A t \in Names : Members(b, t) \subseteq Workers
  BY <1>4, MembersAreWorkers
<1>12. CASE s \in Services
  <2>0. PICK batch : batch = b.requests[s]
    OBVIOUS
  <2>1. Promise!Deliver(s, batch) /\ ReservedIdle(broker')
    BY <1>4, <1>5, <1>6, <1>12, <2>0, DispatchDelivers
  <2>2. \A t \in Services : w \notin Range(broker.queue[t])
    BY <1>1, <1>2, MembersFromRegistry DEF Members
  <2>3. \A t \in Services : /\ Range(broker'.queue[t]) \subseteq Workers
                            /\ Range(broker'.queue[t]) \subseteq
                                 IF t = s THEN Range(broker.queue[t]) \cup {w}
                                 ELSE Range(broker.queue[t])
    BY <1>1, <1>7, <1>8, <1>11 DEF Members
  <2>4. Promise!Dropping([[t \in Services |-> Range(broker.queue[t])]
                            EXCEPT ![s] = @ \cup {w}])
    BY <1>12, <2>3 DEF Promise!Dropping
  <2>5. Promise!Join(w, s)
    <3>1. batch = [t \in Services |-> broker.requests[t]][s]
      BY <1>5, <1>12, <2>0
    <3>2. Promise!Deliver(s, [t \in Services |-> broker.requests[t]][s])
      BY <2>1, <3>1 DEF Promise!Deliver, Promise!Handed
    <3>3. w \in Range(broker'.queue[s])
      BY <1>10 DEF Members
    <3> QED
      BY <1>12, <2>2, <2>4, <3>2, <3>3
      DEF Promise!Join, Promise!Dropping, Promise!Deliver, Promise!Handed
  <2> QED
    BY <1>9, <1>12, <2>1, <2>5 DEF Promise!Next
<1>13. CASE s \in MMI
  <2>1. b.requests[s] = <<>>
    BY <1>5, <1>13 DEF ReservedIdle
  <2>2. sent'.work = <<>> /\ broker'.requests[s] = <<>>
    BY <1>8, <2>1, EmptySeq
  <2>3. ReservedIdle(broker')
    BY <1>5, <1>8, <2>2 DEF ReservedIdle, Names
  <2>4. \A t \in Services : t # s /\ broker'.requests[t] = broker.requests[t]
    BY <1>1, <1>5, <1>8, <1>13, NamesAssumption
  <2>5. \A t \in Services : /\ Range(broker'.queue[t]) \subseteq Range(broker.queue[t])
                            /\ Range(broker'.queue[t]) \subseteq Workers
    BY <1>1, <1>7, <1>8, <1>11, <2>4 DEF Members
  <2>6. Promise!Leave
    BY <2>2, <2>4, <2>5 DEF Promise!Leave, Promise!Dropping
  <2> QED
    BY <1>9, <2>3, <2>6 DEF Promise!Next
<1> QED
  BY <1>1, <1>12, <1>13 DEF Names

\* A request that is accepted waits behind the others, and goes out with them.
LEMMA SubmitStep ==
  ASSUME IInv, ReservedIdle(broker), NEW c \in Clients, NEW s \in Services, NEW cmd \in Commands,
         Submit(c, s, cmd)
  PROVE  Promise!Next /\ ReservedIdle(broker') /\ DropsExpired
<1>1. PICK r \in Request : r = [client |-> c, command |-> cmd]
  BY DEF Request
<1> DEFINE b == [broker EXCEPT !.requests[s] = Append(@, r)]
<1>2. s \in Names /\ \A t \in Services : t \in Names
  BY DEF Names
<1>3. Base(broker) /\ Stranded(broker) = {} /\ broker \in BrokerType
  BY BaseFacts DEF IInv, Good
<1>4. Base(b) /\ Stranded(b) \subseteq {s}
  BY <1>2, <1>3, EnqueueBase
<1>5. /\ b.known = broker.known /\ b.expiry = broker.expiry /\ b.queue = broker.queue
      /\ b.requests[s] = Append(broker.requests[s], r)
      /\ \A t \in Names : t # s => b.requests[t] = broker.requests[t]
  BY <1>2, <1>3 DEF BrokerType
<1>6. DispatchFrom(b, s)
  BY <1>1 DEF Submit
<1> HIDE DEF b
<1>7. /\ \A w \in b.known \ broker'.known : b.expiry[w] = 0
      /\ \A t \in Names : Members(broker', t) \subseteq Members(b, t)
  BY <1>2, <1>4, <1>6, DispatchIteration
<1>8. DropsExpired
  BY <1>5, <1>7 DEF DropsExpired
<1>9. \A t \in Services : /\ Range(broker'.queue[t]) \subseteq Range(broker.queue[t])
                          /\ Range(broker'.queue[t]) \subseteq Workers
  BY <1>2, <1>4, <1>5, <1>7, MembersAreWorkers DEF Members
<1>10. PICK batch : batch = b.requests[s]
  OBVIOUS
<1>11. Promise!Deliver(s, batch) /\ ReservedIdle(broker')
  BY <1>4, <1>5, <1>6, <1>10, DispatchDelivers
<1>12. batch = Append([t \in Services |-> broker.requests[t]][s], r)
  BY <1>5, <1>10
<1>13. Promise!Accept(s, r)
  BY <1>9, <1>11, <1>12
  DEF Promise!Accept, Promise!Dropping, Promise!Deliver, Promise!Handed
<1> QED
  BY <1>8, <1>11, <1>13 DEF Promise!Next

\* The messages of workers.
LEMMA WorkerIsPromised ==
  ASSUME IInv, ReservedIdle(broker), NEW w \in Workers, FromWorker(w), status = "up"
  PROVE  Promise!Next /\ ReservedIdle(broker') /\ DropsExpired
<1>1. /\ Base(broker) /\ broker \in BrokerType /\ broker.known \in SUBSET Workers
      /\ broker.expiry \in [Workers -> 0..EXPIRY]
  BY BaseFacts DEF IInv, Good
<1>2. CASE ReadyAgain(w)
  BY <1>2, DeleteStep DEF ReadyAgain, Promise!Next
<1>3. CASE Disconnect(w)
  BY <1>3, DeleteStep DEF Disconnect, Promise!Next
<1>4. CASE ReadyReserved(w) \/ Unknown(w) \/ \E c \in Clients : Report(w, c)
  BY <1>4, AnswerStep DEF ReadyReserved, Unknown, Report, Promise!Next
<1>5. CASE \E s \in Offered : ReadyNew(w, s)
  BY <1>5, ReadyStep
<1>6. CASE Heartbeat(w)
  <2> DEFINE b == Refresh(broker, w)
  <2>1. w \in broker.known /\ Finish(b, <<>>, <<>>)
    BY <1>6 DEF Heartbeat
  <2>2. Base(b)
    BY <1>1, <2>1, RefreshBase
  <2>3. /\ b.requests = broker.requests /\ b.queue = broker.queue /\ b.known = broker.known
        /\ \A v \in Workers : b.expiry[v] = IF v = w THEN EXPIRY ELSE broker.expiry[v]
    BY <1>1 DEF Refresh, BrokerType
  <2> HIDE DEF b
  <2>4. \A v \in broker.known : b.expiry[v] = 0 => broker.expiry[v] = 0
    BY <1>1, <2>3, NumbersFacts
  <2> QED
    BY <2>1, <2>2, <2>3, <2>4, SameQueuesStep DEF Promise!Next
<1>7. CASE InvalidCommand(w)
  <2> DEFINE b == [broker EXCEPT !.known = @ \cup {w}]
  <2>1. ForeignPeers /\ Finish(b, <<>>, <<>>)
    BY <1>7 DEF InvalidCommand
  <2>2. Base(b)
    BY <2>1, RegisterGood DEF IInv, Good
  <2>3. /\ b.requests = broker.requests /\ b.queue = broker.queue
        /\ broker.known \subseteq b.known /\ b.expiry = broker.expiry
    BY <1>1 DEF BrokerType
  <2> HIDE DEF b
  <2> QED
    BY <2>1, <2>2, <2>3, SameQueuesStep DEF Promise!Next
<1>8. CASE ReportWithoutService(w)
  <2>1. /\ broker'.requests = [s \in Names |-> <<>>] /\ broker'.queue = [s \in Names |-> <<>>]
        /\ sent'.work = <<>> /\ status' # status
    BY <1>8 DEF ReportWithoutService, NewBroker, Silence
  <2>2. \A s \in Services : s \in Names /\ Range(<<>>) = {}
    BY DEF Names, Range
  <2>3. Promise!Restart /\ ReservedIdle(broker') /\ DropsExpired
    BY <2>1, <2>2 DEF Promise!Restart, ReservedIdle, DropsExpired, Names
  <2> QED
    BY <2>3 DEF Promise!Next
<1> QED
  BY <1>2, <1>3, <1>4, <1>5, <1>6, <1>7, <1>8 DEF FromWorker

\* The requests of clients.
LEMMA ClientIsPromised ==
  ASSUME IInv, ReservedIdle(broker), NEW c \in Clients, FromClient(c)
  PROVE  Promise!Next /\ ReservedIdle(broker') /\ DropsExpired
<1>1. Base(broker) /\ broker \in BrokerType /\ broker.blacklist \in [Names -> SUBSET Commands]
  BY BaseFacts DEF IInv, Good
<1>2. ASSUME NEW s \in Services, NEW list \in SUBSET Commands, NEW other,
             Finish([broker EXCEPT !.blacklist[s] = list], <<>>, other)
      PROVE  Promise!Next /\ ReservedIdle(broker') /\ DropsExpired
  <2> DEFINE b == [broker EXCEPT !.blacklist[s] = list]
  <2>1. s \in Names
    BY DEF Names
  <2>2. Base(b)
    BY <2>1, BlacklistGood DEF IInv, Good
  <2>3. /\ b.requests = broker.requests /\ b.queue = broker.queue
        /\ b.known = broker.known /\ b.expiry = broker.expiry
    BY <1>1 DEF BrokerType
  <2> HIDE DEF b
  <2>4. Finish(b, <<>>, other)
    BY <1>2 DEF b
  <2> QED
    BY <2>2, <2>3, <2>4, SameQueuesStep DEF Promise!Next
<1>3. ASSUME NEW msg, Answer(msg)
      PROVE  Promise!Next /\ ReservedIdle(broker') /\ DropsExpired
  BY <1>3, AnswerStep DEF Promise!Next
<1>4. ASSUME NEW s \in Services, NEW cmd \in Commands, Submit(c, s, cmd)
      PROVE  Promise!Next /\ ReservedIdle(broker') /\ DropsExpired
  BY <1>4, SubmitStep
<1>5. ASSUME NEW s \in Services, NEW cmd \in Commands, Enable(c, s, cmd) \/ Disable(c, s, cmd)
      PROVE  Promise!Next /\ ReservedIdle(broker') /\ DropsExpired
  <2>1. s \in Names /\ broker.blacklist[s] \in SUBSET Commands
    BY <1>1 DEF Names
  <2>2. PICK list \in SUBSET Commands : \E other :
          Finish([broker EXCEPT !.blacklist[s] = list], <<>>, other)
    <3>1. CASE Enable(c, s, cmd)
      <4>1. broker.blacklist[s] \ {cmd} \in SUBSET Commands
        BY <2>1
      <4>2. \E other : Finish([broker EXCEPT !.blacklist[s] = broker.blacklist[s] \ {cmd}],
                              <<>>, other)
        BY <3>1 DEF Enable
      <4> QED
        BY <4>1, <4>2
    <3>2. CASE Disable(c, s, cmd)
      <4>1. broker.blacklist[s] \cup {cmd} \in SUBSET Commands
        BY <2>1
      <4>2. \E other : Finish([broker EXCEPT !.blacklist[s] = broker.blacklist[s] \cup {cmd}],
                              <<>>, other)
        BY <3>2 DEF Disable
      <4> QED
        BY <4>1, <4>2
    <3> QED
      BY <1>5, <3>1, <3>2
  <2> QED
    BY <1>2, <2>2
<1> QED
  BY <1>3, <1>4, <1>5 DEF FromClient, Refuse, LookUp, NotImplemented, BadFilter

-----------------------------------------------------------------------------
(* Workers take turns *)

\* What RoundRobin says of one step.
TurnsKept ==
  \A s \in Names :
    \A v, w \in Range(broker.queue[s]) \cap Range(broker'.queue[s]) :
      v # w /\ v \notin Served' =>
        IF w \in Served'
        THEN Before(broker.queue[s], w, v) /\ Before(broker'.queue[s], v, w)
        ELSE Before(broker.queue[s], v, w) => Before(broker'.queue[s], v, w)

\* The lists of services are lists of workers without duplicates.
LEMMA QueueFacts ==
  ASSUME NEW b, Base(b), NEW s \in Names
  PROVE  b.queue[s] \in Seq(Workers) /\ IsInjective(b.queue[s])
BY BaseFacts DEF NoDuplicates

\* s_worker_delete and s_broker_purge keep the order of the lists.
LEMMA DeleteOrder ==
  ASSUME NEW b, Base(b), NEW D \in SUBSET b.known, NEW s \in Names
  PROVE  KeepsOrder(b.queue[s], DeleteWorkers(b, D).queue[s])
BY DeleteFields, QueueFacts, WithoutKeepsOrder

LEMMA PurgeOrder ==
  ASSUME NEW b, Base(b), NEW s \in Names
  PROVE  KeepsOrder(b.queue[s], Purge(b).queue[s])
<1>1. Range(b.waiting) \subseteq b.known
  BY BaseFacts DEF ListsMatchRegistry
<1>2. ExpiredHead(b) \in SUBSET b.known
  BY <1>1 DEF ExpiredHead, Range
<1> QED
  BY <1>2, DeleteOrder DEF Purge

\* The end of an iteration too.
LEMMA FinishOrder ==
  ASSUME NEW b, Base(b), NEW work, NEW other, Finish(b, work, other), NEW s \in Names
  PROVE  /\ KeepsOrder(b.queue[s], broker'.queue[s])
         /\ Range(broker'.queue[s]) \subseteq Range(b.queue[s])
<1>1. broker' = Purge(b) \/ broker' = b
  BY DEF Finish
<1>2. KeepsOrder(b.queue[s], broker'.queue[s])
  BY <1>1, PurgeOrder DEF KeepsOrder
<1>3. Range(broker'.queue[s]) \subseteq Range(b.queue[s])
  BY FinishFacts DEF Members
<1> QED
  BY <1>2, <1>3

\* An iteration that sends no request keeps the order of all lists.
LEMMA QuietTurns ==
  ASSUME NEW b, Base(b), \A s \in Names : KeepsOrder(broker.queue[s], b.queue[s]),
         NEW other, Finish(b, <<>>, other)
  PROVE  TurnsKept
<1>1. \A s \in Names : KeepsOrder(broker.queue[s], broker'.queue[s])
  BY FinishOrder, OrderIsPassedOn
<1>2. Served' = {}
  <2>1. sent'.work = <<>>
    BY DEF Finish
  <2> QED
    BY <2>1 DEF Served, Range
<1> QED
  BY <1>1, <1>2 DEF TurnsKept, KeepsOrder

\* s_service_dispatch serves the workers at the head of the list and moves them
\* behind the others.
LEMMA DispatchTurns ==
  ASSUME Base(broker), NEW b, Base(b), NEW s \in Names, Stranded(b) \subseteq {s},
         \A t \in Names : KeepsOrder(broker.queue[t], b.queue[t]),
         DispatchFrom(b, s)
  PROVE  TurnsKept
<1> DEFINE p == Purge(b)
           q == p.queue[s]
           r == p.requests[s]
           d == Dispatch(b, s).broker
           work == Dispatch(b, s).work
<1>1. Finish(d, work, <<>>) /\ Base(d)
  BY DispatchFacts DEF DispatchFrom
<1>2. Base(p)
  BY PurgeBase
<1>3. \A t \in Names : /\ Range(p.queue[t]) \subseteq Range(b.queue[t])
                       /\ KeepsOrder(b.queue[t], p.queue[t])
  BY PurgeMembers, PurgeOrder DEF Members
<1>4. \A t \in Names : KeepsOrder(broker.queue[t], p.queue[t])
  BY <1>3, OrderIsPassedOn
<1>5. \A t \in Names : /\ KeepsOrder(d.queue[t], broker'.queue[t])
                       /\ Range(broker'.queue[t]) \subseteq Range(d.queue[t])
  BY <1>1, FinishOrder
<1>6. sent'.work = work
  BY <1>1 DEF Finish
<1>7. q \in Seq(Workers) /\ IsInjective(q) /\ r \in Seq(Request) /\ Len(r) \in Nat
  BY <1>2, QueueFacts, BaseFacts, LenProperties
<1>8. CASE q = <<>>
  <2>1. DispatchFrom(b, s) => Finish(p, <<>>, <<>>)
    BY <1>8 DEF DispatchFrom, Dispatch, p
  <2> QED
    BY <1>2, <1>4, <2>1, QuietTurns
<1>9. CASE q # <<>>
  <2> DEFINE served == {Popped(q, i) : i \in 1..Len(r)}
  <2>1. /\ Dispatch(b, s).broker = [p EXCEPT !.queue[s] = Rotate(q, Len(r)),
                                             !.requests[s] = <<>>]
        /\ work = [i \in 1..Len(r) |-> [to |-> Popped(q, i), kind |-> "REQUEST",
                                        request |-> r[i]]]
    BY <1>9 DEF Dispatch
  <2>2. d.queue[s] = Rotate(q, Len(r)) /\ \A t \in Names : t # s => d.queue[t] = p.queue[t]
    BY <1>2, <2>1, BaseFacts DEF BrokerType
  <2>3. Served' = served
    <3> HIDE DEF work, r, q
    <3>1. DOMAIN work = 1..Len(r) /\ \A i \in 1..Len(r) : work[i].to = Popped(q, i)
      BY <2>1
    <3>2. \A x : x \in {m.to : m \in Range(work)} <=> \E i \in 1..Len(r) : x = work[i].to
      BY <3>1 DEF Range
    <3>3. \A x : x \in served <=> \E i \in 1..Len(r) : x = work[i].to
      BY <3>1
    <3>4. {m.to : m \in Range(work)} = served
      <4> HIDE DEF served
      <4> QED
        BY <3>2, <3>3
    <3> QED
      BY <1>6, <3>4 DEF Served
  <2>4. served \subseteq Range(q)
    BY <1>7, <1>9, PoppedInRange
  <2> HIDE DEF served, d, work, r
  <2> SUFFICES ASSUME NEW t \in Names,
                      NEW v \in Range(broker.queue[t]) \cap Range(broker'.queue[t]),
                      NEW w \in Range(broker.queue[t]) \cap Range(broker'.queue[t]),
                      v # w, v \notin served
               PROVE  IF w \in served
                      THEN Before(broker.queue[t], w, v) /\ Before(broker'.queue[t], v, w)
                      ELSE Before(broker.queue[t], v, w) => Before(broker'.queue[t], v, w)
    BY <2>3 DEF TurnsKept
  <2>5. CASE t # s
    <3>1. Range(broker'.queue[t]) \subseteq Range(p.queue[t])
      BY <1>5, <2>2, <2>5
    <3>2. KeepsOrder(broker.queue[t], broker'.queue[t])
      BY <1>4, <1>5, <2>2, <2>5, <3>1, OrderIsPassedOn
    <3>3. w \notin Range(q)
      <4>1. /\ Members(p, s) = {x \in p.known : p.service[x] = s}
            /\ Members(p, t) = {x \in p.known : p.service[x] = t}
        BY <1>2, MembersFromRegistry
      <4>2. w \in Members(p, t)
        BY <3>1 DEF Members
      <4> QED
        BY <2>5, <4>1, <4>2 DEF Members
    <3> QED
      BY <2>4, <3>2, <3>3 DEF KeepsOrder
  <2>6. CASE t = s
    <3>1. Range(d.queue[s]) = Range(q)
      BY <1>7, <1>9, <2>2, RotateProperties
    <3>2. v \in Range(q) /\ w \in Range(q)
      BY <1>5, <2>6, <3>1
    <3>3. IF w \in served
          THEN Before(q, w, v) /\ Before(d.queue[s], v, w)
          ELSE Before(q, v, w) => Before(d.queue[s], v, w)
      BY <1>7, <1>9, <2>2, <3>2, RotateOrder DEF served
    <3>4. Before(d.queue[s], v, w) => Before(broker'.queue[s], v, w)
      BY <1>5, <2>6 DEF KeepsOrder
    <3>5. Before(broker.queue[s], v, w) => Before(q, v, w)
      BY <1>4, <3>2 DEF KeepsOrder
    <3>6. Before(q, w, v) => Before(broker.queue[s], w, v)
      <4>1. broker.queue[s] \in Seq(Workers) /\ IsInjective(broker.queue[s])
        BY QueueFacts
      <4>2. v \in Range(broker.queue[s]) \cap Range(q) /\ w \in Range(broker.queue[s]) \cap Range(q)
        BY <2>6, <3>2
      <4>3. KeepsOrder(broker.queue[s], q)
        BY <1>4
      <4> HIDE DEF q, p
      <4> QED
        BY <1>7, <4>1, <4>2, <4>3, OrderIsOld
    <3> QED
      BY <2>6, <3>3, <3>4, <3>5, <3>6
  <2> QED
    BY <2>5, <2>6
<1> QED
  BY <1>8, <1>9

\* An iteration or a tick that leaves the lists alone.
LEMMA SameTurns ==
  ASSUME \A s \in Names : broker'.queue[s] = broker.queue[s]
  PROVE  Served' = {} => TurnsKept
BY DEF TurnsKept

LEMMA SameQueuesTurns ==
  ASSUME NEW b, Base(b), b.queue = broker.queue, NEW other, Finish(b, <<>>, other)
  PROVE  TurnsKept
<1>1. \A s \in Names : KeepsOrder(broker.queue[s], b.queue[s])
  BY DEF KeepsOrder
<1> QED
  BY <1>1, QuietTurns

LEMMA DeleteTurns ==
  ASSUME Base(broker), NEW D \in SUBSET broker.known, NEW other,
         Finish(DeleteWorkers(broker, D), <<>>, other)
  PROVE  TurnsKept
BY DeleteBase, DeleteOrder, QuietTurns

\* The lists are emptied with the tables.
LEMMA RestartTurns ==
  ASSUME broker' = NewBroker
  PROVE  TurnsKept
<1>1. \A s \in Names : Range(broker'.queue[s]) = {}
  BY DEF NewBroker, Range
<1> QED
  BY <1>1 DEF TurnsKept

\* The messages of workers keep the turns.
LEMMA WorkerTurns ==
  ASSUME IInv, NEW w \in Workers, FromWorker(w)
  PROVE  TurnsKept
<1>1. /\ Base(broker) /\ broker \in BrokerType /\ broker.known \in SUBSET Workers
      /\ Stranded(broker) = {} /\ broker.queue \in [Names -> Seq(Workers)]
  BY BaseFacts DEF IInv, Good
<1>2. CASE ReadyAgain(w)
  <2>1. {w} \in SUBSET broker.known
    BY <1>2 DEF ReadyAgain
  <2> QED
    BY <1>1, <1>2, <2>1, DeleteTurns DEF ReadyAgain
<1>3. CASE Disconnect(w)
  BY <1>1, <1>3, DeleteTurns DEF Disconnect
<1>4. CASE ReadyReserved(w) \/ Unknown(w) \/ \E c \in Clients : Report(w, c)
  BY <1>1, <1>4, SameQueuesTurns DEF ReadyReserved, Unknown, Report, Answer
<1>5. ASSUME NEW s \in Offered, ReadyNew(w, s)
      PROVE  TurnsKept
  <2> DEFINE b == Attach(broker, w, s)
  <2>1. s \in Names /\ w \in Workers \ broker.known /\ DispatchFrom(b, s)
    BY <1>5, NamesAssumption DEF ReadyNew, Names
  <2>2. Base(b) /\ Stranded(b) \subseteq {s}
    BY <1>1, <2>1, AttachBase
  <2>3. /\ b.queue[s] = Append(broker.queue[s], w)
        /\ \A t \in Names : t # s => b.queue[t] = broker.queue[t]
    BY <1>1, <2>1 DEF Attach, BrokerType
  <2> HIDE DEF b
  <2>4. \A t \in Names : t # s => KeepsOrder(broker.queue[t], b.queue[t])
    BY <2>3 DEF KeepsOrder
  <2>5. KeepsOrder(broker.queue[s], b.queue[s])
    BY <1>1, <2>1, <2>3, AppendKeepsOrder
  <2> QED
    BY <1>1, <2>1, <2>2, <2>4, <2>5, DispatchTurns
<1>6. CASE Heartbeat(w)
  <2>1. w \in broker.known /\ Finish(Refresh(broker, w), <<>>, <<>>)
    BY <1>6 DEF Heartbeat
  <2>2. Refresh(broker, w).queue = broker.queue
    BY <1>1 DEF Refresh, BrokerType
  <2> QED
    BY <1>1, <2>1, <2>2, RefreshBase, SameQueuesTurns
<1>7. CASE InvalidCommand(w)
  <2> DEFINE b == [broker EXCEPT !.known = @ \cup {w}]
  <2>1. ForeignPeers /\ Finish(b, <<>>, <<>>)
    BY <1>7 DEF InvalidCommand
  <2>2. Base(b)
    BY <2>1, RegisterGood DEF IInv, Good
  <2>3. b.queue = broker.queue
    BY <1>1 DEF BrokerType
  <2> QED
    BY <2>1, <2>2, <2>3, SameQueuesTurns
<1>8. CASE ReportWithoutService(w)
  BY <1>8, RestartTurns DEF ReportWithoutService
<1> QED
  BY <1>2, <1>3, <1>4, <1>5, <1>6, <1>7, <1>8 DEF FromWorker

\* So do the requests of clients.
LEMMA ClientTurns ==
  ASSUME IInv, NEW c \in Clients, FromClient(c)
  PROVE  TurnsKept
<1>1. Base(broker) /\ broker \in BrokerType /\ Stranded(broker) = {}
      /\ broker.blacklist \in [Names -> SUBSET Commands]
  BY BaseFacts DEF IInv, Good
<1>2. ASSUME NEW s \in Services, NEW list \in SUBSET Commands, NEW other,
             Finish([broker EXCEPT !.blacklist[s] = list], <<>>, other)
      PROVE  TurnsKept
  <2> DEFINE b == [broker EXCEPT !.blacklist[s] = list]
  <2>1. s \in Names
    BY DEF Names
  <2>2. Base(b)
    BY <2>1, BlacklistGood DEF IInv, Good
  <2>3. b.queue = broker.queue
    BY <1>1 DEF BrokerType
  <2> QED
    BY <1>2, <2>2, <2>3, SameQueuesTurns
<1>3. ASSUME NEW msg, Answer(msg)
      PROVE  TurnsKept
  BY <1>1, <1>3, SameQueuesTurns DEF Answer
<1>4. ASSUME NEW s \in Services, NEW cmd \in Commands, Submit(c, s, cmd)
      PROVE  TurnsKept
  <2>1. PICK r \in Request : r = [client |-> c, command |-> cmd]
    BY DEF Request
  <2> DEFINE b == [broker EXCEPT !.requests[s] = Append(@, r)]
  <2>2. s \in Names /\ DispatchFrom(b, s)
    BY <1>4, <2>1 DEF Names, Submit
  <2>3. Base(b) /\ Stranded(b) \subseteq {s}
    BY <1>1, <2>2, EnqueueBase
  <2>4. b.queue = broker.queue
    BY <1>1 DEF BrokerType
  <2> HIDE DEF b
  <2>5. \A t \in Names : KeepsOrder(broker.queue[t], b.queue[t])
    BY <2>4 DEF KeepsOrder
  <2> QED
    BY <1>1, <2>2, <2>3, <2>5, DispatchTurns
<1>5. ASSUME NEW s \in Services, NEW cmd \in Commands, Enable(c, s, cmd)
      PROVE  TurnsKept
  <2>1. broker.blacklist[s] \ {cmd} \in SUBSET Commands
    BY <1>1 DEF Names
  <2>2. \E other : Finish([broker EXCEPT !.blacklist[s] = broker.blacklist[s] \ {cmd}],
                          <<>>, other)
    BY <1>5 DEF Enable
  <2> QED
    BY <1>2, <2>1, <2>2
<1>6. ASSUME NEW s \in Services, NEW cmd \in Commands, Disable(c, s, cmd)
      PROVE  TurnsKept
  <2>1. broker.blacklist[s] \cup {cmd} \in SUBSET Commands
    BY <1>1 DEF Names
  <2>2. \E other : Finish([broker EXCEPT !.blacklist[s] = broker.blacklist[s] \cup {cmd}],
                          <<>>, other)
    BY <1>6 DEF Disable
  <2> QED
    BY <1>2, <2>1, <2>2
<1> QED
  BY <1>3, <1>4, <1>5, <1>6 DEF FromClient, Refuse, LookUp, NotImplemented, BadFilter

-----------------------------------------------------------------------------
(* Theorems *)

\* Every step of the broker is one of the queues of ServiceQueue, or leaves them
\* alone; it deletes no live worker that has not asked for it.
LEMMA StepIsPromised ==
  ASSUME IInv, ReservedIdle(broker), [Next]_vars
  PROVE  [Promise!Next]_(Promise!vars) /\ ReservedIdle(broker') /\ DropsExpired
<1>1. CASE \E w \in Workers : status = "up" /\ FromWorker(w)
  BY <1>1, WorkerIsPromised
<1>2. CASE \E c \in Clients : FromClient(c)
  BY <1>2, ClientIsPromised
<1>3. CASE NoMessage
  <2>1. Base(broker) /\ Finish(broker, <<>>, <<>>)
    BY <1>3 DEF NoMessage, IInv, Good
  <2> QED
    BY <2>1, SameQueuesStep DEF Promise!Next
<1>4. CASE Tick
  <2>1. /\ broker'.requests = broker.requests /\ broker'.queue = broker.queue
        /\ broker'.known = broker.known /\ sent'.work = <<>>
    BY <1>4, BaseFacts DEF Tick, Silence, IInv, Good, BrokerType
  <2>2. Base(broker) /\ \A s \in Services : s \in Names
    BY DEF IInv, Good, Names
  <2>3. \A s \in Services : Range(broker.queue[s]) \subseteq Workers
    BY <2>2, MembersAreWorkers DEF Members
  <2>4. Promise!Leave
    BY <2>1, <2>3 DEF Promise!Leave, Promise!Dropping
  <2> QED
    BY <2>1, <2>4 DEF Promise!Next, ReservedIdle, DropsExpired
<1>5. CASE status = "up" /\ Shutdown
  <2>1. /\ broker'.requests = [s \in Names |-> <<>>] /\ broker'.queue = [s \in Names |-> <<>>]
        /\ sent'.work = <<>> /\ status' # status
    BY <1>5 DEF Shutdown, NewBroker, Silence
  <2>2. \A s \in Services : s \in Names /\ Range(<<>>) = {}
    BY DEF Names, Range
  <2>3. Promise!Restart /\ ReservedIdle(broker') /\ DropsExpired
    BY <2>1, <2>2 DEF Promise!Restart, ReservedIdle, DropsExpired, Names
  <2> QED
    BY <2>3 DEF Promise!Next
<1>6. CASE Start \/ UNCHANGED vars
  <2>1. broker' = broker /\ sent' = sent
    BY <1>6 DEF Start, vars
  <2> QED
    BY <2>1 DEF Promise!vars, DropsExpired
<1> QED
  BY <1>1, <1>2, <1>3, <1>4, <1>5, <1>6 DEF Next, Iteration

\* The broker starts with every queue empty, as ServiceQueue does.
LEMMA InitIsPromised == Init => Promise!Init /\ ReservedIdle(broker)
<1>1. Range(<<>>) = {} /\ \A s \in Services : s \in Names
  BY DEF Range, Names
<1> QED
  BY <1>1 DEF Init, NewBroker, Silence, Promise!Init, ReservedIdle, Names

\* The broker keeps the promise of ServiceQueue: a request that it accepts is handed
\* over once, in its turn, to a current worker of its service, and waits only
\* while there is none, whatever workers, timers and operators do.
THEOREM BrokerImplementsServiceQueue == Spec => KeepsPromise
<1>1. Spec => [](IInv /\ ReservedIdle(broker))
  <2>1. IInv /\ ReservedIdle(broker) /\ [Next]_vars => (ReservedIdle(broker))'
    BY StepIsPromised DEF ReservedIdle
  <2> QED
    BY <2>1, InitIsPromised, Safety, PTL DEF Spec
<1>2. IInv /\ ReservedIdle(broker) /\ [Next]_vars => [Promise!Next]_(Promise!vars)
  BY StepIsPromised
<1> QED
  BY <1>1, <1>2, InitIsPromised, PTL DEF Spec, KeepsPromise, Promise!Spec

\* s_broker_purge deletes expired workers only: one that is alive leaves the registry
\* by its own DISCONNECT, by a second READY, or with the broker.
THEOREM OnlyExpiredDropped == Spec => OnlyExpiredAreDropped
<1>1. Spec => [](IInv /\ ReservedIdle(broker))
  <2>1. IInv /\ ReservedIdle(broker) /\ [Next]_vars => (ReservedIdle(broker))'
    BY StepIsPromised DEF ReservedIdle
  <2> QED
    BY <2>1, InitIsPromised, Safety, PTL DEF Spec
<1>2. IInv /\ ReservedIdle(broker) /\ [Next]_vars =>
        [\A w \in broker.known \ broker'.known :
           broker.expiry[w] = 0 \/ status' # status \/ Disconnect(w) \/ ReadyAgain(w)]_vars
  BY StepIsPromised DEF DropsExpired
<1> QED
  BY <1>1, <1>2, PTL DEF Spec, OnlyExpiredAreDropped

\* The lists stay empty until the broker is started again.
DownIsEmpty == status # "up" => \A s \in Names : broker.queue[s] = <<>>

\* Every step keeps the turns of the workers.
LEMMA StepTakesTurns ==
  ASSUME IInv, DownIsEmpty, [Next]_vars
  PROVE  (TurnsKept \/ UNCHANGED vars) /\ DownIsEmpty'
<1>1. Base(broker) /\ \A s \in Names : NewBroker.queue[s] = <<>>
  BY DEF IInv, Good, NewBroker
<1>2. CASE status = "up" /\ \E w \in Workers : FromWorker(w)
  <2>1. TurnsKept
    BY <1>2, WorkerTurns
  <2>2. status' = status \/ broker' = NewBroker
    BY <1>2 DEF FromWorker, ReadyAgain, ReadyReserved, ReadyNew, Report, ReportWithoutService,
                Heartbeat, Unknown, Disconnect, InvalidCommand, Answer, DispatchFrom, Finish
  <2> QED
    BY <1>1, <1>2, <2>1, <2>2 DEF DownIsEmpty
<1>3. CASE status = "up" /\ \E c \in Clients : FromClient(c)
  <2>1. TurnsKept
    BY <1>3, ClientTurns
  <2>2. \A b, work, other : Finish(b, work, other) => status' = status
    BY DEF Finish
  <2>3. status' = status
    BY <1>3, <2>2 DEF FromClient, Submit, Refuse, LookUp, Enable, Disable, BadFilter,
                      NotImplemented, Answer, DispatchFrom
  <2> QED
    BY <1>3, <2>1, <2>3 DEF DownIsEmpty
<1>4. CASE status = "up" /\ NoMessage
  <2>1. TurnsKept
    BY <1>1, <1>4, SameQueuesTurns DEF NoMessage
  <2> QED
    BY <1>4, <2>1 DEF DownIsEmpty, NoMessage, Finish
<1>5. CASE status = "up" /\ Tick
  <2>1. broker'.queue = broker.queue
    BY <1>1, <1>5, BaseFacts DEF Tick, BrokerType
  <2>2. Served' = {}
    BY <1>5 DEF Tick, Silence, Served, Range
  <2>3. TurnsKept
    BY <2>1, <2>2, SameTurns
  <2> QED
    BY <1>5, <2>3 DEF DownIsEmpty, Tick
<1>6. CASE status = "up" /\ Shutdown
  <2>1. broker' = NewBroker
    BY <1>6 DEF Shutdown
  <2> QED
    BY <1>1, <2>1, RestartTurns DEF DownIsEmpty
<1>7. CASE Start
  <2>1. broker' = broker /\ \A s \in Names : broker.queue[s] = <<>>
    BY <1>7 DEF Start, DownIsEmpty
  <2>2. Range(<<>>) = {}
    BY DEF Range
  <2> QED
    BY <2>1, <2>2 DEF TurnsKept, DownIsEmpty
<1>8. CASE UNCHANGED vars
  BY <1>8 DEF vars, DownIsEmpty
<1> QED
  BY <1>2, <1>3, <1>4, <1>5, <1>6, <1>7, <1>8 DEF Next, Iteration

\* Workers are scheduled round robin, whoever joins, leaves or expires between the
\* requests, and however many requests are sent in one batch.
THEOREM ScheduledRoundRobin == Spec => RoundRobin
<1>1. Spec => [](IInv /\ DownIsEmpty)
  <2>1. Init => DownIsEmpty
    BY DEF Init, DownIsEmpty
  <2>2. IInv /\ DownIsEmpty /\ [Next]_vars => DownIsEmpty'
    BY StepTakesTurns
  <2> QED
    BY <2>1, <2>2, Safety, PTL DEF Spec
<1>2. IInv /\ DownIsEmpty /\ [Next]_vars =>
        [\A s \in Names :
           \A v, w \in Range(broker.queue[s]) \cap Range(broker'.queue[s]) :
             v # w /\ v \notin Served' =>
               IF w \in Served'
               THEN Before(broker.queue[s], w, v) /\ Before(broker'.queue[s], v, w)
               ELSE Before(broker.queue[s], v, w) => Before(broker'.queue[s], v, w)]_vars
  BY StepTakesTurns DEF TurnsKept
<1> QED
  BY <1>1, <1>2, PTL DEF Spec, RoundRobin

=============================================================================
