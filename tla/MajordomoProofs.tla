-------------------------- MODULE MajordomoProofs ---------------------------
(***************************************************************************)
(* The broker between its workers and clients is still the broker of       *)
(* MDPBroker: no worker library and no client library sends what that      *)
(* module leaves out, so that all that is proved of it in MDPBrokerProofs  *)
(* holds in the composition.  This takes the types of all that is on its   *)
(* way, which are proved together with the invariant of the broker.        *)
(***************************************************************************)
EXTENDS Majordomo, ServiceQueueProofs

ToWorker == RequestMsg \cup WorkerMsg
Asked    == [service : Services, command : Commands]

\* A process that runs has an address, and one that works has a request.
Working(w) ==
  /\ w \in WorkerType
  /\ w.at # "down" => w.address \in Workers
  /\ w.at = "busy" => w.request \in Request

ChannelsOK ==
  /\ toBroker \in [Workers -> Seq(ToBroker)]
  /\ toWorker \in [Workers -> Seq(ToWorker)]
  /\ calls \in [Clients -> Seq(Asked)]
  /\ answers \in [Clients -> Seq(Commands)]

ProgramsOK ==
  /\ worker \in [Processes -> WorkerType]
  /\ \A p \in Processes : Working(worker[p])
  /\ patience \in [Clients -> 0..TIMEOUT]
  /\ outcome \in [Commands -> {"new", "waiting", "timeout"} \cup Commands]
  /\ taken \subseteq Commands /\ served \subseteq Processes
  /\ faults \in 0..MaxFaults /\ steady \in BOOLEAN

SysInv == IInv /\ ChannelsOK /\ ProgramsOK

-----------------------------------------------------------------------------
(* Channels *)

\* A channel that gains a message, loses its first, or is cut keeps its type.
LEMMA EnqueueType ==
  ASSUME NEW X, NEW S, NEW ch \in [X -> Seq(S)], NEW x, NEW m \in S
  PROVE  Enqueue(ch, x, m) \in [X -> Seq(S)]
<1>1. \A q \in Seq(S) : Append(q, m) \in Seq(S)
  BY AppendProperties
<1> QED
  BY <1>1 DEF Enqueue

LEMMA DequeueType ==
  ASSUME NEW X, NEW S, NEW ch \in [X -> Seq(S)], NEW x \in X, ch[x] # <<>>
  PROVE  /\ Dequeue(ch, x) \in [X -> Seq(S)]
         /\ Head(ch[x]) \in S
<1>1. Head(ch[x]) \in S /\ Tail(ch[x]) \in Seq(S)
  BY HeadTailProperties
<1> QED
  BY <1>1 DEF Dequeue

LEMMA CutType ==
  ASSUME NEW S, NEW q \in Seq(S), NEW n \in Nat
  PROVE  /\ SubSeq(q, n + 1, Len(q)) \in Seq(S)
         /\ SubSeq(q, 1, Len(q) - n) \in Seq(S)
<1>1. Len(q) \in Nat
  BY LenProperties
<1>2. \A i \in 1..Len(q) : q[i] \in S
  BY ElementOfSeq
<1>3. SubSeq(q, n + 1, Len(q)) \in Seq(S)
  <2>1. \A i \in (n + 1)..Len(q) : q[i] \in S
    BY <1>1, <1>2
  <2> QED
    BY <1>1, <2>1, SubSeqProperties
<1>4. SubSeq(q, 1, Len(q) - n) \in Seq(S)
  <2>1. \A i \in 1..(Len(q) - n) : q[i] \in S
    BY <1>1, <1>2
  <2>2. Len(q) - n \in Int
    BY <1>1
  <2> QED
    BY <2>1, <2>2, SubSeqProperties
<1> QED
  BY <1>3, <1>4

\* What is picked out for one receiver is of the same type, and addressed to it.
LEMMA ToType ==
  ASSUME NEW S, NEW msgs \in Seq(S), NEW a, NEW T,
         \A m \in S : m.to = a => m \in T
  PROVE  To(a, msgs) \in Seq(T)
<1> DEFINE D == {m \in Range(msgs) : m.to # a}
           r == Without(msgs, D)
<1>1. /\ r \in Seq(S)
      /\ Range(r) = Range(msgs) \ D
  BY WithoutProperties
<1>2. /\ Len(r) \in Nat /\ DOMAIN r = 1..Len(r)
      /\ r = [i \in 1..Len(r) |-> r[i]]
      /\ \A i \in 1..Len(r) : r[i] \in S
  BY <1>1, LenProperties, ElementOfSeq
<1>3. \A i \in 1..Len(r) : r[i] \in Range(r)
  BY <1>2 DEF Range
<1>4. \A i \in 1..Len(r) : r[i].to = a
  BY <1>1, <1>3
<1>5. \A i \in 1..Len(r) : r[i] \in T
  BY <1>2, <1>4
<1>6. r \in [1..Len(r) -> T]
  BY <1>2, <1>5
<1>7. r \in Seq(T)
  BY <1>2, <1>6 DEF Seq
<1> QED
  BY <1>7 DEF To

\* A step of the broker delivers messages of the type a worker expects.
LEMMA DeliveredType ==
  ASSUME toWorker \in [Workers -> Seq(ToWorker)], IInv', Delivered
  PROVE  toWorker' \in [Workers -> Seq(ToWorker)]
<1>1. sent'.work \in Seq(RequestMsg) /\ sent'.other \in Seq(WorkerMsg \cup ClientMsg)
  BY DEF IInv, TypeOK, Output
<1>2. ASSUME NEW a \in Workers
      PROVE  To(a, sent'.work) \in Seq(ToWorker) /\ To(a, sent'.other) \in Seq(ToWorker)
  <2>1. To(a, sent'.work) \in Seq(ToWorker)
    <3>1. \A m \in RequestMsg : m.to = a => m \in ToWorker
      BY DEF ToWorker
    <3> QED
      BY <1>1, <3>1, ToType
  <2>2. To(a, sent'.other) \in Seq(ToWorker)
    <3>1. \A m \in WorkerMsg \cup ClientMsg : m.to = a => m \in ToWorker
      BY NamesAssumption DEF ToWorker, WorkerMsg, ClientMsg
    <3> QED
      BY <1>1, <3>1, ToType
  <2> QED
    BY <2>1, <2>2
<1>3. ASSUME NEW a \in Workers
      PROVE  toWorker[a] \o To(a, sent'.work) \o To(a, sent'.other) \in Seq(ToWorker)
  BY <1>2, ConcatProperties
<1>4. <<>> \in Seq(ToWorker)
  BY EmptySeq
<1> QED
  BY <1>3, <1>4 DEF Delivered

-----------------------------------------------------------------------------
(* Every step is a step of the broker or leaves the broker alone *)

\* The broker handles a worker's message as MDPBroker does.
LEMMA WorkerMessage ==
  ASSUME ChannelsOK, NEW a \in Workers, HandleWorker(a)
  PROVE  status = "up" /\ FromWorker(a)
<1> DEFINE m == Head(toBroker[a])
<1>1. m \in ToBroker
  BY DequeueType DEF ChannelsOK, HandleWorker
<1>2. m.kind = "READY" => m.service \in Offered
  BY <1>1 DEF ToBroker
<1>3. m.kind = "REPORT" => m.request.client \in Clients /\ m.request.command \in Commands
  BY <1>1 DEF ToBroker, Request
<1>4. \/ ReadyAgain(a)
      \/ m.kind = "READY" /\ ReadyNew(a, m.service)
      \/ Heartbeat(a) \/ Unknown(a) \/ Disconnect(a)
      \/ m.kind = "REPORT" /\ Report(a, m.request.client)
  BY DEF HandleWorker
<1> QED
  BY <1>2, <1>3, <1>4 DEF HandleWorker, FromWorker

\* It handles a client's request as MDPBroker does.
LEMMA ClientMessage ==
  ASSUME ChannelsOK, NEW c \in Clients, HandleClient(c)
  PROVE  status = "up" /\ FromClient(c)
<1>1. Head(calls[c]) \in Asked
  BY DequeueType DEF ChannelsOK, HandleClient
<1>2. Head(calls[c]).service \in Services /\ Head(calls[c]).command \in Commands
  BY <1>1 DEF Asked
<1> QED
  BY <1>2 DEF HandleClient, FromClient

\* Whatever the system does, the broker takes a step of its own or none.
LEMMA BrokerSteps ==
  ASSUME ChannelsOK, [SystemNext]_all
  PROVE  [Next]_vars
<1>1. ASSUME NEW a \in Workers, HandleWorker(a) PROVE Next
  BY <1>1, WorkerMessage DEF Next, Iteration
<1>2. ASSUME NEW c \in Clients, HandleClient(c) PROVE Next
  BY <1>2, ClientMessage DEF Next, Iteration
<1>3. CASE BrokerHeartbeat
  BY <1>3 DEF BrokerHeartbeat, Next, Iteration
<1>4. CASE StopBroker
  BY <1>4 DEF StopBroker, Next
<1>5. CASE StartBroker
  BY <1>5 DEF StartBroker, Next
<1>6. ASSUME NEW p \in Processes, WorkerRuns(p) \/ WorkerEnds(p) PROVE UNCHANGED vars
  BY <1>6 DEF WorkerRuns, WorkerEnds, BrokerRests
<1>7. ASSUME NEW k \in Commands, ClientRuns(k) PROVE UNCHANGED vars
  BY <1>7 DEF ClientRuns, BrokerRests
<1>8. CASE TimePasses
  BY <1>8 DEF TimePasses, BrokerRests, Next
<1>9. CASE UNCHANGED all
  BY <1>9 DEF all
<1> QED
  BY <1>1, <1>2, <1>3, <1>4, <1>5, <1>6, <1>7, <1>8, <1>9 DEF SystemNext, BrokerRuns

-----------------------------------------------------------------------------
(* The steps of the broker keep the types *)

LEMMA WorkerMessageTypes ==
  ASSUME SysInv, IInv', NEW a \in Workers, HandleWorker(a)
  PROVE  ChannelsOK' /\ ProgramsOK'
<1> DEFINE m == Head(toBroker[a])
<1>1. m \in ToBroker /\ toBroker' \in [Workers -> Seq(ToBroker)]
  BY DequeueType DEF SysInv, ChannelsOK, HandleWorker
<1>2. toWorker' \in [Workers -> Seq(ToWorker)]
  BY DeliveredType DEF SysInv, ChannelsOK, HandleWorker
<1>3. answers' \in [Clients -> Seq(Commands)]
  <2>1. CASE UNCHANGED answers
    BY <2>1 DEF SysInv, ChannelsOK
  <2>2. CASE m.kind = "REPORT"
             /\ answers' = Enqueue(answers, m.request.client, m.request.command)
    <3>1. m.request.command \in Commands
      BY <1>1, <2>2 DEF ToBroker, Request
    <3> QED
      BY <2>2, <3>1, EnqueueType DEF SysInv, ChannelsOK
  <2> QED
    BY <2>1, <2>2 DEF HandleWorker
<1>4. served' \subseteq Processes
  BY DEF HandleWorker, SysInv, ProgramsOK
<1>5. UNCHANGED <<calls, worker, patience, outcome, taken, faults, steady>>
  BY DEF HandleWorker, clients
<1>6. ChannelsOK'
  BY <1>1, <1>2, <1>3, <1>5 DEF SysInv, ChannelsOK
<1>7. ProgramsOK'
  BY <1>4, <1>5 DEF SysInv, ProgramsOK
<1> QED
  BY <1>6, <1>7

LEMMA ClientMessageTypes ==
  ASSUME SysInv, IInv', NEW c \in Clients, HandleClient(c)
  PROVE  ChannelsOK' /\ ProgramsOK'
<1>1. calls' \in [Clients -> Seq(Asked)]
  BY DequeueType DEF SysInv, ChannelsOK, HandleClient
<1>2. toWorker' \in [Workers -> Seq(ToWorker)]
  BY DeliveredType DEF SysInv, ChannelsOK, HandleClient
<1>3. UNCHANGED <<toBroker, answers, worker, patience, outcome, taken, served, faults, steady>>
  BY DEF HandleClient, clients, history
<1> QED
  BY <1>1, <1>2, <1>3 DEF SysInv, ChannelsOK, ProgramsOK

LEMMA StopTypes ==
  ASSUME SysInv, StopBroker
  PROVE  ChannelsOK' /\ ProgramsOK'
<1>1. PICK n \in 0..MaxLost :
        /\ toBroker' = [a \in Workers |->
             IF Open(a) THEN SubSeq(toBroker[a], n + 1, Len(toBroker[a])) ELSE <<>>]
        /\ calls' = [c \in Clients |-> SubSeq(calls[c], n + 1, Len(calls[c]))]
  BY DEF StopBroker
<1>2. PICK k \in 0..MaxLost :
        /\ toWorker' = [a \in Workers |-> SubSeq(toWorker[a], 1, Len(toWorker[a]) - k)]
        /\ answers' = [c \in Clients |-> SubSeq(answers[c], 1, Len(answers[c]) - k)]
  BY DEF StopBroker
<1>3. n \in Nat /\ k \in Nat
  OBVIOUS
<1>4. <<>> \in Seq(ToBroker)
  BY EmptySeq
<1>5. toBroker' \in [Workers -> Seq(ToBroker)]
  <2>1. \A a \in Workers : SubSeq(toBroker[a], n + 1, Len(toBroker[a])) \in Seq(ToBroker)
    BY <1>3, CutType DEF SysInv, ChannelsOK
  <2> QED
    BY <1>1, <1>4, <2>1
<1>6. calls' \in [Clients -> Seq(Asked)]
  BY <1>1, <1>3, CutType DEF SysInv, ChannelsOK
<1>7. toWorker' \in [Workers -> Seq(ToWorker)]
  BY <1>2, <1>3, CutType DEF SysInv, ChannelsOK
<1>8. answers' \in [Clients -> Seq(Commands)]
  BY <1>2, <1>3, CutType DEF SysInv, ChannelsOK
<1>9. faults' \in 0..MaxFaults
  BY FaultsAssumption DEF StopBroker, SysInv, ProgramsOK
<1>10. UNCHANGED <<worker, patience, outcome, taken, served, steady>>
  BY DEF StopBroker, clients, history
<1> QED
  BY <1>5, <1>6, <1>7, <1>8, <1>9, <1>10 DEF SysInv, ChannelsOK, ProgramsOK

-----------------------------------------------------------------------------
(* The steps of the worker library keep the types *)

\* A worker's record with new values in some of its fields.
LEMMA WorkerUpdate ==
  ASSUME NEW w \in WorkerType, NEW at \in {"recv", "busy", "asleep", "down"},
         NEW l \in 0..LIVENESS, NEW t \in 0..(INTERVAL + RECONNECT),
         NEW h \in -1..INTERVAL, NEW r \in Request \cup {Idle},
         NEW u, u = [w EXCEPT !.at = at, !.liveness = l, !.timer = t,
                              !.heartbeatIn = h, !.request = r],
         at # "down" => w.address \in Workers, at = "busy" => r \in Request
  PROVE  Working(u)
<1> DEFINE T == 0..(INTERVAL + RECONNECT)
           H == -1..INTERVAL
           L == 0..LIVENESS
           R == Request \cup {Idle}
<1>1. w \in [at : {"recv", "busy", "asleep", "down"}, address : Workers \cup {NoAddress},
              liveness : L, timer : T, heartbeatIn : H, request : R]
  BY DEF WorkerType
<1>2. l \in L /\ t \in T /\ h \in H /\ r \in R
  OBVIOUS
<1>3. /\ u \in [at : {"recv", "busy", "asleep", "down"}, address : Workers \cup {NoAddress},
                 liveness : L, timer : T, heartbeatIn : H, request : R]
      /\ u.at = at /\ u.address = w.address /\ u.request = r
  <2> HIDE DEF T, H, L, R
  <2> QED
    BY <1>1, <1>2
<1>4. u \in WorkerType
  BY <1>3 DEF WorkerType
<1> QED
  BY <1>3, <1>4 DEF Working

LEMMA TimerFacts ==
  /\ LIVENESS \in 0..LIVENESS /\ 0 \in 0..LIVENESS
  /\ INTERVAL \in -1..INTERVAL /\ -1 \in -1..INTERVAL
  /\ {0, INTERVAL, RECONNECT} \subseteq 0..(INTERVAL + RECONNECT)
  BY NumbersAssumption, CompositionAssumption

\* One worker gets a new state, and what it sends has its type.
LEMMA OneWorker ==
  ASSUME SysInv, NEW p \in Processes, NEW w, Working(w),
         worker' = [worker EXCEPT ![p] = w],
         toBroker' \in [Workers -> Seq(ToBroker)],
         toWorker' \in [Workers -> Seq(ToWorker)],
         taken' \subseteq Commands, served' \subseteq Processes, faults' \in 0..MaxFaults,
         UNCHANGED <<calls, answers, patience, outcome, steady>>
  PROVE  ChannelsOK' /\ ProgramsOK'
<1>1. worker \in [Processes -> WorkerType] /\ w \in WorkerType
  BY DEF SysInv, ProgramsOK, Working
<1>2. worker' \in [Processes -> WorkerType]
  BY <1>1
<1>3. \A q \in Processes : worker'[q] = IF q = p THEN w ELSE worker[q]
  BY <1>1
<1>4. \A q \in Processes : Working(worker'[q])
  BY <1>3 DEF SysInv, ProgramsOK
<1> QED
  BY <1>2, <1>4 DEF SysInv, ChannelsOK, ProgramsOK, Working

LEMMA ConnectTypes ==
  ASSUME SysInv, NEW p \in Processes, Connect(p),
         UNCHANGED <<calls, answers, clients, faults, steady>>
  PROVE  ChannelsOK' /\ ProgramsOK'
<1>1. PICK old \in {worker[p].address}, new \in {CHOOSE a \in Unused : TRUE},
           flushed \in BOOLEAN :
        /\ Unused # {}
        /\ flushed => status = "up" /\ old # NoAddress
        /\ worker' = [worker EXCEPT ![p] =
             [at |-> "recv", address |-> new, liveness |-> LIVENESS,
              timer |-> INTERVAL, heartbeatIn |-> INTERVAL, request |-> Idle]]
        /\ toWorker' = [a \in Workers |->
             IF a = old THEN <<>> ELSE toWorker[a]]
        /\ toBroker' = [a \in Workers |->
             CASE a = new -> <<[kind |-> "READY", service |-> Serves[p]]>>
               [] a = old /\ ~flushed -> <<>>
               [] OTHER -> toBroker[a]]
        /\ UNCHANGED history
  BY DEF Connect
<1>2. new \in Workers
  BY <1>1 DEF Unused
<1>3. Working([at |-> "recv", address |-> new, liveness |-> LIVENESS,
               timer |-> INTERVAL, heartbeatIn |-> INTERVAL, request |-> Idle])
  BY <1>2, NumbersAssumption, CompositionAssumption DEF Working, WorkerType
<1>4. [kind |-> "READY", service |-> Serves[p]] \in ToBroker
  BY CompositionAssumption DEF ToBroker
<1>5. \A S : <<>> \in Seq(S)
  BY EmptySeq
<1>6. <<[kind |-> "READY", service |-> Serves[p]]>> \in Seq(ToBroker)
  BY <1>4
<1>7. toBroker' \in [Workers -> Seq(ToBroker)]
  BY <1>1, <1>5, <1>6 DEF SysInv, ChannelsOK
<1>8. toWorker' \in [Workers -> Seq(ToWorker)]
  BY <1>1, <1>5 DEF SysInv, ChannelsOK
<1>9. UNCHANGED <<taken, served, faults, calls, answers, patience, outcome, steady>>
  BY <1>1 DEF history, clients
<1> QED
  BY <1>1, <1>3, <1>7, <1>8, <1>9, OneWorker DEF SysInv, ProgramsOK

\* The end of the loop of mdp_worker_recv.
LEMMA PollTypes ==
  ASSUME SysInv, NEW p \in Processes, worker[p].at = "recv", NEW l \in 0..LIVENESS,
         PollAgain(p, l), toWorker' \in [Workers -> Seq(ToWorker)],
         UNCHANGED <<history, calls, answers, clients, faults, steady>>
  PROVE  ChannelsOK' /\ ProgramsOK'
<1> DEFINE due == worker[p].heartbeatIn < 0
           w == [worker[p] EXCEPT !.liveness = l, !.timer = INTERVAL,
                                  !.heartbeatIn = IF due THEN INTERVAL ELSE @]
<1>1. worker[p] \in WorkerType /\ Working(worker[p])
      /\ worker \in [Processes -> WorkerType]
  BY DEF SysInv, ProgramsOK
<1>2. worker' = [worker EXCEPT ![p] = w]
  BY <1>1 DEF PollAgain, WorkerType
<1>3. Working(w)
  <2>1. w = [worker[p] EXCEPT !.at = worker[p].at, !.liveness = l, !.timer = INTERVAL,
                              !.heartbeatIn = IF due THEN INTERVAL ELSE worker[p].heartbeatIn,
                              !.request = worker[p].request]
    BY <1>1 DEF WorkerType
  <2>2. /\ (IF due THEN INTERVAL ELSE worker[p].heartbeatIn) \in -1..INTERVAL
        /\ worker[p].request \in Request \cup {Idle}
        /\ worker[p].address \in Workers
    BY <1>1, TimerFacts DEF WorkerType, Working
  <2>3. /\ worker[p].at \in {"recv", "busy", "asleep", "down"}
        /\ worker[p].at # "busy" /\ INTERVAL \in 0..(INTERVAL + RECONNECT)
    BY TimerFacts
  <2> DEFINE h == IF due THEN INTERVAL ELSE worker[p].heartbeatIn
  <2> HIDE DEF w, h
  <2>4. ASSUME NEW u, u = [worker[p] EXCEPT !.at = worker[p].at, !.liveness = l,
                                            !.timer = INTERVAL, !.heartbeatIn = h,
                                            !.request = worker[p].request],
               h \in -1..INTERVAL
        PROVE  Working(u)
    BY <1>1, <2>2, <2>3, <2>4, WorkerUpdate, ZenonT(40)
  <2> QED
    BY <2>1, <2>2, <2>4 DEF h
<1>4. [kind |-> "HEARTBEAT"] \in ToBroker
  BY DEF ToBroker
<1>5. toBroker' \in [Workers -> Seq(ToBroker)]
  BY <1>4, EnqueueType DEF PollAgain, SysInv, ChannelsOK
<1> QED
  BY <1>2, <1>3, <1>5, OneWorker DEF SysInv, ProgramsOK, history, clients

\* What mdp_worker_recv reads is a message for this worker.
LEMMA ReadTypes ==
  ASSUME SysInv, NEW p \in Processes, NEW kind, Reads(p, kind)
  PROVE  /\ worker[p].at = "recv"
         /\ Head(Inbox(p)) \in ToWorker
         /\ toWorker' \in [Workers -> Seq(ToWorker)]
<1>1. worker[p].at = "recv"
  BY DEF Reads, Inbox
<1>2. worker[p].address \in Workers
  BY <1>1 DEF SysInv, ProgramsOK, Working
<1>3. Inbox(p) = toWorker[worker[p].address]
  BY <1>1 DEF Inbox
<1>4. toWorker \in [Workers -> Seq(ToWorker)] /\ toWorker[worker[p].address] # <<>>
  BY <1>3 DEF SysInv, ChannelsOK, Reads
<1>5. /\ Head(toWorker[worker[p].address]) \in ToWorker
      /\ Dequeue(toWorker, worker[p].address) \in [Workers -> Seq(ToWorker)]
  BY <1>2, <1>4, DequeueType
<1> QED
  BY <1>1, <1>3, <1>5 DEF Reads

LEMMA TakeRequestTypes ==
  ASSUME SysInv, NEW p \in Processes, TakeRequest(p),
         UNCHANGED <<calls, answers, clients, faults, steady>>
  PROVE  ChannelsOK' /\ ProgramsOK'
<1> DEFINE m == Head(Inbox(p))
           w == [worker[p] EXCEPT !.at = "busy", !.request = m.request,
                                  !.liveness = LIVENESS, !.timer = 0]
<1>1. /\ worker[p].at = "recv" /\ m \in ToWorker /\ m.kind = "REQUEST"
      /\ toWorker' \in [Workers -> Seq(ToWorker)]
  BY ReadTypes DEF TakeRequest, Reads
<1>2. m.request \in Request /\ m.request.command \in Commands
  BY <1>1 DEF ToWorker, RequestMsg, WorkerMsg, Request
<1>3. worker[p] \in WorkerType /\ Working(worker[p])
      /\ worker \in [Processes -> WorkerType]
  BY DEF SysInv, ProgramsOK
<1>4. worker' = [worker EXCEPT ![p] = w]
  BY <1>3 DEF TakeRequest, WorkerType
<1>5. Working(w)
  <2>1. w = [worker[p] EXCEPT !.at = "busy", !.liveness = LIVENESS, !.timer = 0,
                              !.heartbeatIn = worker[p].heartbeatIn,
                              !.request = m.request]
    BY <1>3 DEF WorkerType
  <2>2. worker[p].heartbeatIn \in -1..INTERVAL /\ worker[p].address \in Workers
    BY <1>1, <1>3 DEF WorkerType, Working
  <2> HIDE DEF w, m
  <2> QED
    BY <1>2, <1>3, <2>1, <2>2, TimerFacts, WorkerUpdate
<1>6. taken' \subseteq Commands /\ served' \subseteq Processes
  BY <1>2 DEF TakeRequest, SysInv, ProgramsOK
<1> QED
  BY <1>1, <1>4, <1>5, <1>6, OneWorker DEF TakeRequest, SysInv, ProgramsOK, ChannelsOK, clients

LEMMA SendReportTypes ==
  ASSUME SysInv, NEW p \in Processes, SendReport(p),
         UNCHANGED <<calls, answers, clients, faults, steady>>
  PROVE  ChannelsOK' /\ ProgramsOK'
<1> DEFINE w == [worker[p] EXCEPT !.at = "recv", !.timer = INTERVAL, !.request = Idle]
<1>1. worker[p] \in WorkerType /\ Working(worker[p])
      /\ worker \in [Processes -> WorkerType]
  BY DEF SysInv, ProgramsOK
<1>2. worker[p].at = "busy" /\ worker[p].request \in Request
  BY <1>1 DEF SendReport, Working
<1>3. worker' = [worker EXCEPT ![p] = w]
  BY <1>1 DEF SendReport, WorkerType
<1>4. Working(w)
  <2>1. w = [worker[p] EXCEPT !.at = "recv", !.liveness = worker[p].liveness,
                              !.timer = INTERVAL, !.heartbeatIn = worker[p].heartbeatIn,
                              !.request = Idle]
    BY <1>1 DEF WorkerType
  <2>2. /\ worker[p].heartbeatIn \in -1..INTERVAL /\ worker[p].liveness \in 0..LIVENESS
        /\ worker[p].address \in Workers
    BY <1>1, <1>2 DEF WorkerType, Working
  <2>3. /\ "recv" \in {"recv", "busy", "asleep", "down"} /\ "recv" # "busy"
        /\ INTERVAL \in 0..(INTERVAL + RECONNECT) /\ Idle \in Request \cup {Idle}
    BY TimerFacts
  <2> HIDE DEF w
  <2> QED
    BY <1>1, <2>1, <2>2, <2>3, WorkerUpdate
<1>5. [kind |-> "REPORT", request |-> worker[p].request] \in ToBroker
  BY <1>2 DEF ToBroker
<1>6. toBroker' \in [Workers -> Seq(ToBroker)]
  BY <1>5, EnqueueType DEF SendReport, SysInv, ChannelsOK
<1> QED
  BY <1>3, <1>4, <1>6, OneWorker
     DEF SendReport, SysInv, ProgramsOK, ChannelsOK, clients, history

LEMMA GiveUpTypes ==
  ASSUME SysInv, NEW p \in Processes, GiveUpOnBroker(p),
         UNCHANGED <<calls, answers, clients, faults, steady>>
  PROVE  ChannelsOK' /\ ProgramsOK'
<1> DEFINE w == [worker[p] EXCEPT !.at = "asleep", !.timer = RECONNECT, !.liveness = 0]
<1>1. worker[p] \in WorkerType /\ Working(worker[p])
      /\ worker \in [Processes -> WorkerType] /\ worker[p].at = "recv"
  BY DEF SysInv, ProgramsOK, GiveUpOnBroker, NothingCame
<1>2. worker' = [worker EXCEPT ![p] = w]
  BY <1>1 DEF GiveUpOnBroker, WorkerType
<1>3. Working(w)
  <2>1. w = [worker[p] EXCEPT !.at = "asleep", !.liveness = 0, !.timer = RECONNECT,
                              !.heartbeatIn = worker[p].heartbeatIn,
                              !.request = worker[p].request]
    BY <1>1 DEF WorkerType
  <2>2. /\ worker[p].heartbeatIn \in -1..INTERVAL
        /\ worker[p].request \in Request \cup {Idle}
        /\ worker[p].address \in Workers
    BY <1>1 DEF WorkerType, Working
  <2>3. worker[p].at \in {"recv", "busy", "asleep", "down"}
    BY <1>1 DEF WorkerType
  <2> HIDE DEF w
  <2> QED
    BY <1>1, <2>1, <2>2, <2>3, TimerFacts, WorkerUpdate, ZenonT(40)
<1> QED
  BY <1>2, <1>3, OneWorker
     DEF GiveUpOnBroker, SysInv, ProgramsOK, ChannelsOK, clients, history

LEMMA WorkerTypes ==
  ASSUME SysInv, NEW p \in Processes, WorkerRuns(p)
  PROVE  ChannelsOK' /\ ProgramsOK'
<1>1. UNCHANGED <<calls, answers, clients, faults, steady>>
  BY DEF WorkerRuns
<1>2. CASE TakeRequest(p)
  BY <1>1, <1>2, TakeRequestTypes
<1>3. CASE TakeHeartbeat(p)
  <2>1. worker[p].at = "recv" /\ toWorker' \in [Workers -> Seq(ToWorker)]
    BY <1>3, ReadTypes DEF TakeHeartbeat
  <2>2. LIVENESS \in 0..LIVENESS
    BY NumbersAssumption
  <2> QED
    BY <1>1, <1>3, <2>1, <2>2, PollTypes DEF TakeHeartbeat, history
<1>4. CASE PollTimesOut(p)
  <2>1. worker[p].at = "recv" /\ worker[p] \in WorkerType /\ worker[p].liveness > 1
    BY <1>4 DEF PollTimesOut, NothingCame, SysInv, ProgramsOK
  <2>2. worker[p].liveness - 1 \in 0..LIVENESS
    BY <2>1, NumbersAssumption DEF WorkerType
  <2> QED
    BY <1>1, <1>4, <2>1, <2>2, PollTypes DEF PollTimesOut, history, SysInv, ChannelsOK
<1>5. CASE GiveUpOnBroker(p)
  BY <1>1, <1>5, GiveUpTypes
<1>6. CASE SendReport(p)
  BY <1>1, <1>6, SendReportTypes
<1>7. CASE TakeDisconnect(p) \/ WakeUp(p) \/ StartWorker(p)
  BY <1>1, <1>7, ConnectTypes DEF TakeDisconnect, WakeUp, StartWorker
<1> QED
  BY <1>2, <1>3, <1>4, <1>5, <1>6, <1>7 DEF WorkerRuns

LEMMA EndTypes ==
  ASSUME SysInv, NEW p \in Processes, WorkerEnds(p)
  PROVE  ChannelsOK' /\ ProgramsOK'
<1> DEFINE a == worker[p].address
<1>1. PICK last : /\ last \in Seq(ToBroker)
                  /\ Ends(p, last)
  <2>1. [kind |-> "DISCONNECT"] \in ToBroker
    BY DEF ToBroker
  <2>2. <<[kind |-> "DISCONNECT"]>> \in Seq(ToBroker) /\ <<>> \in Seq(ToBroker)
    BY <2>1, EmptySeq
  <2> QED
    BY <2>2 DEF WorkerEnds, Interrupt, Crash
<1>2. PICK flushed \in BOOLEAN :
        /\ toBroker' = [toBroker EXCEPT ![a] = IF flushed THEN @ \o last ELSE <<>>]
        /\ toWorker' = [toWorker EXCEPT ![a] = <<>>]
        /\ worker' = [worker EXCEPT ![p] = Down]
  BY <1>1 DEF Ends
<1>3. \A S : <<>> \in Seq(S)
  BY EmptySeq
<1>4. \A q \in Seq(ToBroker) : q \o last \in Seq(ToBroker)
  BY <1>1, ConcatProperties
<1>5. toBroker' \in [Workers -> Seq(ToBroker)]
  <2>1. toBroker \in [Workers -> Seq(ToBroker)]
    BY DEF SysInv, ChannelsOK
  <2>2. a \in Workers => (IF flushed THEN toBroker[a] \o last ELSE <<>>) \in Seq(ToBroker)
    BY <1>3, <1>4, <2>1
  <2> QED
    BY <1>2, <2>1, <2>2
<1>6. toWorker' \in [Workers -> Seq(ToWorker)]
  <2>1. toWorker \in [Workers -> Seq(ToWorker)]
    BY DEF SysInv, ChannelsOK
  <2> QED
    BY <1>2, <1>3, <2>1
<1>7. worker' = [worker EXCEPT ![p] = Down]
  BY <1>2
<1>8. Working(Down)
  BY NumbersAssumption, CompositionAssumption DEF Working, WorkerType, Down
<1>9. faults' \in 0..MaxFaults
  BY FaultsAssumption DEF WorkerEnds, SysInv, ProgramsOK
<1>10. UNCHANGED <<calls, answers, patience, outcome, taken, served, steady>>
  BY DEF WorkerEnds, clients, history
<1> QED
  BY <1>5, <1>6, <1>7, <1>8, <1>9, <1>10, OneWorker DEF SysInv, ProgramsOK

-----------------------------------------------------------------------------
(* The steps of the client library, and time, keep the types *)

LEMMA ClientTypes ==
  ASSUME SysInv, NEW k \in Commands, ClientRuns(k)
  PROVE  ChannelsOK' /\ ProgramsOK'
<1> DEFINE c == Asker[k]
<1>1. c \in Clients /\ TIMEOUT \in 0..TIMEOUT /\ 0 \in 0..TIMEOUT
  BY CompositionAssumption
<1>2. UNCHANGED <<toBroker, toWorker, worker, taken, served, faults, steady>>
  BY DEF ClientRuns, history
<1>3. /\ calls \in [Clients -> Seq(Asked)] /\ answers \in [Clients -> Seq(Commands)]
      /\ patience \in [Clients -> 0..TIMEOUT]
      /\ outcome \in [Commands -> {"new", "waiting", "timeout"} \cup Commands]
  BY DEF SysInv, ChannelsOK, ProgramsOK
<1>4. /\ calls' \in [Clients -> Seq(Asked)] /\ answers' \in [Clients -> Seq(Commands)]
      /\ patience' \in [Clients -> 0..TIMEOUT]
      /\ outcome' \in [Commands -> {"new", "waiting", "timeout"} \cup Commands]
  <2> DEFINE G == /\ calls' \in [Clients -> Seq(Asked)] /\ answers' \in [Clients -> Seq(Commands)]
                  /\ patience' \in [Clients -> 0..TIMEOUT]
                  /\ outcome' \in [Commands -> {"new", "waiting", "timeout"} \cup Commands]
  <2>1. ASSUME NEW s \in Services, Call(k, s) PROVE G
    <3>1. [service |-> s, command |-> k] \in Asked
      BY DEF Asked
    <3> QED
      BY <1>1, <1>3, <2>1, <3>1, EnqueueType DEF Call
  <2>2. CASE Return(k)
    <3>1. Head(answers[c]) \in Commands /\ answers' \in [Clients -> Seq(Commands)]
      BY <1>1, <1>3, <2>2, DequeueType DEF Return
    <3> QED
      BY <1>1, <1>3, <2>2, <3>1 DEF Return
  <2>3. CASE TimeOut(k)
    BY <1>3, <2>3 DEF TimeOut
  <2> QED
    BY <2>1, <2>2, <2>3 DEF ClientRuns
<1> QED
  BY <1>2, <1>4 DEF SysInv, ChannelsOK, ProgramsOK

\* A tick changes the timers of a worker only, within their ranges.
LEMMA ClockTypes ==
  ASSUME NEW w \in WorkerType, Working(w)
  PROVE  Working([w EXCEPT !.timer = Less(@, 0),
                           !.heartbeatIn = IF w.at = "down" THEN 0 ELSE Less(@, -1)])
<1> DEFINE T == 0..(INTERVAL + RECONNECT)
           H == -1..INTERVAL
           L == 0..LIVENESS
           A == {"recv", "busy", "asleep", "down"}
           R == Request \cup {Idle}
           t == Less(w.timer, 0)
           h == IF w.at = "down" THEN 0 ELSE Less(w.heartbeatIn, -1)
           u == [w EXCEPT !.timer = t, !.heartbeatIn = h]
<1>1. w \in [at : A, address : Workers \cup {NoAddress}, liveness : L, timer : T,
             heartbeatIn : H, request : R]
  BY DEF WorkerType
<1>2. t \in T
  BY <1>1, NumbersAssumption, CompositionAssumption DEF Less
<1>3. h \in H
  BY <1>1, NumbersAssumption DEF Less
<1>4. /\ u \in [at : A, address : Workers \cup {NoAddress}, liveness : L, timer : T,
                heartbeatIn : H, request : R]
      /\ u.at = w.at /\ u.address = w.address /\ u.request = w.request
  <2> HIDE DEF T, H, L, A, R, t, h
  <2> QED
    BY <1>1, <1>2, <1>3
<1>5. u \in WorkerType
  BY <1>4 DEF WorkerType
<1>6. Working(u)
  <2> HIDE DEF u
  <2> QED
    BY <1>4, <1>5 DEF Working
<1> QED
  BY <1>6

LEMMA TimeTypes ==
  ASSUME SysInv, TimePasses
  PROVE  ChannelsOK' /\ ProgramsOK'
<1> DEFINE w(p) == [worker[p] EXCEPT
             !.timer = Less(@, 0),
             !.heartbeatIn = IF worker[p].at = "down" THEN 0 ELSE Less(@, -1)]
<1>1. worker' = [p \in Processes |-> w(p)]
  BY DEF TimePasses
<1>2. ASSUME NEW p \in Processes PROVE Working(w(p))
  BY ClockTypes DEF SysInv, ProgramsOK
<1>3. worker' \in [Processes -> WorkerType] /\ \A p \in Processes : Working(worker'[p])
  <2> HIDE DEF w
  <2>1. \A p \in Processes : w(p) \in WorkerType
    BY <1>2 DEF Working
  <2> QED
    BY <1>1, <1>2, <2>1
<1>4. patience' \in [Clients -> 0..TIMEOUT]
  <2>1. \A c \in Clients : Less(patience[c], 0) \in 0..TIMEOUT
    BY CompositionAssumption DEF SysInv, ProgramsOK, Less
  <2> QED
    BY <2>1 DEF TimePasses
<1>5. UNCHANGED <<toBroker, toWorker, calls, answers, outcome, taken, served, faults, steady>>
  BY DEF TimePasses, network, history
<1>6. (\A p \in Processes : Working(worker[p]))'
  BY <1>3 DEF Working, WorkerType
<1> QED
  BY <1>3, <1>4, <1>5, <1>6 DEF SysInv, ChannelsOK, ProgramsOK

LEMMA HeartbeatTypes ==
  ASSUME SysInv, IInv', BrokerHeartbeat
  PROVE  ChannelsOK' /\ ProgramsOK'
<1>1. toWorker' \in [Workers -> Seq(ToWorker)]
  BY DeliveredType DEF SysInv, ChannelsOK, BrokerHeartbeat
<1> QED
  BY <1>1 DEF BrokerHeartbeat, clients, history, SysInv, ChannelsOK, ProgramsOK, Working, WorkerType

-----------------------------------------------------------------------------
(* The invariant *)

LEMMA SystemInitial == SystemInit => SysInv
<1> SUFFICES ASSUME SystemInit PROVE SysInv
  OBVIOUS
<1>1. IInv
  BY Inductive DEF SystemInit
<1>2. \A S : <<>> \in Seq(S)
  BY EmptySeq
<1>3. ChannelsOK
  BY <1>2 DEF SystemInit, ChannelsOK
<1>4. Working(Down) /\ Down \in WorkerType
  BY NumbersAssumption, CompositionAssumption DEF Working, WorkerType, Down
<1>5. ProgramsOK
  BY <1>4, CompositionAssumption, FaultsAssumption DEF SystemInit, ProgramsOK
<1> QED
  BY <1>1, <1>3, <1>5 DEF SysInv

LEMMA SystemInductive == SysInv /\ [SystemNext]_all => SysInv'
<1> SUFFICES ASSUME SysInv, [SystemNext]_all PROVE SysInv'
  OBVIOUS
<1>1. IInv'
  BY BrokerSteps, Inductive DEF SysInv
<1>2. ASSUME NEW a \in Workers, HandleWorker(a) PROVE SysInv'
  BY <1>1, <1>2, WorkerMessageTypes DEF SysInv
<1>3. ASSUME NEW c \in Clients, HandleClient(c) PROVE SysInv'
  BY <1>1, <1>3, ClientMessageTypes DEF SysInv
<1>4. CASE BrokerHeartbeat
  BY <1>1, <1>4, HeartbeatTypes DEF SysInv
<1>5. CASE StopBroker
  BY <1>1, <1>5, StopTypes DEF SysInv
<1>6. CASE StartBroker
  BY <1>1, <1>6
     DEF StartBroker, network, clients, history, SysInv, ChannelsOK, ProgramsOK
<1>7. ASSUME NEW p \in Processes, WorkerRuns(p) PROVE SysInv'
  BY <1>1, <1>7, WorkerTypes DEF SysInv
<1>8. ASSUME NEW p \in Processes, WorkerEnds(p) PROVE SysInv'
  BY <1>1, <1>8, EndTypes DEF SysInv
<1>9. ASSUME NEW k \in Commands, ClientRuns(k) PROVE SysInv'
  BY <1>1, <1>9, ClientTypes DEF SysInv
<1>10. CASE TimePasses
  BY <1>1, <1>10, TimeTypes DEF SysInv
<1>11. CASE UNCHANGED all
  BY <1>1, <1>11
     DEF all, network, clients, history, SysInv, ChannelsOK, ProgramsOK
<1> QED
  BY <1>2, <1>3, <1>4, <1>5, <1>6, <1>7, <1>8, <1>9, <1>10, <1>11
     DEF SystemNext, BrokerRuns

-----------------------------------------------------------------------------
(* Theorems *)

\* In every state of the composition the tables of the broker are consistent and
\* what is on its way has its type.
THEOREM SystemInvariant == System => []SysInv
<1> QED
  BY SystemInitial, SystemInductive, PTL DEF System

\* The composition is type correct: no worker library, no client library and no
\* restart puts anything on a connection but what the protocol allows there.
THEOREM SystemTypeCorrect == System => []SystemTypeOK
<1>1. SysInv => SystemTypeOK
  BY DEF SysInv, IInv, ChannelsOK, ProgramsOK, SystemTypeOK, ToWorker, Asked
<1> QED
  BY <1>1, SystemInvariant, PTL

\* Between the libraries the broker behaves as MDPBroker says, for all their
\* reconnections, late messages and crashes.
THEOREM BrokerImplementsSpec == System => Spec
<1>1. SystemInit => Init
  BY DEF SystemInit
<1>2. SysInv /\ [SystemNext]_all => [Next]_vars
  BY BrokerSteps DEF SysInv
<1> QED
  BY <1>1, <1>2, SystemInvariant, PTL DEF System, Spec

\* A REPORT that a worker library sends never makes the broker dereference a NULL
\* worker->service, no request is left behind a worker that could serve it, and
\* the broker keeps its promise to the libraries' requests and live workers.
THEOREM BrokerSafeInSystem ==
  System => /\ [](Registry /\ OldestFirst /\ NoStrandedRequest /\ KnownHaveService)
            /\ KeepsPromise
            /\ OnlyExpiredAreDropped
<1>1. Spec => [](Registry /\ OldestFirst /\ NoStrandedRequest /\ KnownHaveService)
  BY RegistryCorrect, WaitingIsSorted, NothingStranded, ServiceOfKnown, PTL
<1> QED
  BY <1>1, BrokerImplementsSpec, BrokerImplementsServiceQueue, OnlyExpiredDropped

=============================================================================
