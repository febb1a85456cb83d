----------------------------- MODULE Majordomo ------------------------------
(***************************************************************************)
(* The broker of mdp_broker.c with the two libraries that talk to it:      *)
(* worker processes that sit in mdp_worker_recv, and client sessions that  *)
(* call mdp_client_send and then mdp_client_recv, as every program of the  *)
(* repository does.  The broker is MDPBroker, unchanged: each of its steps *)
(* takes one message from a connection and puts what it sends on others.   *)
(*                                                                         *)
(* A connection is a DEALER socket, which the ROUTER of the broker knows   *)
(* by an address it makes up.  A worker process opens a new one whenever   *)
(* it reconnects, so that the broker sees a stranger.  The sockets queue   *)
(* in both directions, and drop what is sent to an address that is gone.   *)
(*                                                                         *)
(* The broker, the clients and the network keep up: time passes only when  *)
(* none of them has a message to read or a timer that has run out.  The    *)
(* worker processes keep up in a steady run; in the other runs they may be *)
(* late with anything, as a worker that computes for long is.              *)
(***************************************************************************)
EXTENDS MDPBroker

CONSTANTS
  Processes,   \* worker processes
  Serves,      \* the service of each, its argument to mdp_worker_new
  Asker,       \* the session that makes each call; a Command names one call
  NoAddress,   \* the address of a process that is not running
  Idle,        \* the request of a process that has none
  TIMEOUT,     \* mdp_client->timeout, in ticks
  RECONNECT,   \* mdp_worker->reconnect, in ticks
  MaxFaults,   \* bound of the model on interrupts and crashes
  MaxLost,     \* bound of the model on what a connection loses with the broker
  MaxLag       \* bound of the model on how far a worker falls behind

ASSUME CompositionAssumption ==
  /\ Serves \in [Processes -> Offered]
  /\ Asker \in [Commands -> Clients]
  /\ NoAddress \notin Workers
  /\ Idle \notin Request
  /\ Commands \cap {"new", "waiting", "timeout"} = {}
  /\ TIMEOUT \in Nat /\ RECONNECT \in Nat
  /\ ReservedSenders = {} /\ MMI = {} /\ ForeignPeers = FALSE

ASSUME FaultsAssumption == MaxFaults \in Nat /\ MaxLost \in Nat /\ MaxLag \in Nat

VARIABLES
  toBroker,     \* toBroker[a]: messages of the worker at a, on their way
  toWorker,     \* toWorker[a]: messages to the worker at a, on their way
  calls,        \* calls[c]: requests of client c, on their way
  answers,      \* answers[c]: the calls whose answers are on their way to c
  worker,       \* the mdp_worker_t of each process, and what it is doing
  patience,     \* patience[c]: time left in the mdp_client_recv of c
  outcome,      \* outcome[k]: what mdp_client_recv returned for call k
  taken,        \* history: the calls that mdp_worker_recv has returned
  served,       \* history: who took a request since the broker refreshed it
  faults,       \* the interrupts and crashes so far
  steady        \* is this a steady run?

network == <<toBroker, toWorker, calls, answers>>
clients == <<patience, outcome>>
history == <<taken, served>>
all == <<vars, network, worker, clients, history, faults, steady>>

-----------------------------------------------------------------------------
(* Connections *)

ToBroker == [kind : {"READY"}, service : Offered]
            \cup [kind : {"HEARTBEAT", "DISCONNECT"}]
            \cup [kind : {"REPORT"}, request : Request]

Open(a)  == \E p \in Processes : worker[p].address = a
Waits(c) == \E k \in Commands : Asker[k] = c /\ outcome[k] = "waiting"

\* The addresses that nobody remembers: ROUTER makes up a new one each time.
Unused == {a \in Workers \ broker.known : ~Open(a) /\ toBroker[a] = <<>>}

Enqueue(channel, x, m) == [channel EXCEPT ![x] = Append(@, m)]
Dequeue(channel, x)    == [channel EXCEPT ![x] = Tail(@)]

\* What this iteration of the broker sends reaches the queues of its receivers.
To(a, msgs) == Without(msgs, {m \in Range(msgs) : m.to # a})

Delivered ==
  toWorker' = [a \in Workers |->
    IF Open(a) THEN toWorker[a] \o To(a, sent'.work) \o To(a, sent'.other) ELSE <<>>]

\* A step in which the broker does nothing.
BrokerRests == UNCHANGED vars

-----------------------------------------------------------------------------
(* The broker's iterations *)

\* The broker handles a worker's message.  It passes a REPORT on as it is,
\* whatever the client is waiting for by now.
HandleWorker(a) ==
  /\ status = "up" /\ toBroker[a] # <<>>
  /\ LET m == Head(toBroker[a]) IN
       \/ /\ m.kind = "READY"
          /\ ReadyAgain(a) \/ ReadyNew(a, m.service)
          /\ UNCHANGED <<answers, served>>
       \/ /\ m.kind = "HEARTBEAT"
          /\ Heartbeat(a) \/ Unknown(a)
          /\ served' = {p \in served : worker[p].address # a}
          /\ UNCHANGED answers
       \/ /\ m.kind = "DISCONNECT"
          /\ Disconnect(a)
          /\ UNCHANGED <<answers, served>>
       \/ /\ m.kind = "REPORT"
          /\ Report(a, m.request.client)
          /\ answers' = Enqueue(answers, m.request.client, m.request.command)
          /\ UNCHANGED served
       \/ /\ m.kind = "REPORT"
          /\ Unknown(a)
          /\ UNCHANGED <<answers, served>>
  /\ Delivered
  /\ toBroker' = Dequeue(toBroker, a)
  /\ UNCHANGED <<calls, worker, clients, taken, faults, steady>>

HandleClient(c) ==
  /\ status = "up" /\ calls[c] # <<>>
  /\ Submit(c, Head(calls[c]).service, Head(calls[c]).command)
  /\ Delivered
  /\ calls' = Dequeue(calls, c)
  /\ UNCHANGED <<toBroker, answers, worker, clients, history, faults, steady>>

\* An iteration without a message matters when a heartbeat is due.
BrokerHeartbeat ==
  /\ status = "up" /\ heartbeatIn < 0
  /\ NoMessage
  /\ Delivered
  /\ UNCHANGED <<toBroker, calls, answers, worker, clients, history, faults, steady>>

\* The broker ends.  What its socket has read is gone; what the sockets of its
\* peers have not yet sent waits for the next broker, unless they are closed by
\* now.  What it sent last may not arrive.
StopBroker ==
  /\ faults < MaxFaults
  /\ status = "up" /\ Shutdown
  /\ \E n \in 0..MaxLost :
       /\ toBroker' = [a \in Workers |->
            IF Open(a) THEN SubSeq(toBroker[a], n + 1, Len(toBroker[a])) ELSE <<>>]
       /\ calls' = [c \in Clients |-> SubSeq(calls[c], n + 1, Len(calls[c]))]
  /\ \E n \in 0..MaxLost :
       /\ toWorker' = [a \in Workers |-> SubSeq(toWorker[a], 1, Len(toWorker[a]) - n)]
       /\ answers' = [c \in Clients |-> SubSeq(answers[c], 1, Len(answers[c]) - n)]
  /\ faults' = faults + 1
  /\ UNCHANGED <<worker, clients, history, steady>>

StartBroker ==
  /\ Start
  /\ UNCHANGED <<network, worker, clients, history, faults, steady>>

BrokerRuns ==
  \/ \E a \in Workers : HandleWorker(a)
  \/ \E c \in Clients : HandleClient(c)
  \/ BrokerHeartbeat
  \/ StopBroker
  \/ StartBroker

-----------------------------------------------------------------------------
(* The worker library *)

WorkerType ==
  [at : {"recv", "busy", "asleep", "down"}, address : Workers \cup {NoAddress},
   liveness : 0..LIVENESS, timer : 0..(INTERVAL + RECONNECT),
   heartbeatIn : -1..INTERVAL, request : Request \cup {Idle}]

Down == [at |-> "down", address |-> NoAddress, liveness |-> 0, timer |-> 0,
         heartbeatIn |-> 0, request |-> Idle]

\* s_mdp_worker_connect_to_broker: a new socket, whose first message is READY.
\* What the old one has not read is gone.  What it has not sent may be gone, too,
\* and is if there is no broker to send it to before the linger time is over.
Connect(p) ==
  \E old \in {worker[p].address}, new \in {CHOOSE a \in Unused : TRUE}, flushed \in BOOLEAN :
    /\ Unused # {}
    /\ flushed => status = "up" /\ old # NoAddress
    /\ worker' = [worker EXCEPT ![p] =
         [at |-> "recv", address |-> new, liveness |-> LIVENESS,
          timer |-> INTERVAL, heartbeatIn |-> INTERVAL, request |-> Idle]]
    /\ toWorker' = [a \in Workers |-> IF a = old THEN <<>> ELSE toWorker[a]]
    /\ toBroker' = [a \in Workers |->
         CASE a = new -> <<[kind |-> "READY", service |-> Serves[p]]>>
           [] a = old /\ ~flushed -> <<>>
           [] OTHER -> toBroker[a]]
    /\ UNCHANGED history

\* The end of the loop of mdp_worker_recv, in which the poll left the given
\* liveness: a HEARTBEAT when one is due, and the next poll.
PollAgain(p, liveness) ==
  LET due == worker[p].heartbeatIn < 0 IN
  /\ worker' = [worker EXCEPT ![p].liveness = liveness,
                              ![p].timer = INTERVAL,
                              ![p].heartbeatIn = IF due THEN INTERVAL ELSE @]
  /\ toBroker' = IF due
                 THEN Enqueue(toBroker, worker[p].address, [kind |-> "HEARTBEAT"])
                 ELSE toBroker

Inbox(p) == IF worker[p].at = "recv" THEN toWorker[worker[p].address] ELSE <<>>
Reads(p, kind) ==
  /\ Inbox(p) # <<>> /\ Head(Inbox(p)).kind = kind
  /\ toWorker' = Dequeue(toWorker, worker[p].address)

\* mdp_worker_recv returns a REQUEST at once, with no look at the heartbeat.
TakeRequest(p) ==
  /\ Reads(p, "REQUEST")
  /\ LET r == Head(Inbox(p)).request IN
       /\ worker' = [worker EXCEPT ![p].at = "busy", ![p].request = r,
                                   ![p].liveness = LIVENESS, ![p].timer = 0]
       /\ taken' = taken \cup {r.command}
       /\ served' = served \cup {p}
  /\ UNCHANGED toBroker

TakeHeartbeat_NoCheck(p) ==  \* mutant: HEARTBEAT ends the turn as REQUEST does
  /\ Reads(p, "HEARTBEAT")
  /\ worker' = [worker EXCEPT ![p].liveness = LIVENESS, ![p].timer = INTERVAL]
  /\ UNCHANGED <<toBroker, history>>

TakeHeartbeat(p) ==
  /\ Reads(p, "HEARTBEAT")
  /\ PollAgain(p, LIVENESS)
  /\ UNCHANGED history

TakeDisconnect_Ignored(p) ==  \* mutant: DISCONNECT is handled like HEARTBEAT
  /\ Reads(p, "DISCONNECT")
  /\ PollAgain(p, LIVENESS)
  /\ UNCHANGED history

TakeDisconnect(p) ==
  /\ worker[p].at = "recv" /\ Inbox(p) # <<>>
  /\ Head(Inbox(p)).kind = "DISCONNECT"
  /\ Connect(p)

\* Nothing came for a whole interval: once; LIVENESS times in a row, when the
\* library sleeps before it reconnects.
NothingCame(p) == worker[p].at = "recv" /\ worker[p].timer = 0 /\ Inbox(p) = <<>>

PollTimesOut_Forever(p) ==  \* mutant: liveness is not compared with zero
  /\ NothingCame(p)
  /\ PollAgain(p, worker[p].liveness - 1)
  /\ UNCHANGED <<toWorker, history>>

PollTimesOut(p) ==
  /\ NothingCame(p) /\ worker[p].liveness > 1
  /\ PollAgain(p, worker[p].liveness - 1)
  /\ UNCHANGED <<toWorker, history>>

GiveUpOnBroker(p) ==
  /\ NothingCame(p) /\ worker[p].liveness = 1
  /\ worker' = [worker EXCEPT ![p].at = "asleep", ![p].timer = RECONNECT,
                              ![p].liveness = 0]
  /\ UNCHANGED <<toBroker, toWorker, history>>

WakeUp(p) ==
  /\ worker[p].at = "asleep" /\ worker[p].timer = 0
  /\ Connect(p)

\* Mutant: the report is sent once more.
SendReport_Twice(p) ==
  /\ worker[p].at = "busy"
  /\ LET m == [kind |-> "REPORT", request |-> worker[p].request] IN
       toBroker' = [toBroker EXCEPT ![worker[p].address] = @ \o <<m, m>>]
  /\ worker' = [worker EXCEPT ![p].at = "recv", ![p].timer = INTERVAL,
                              ![p].request = Idle]
  /\ UNCHANGED <<toWorker, history>>

\* mdp_worker_send, after which the program calls mdp_worker_recv again.
SendReport(p) ==
  /\ worker[p].at = "busy"
  /\ toBroker' = Enqueue(toBroker, worker[p].address,
                         [kind |-> "REPORT", request |-> worker[p].request])
  /\ worker' = [worker EXCEPT ![p].at = "recv", ![p].timer = INTERVAL,
                              ![p].request = Idle]
  /\ UNCHANGED <<toWorker, history>>

\* The process is started: mdp_worker_new.
StartWorker(p) ==
  /\ worker[p].at = "down"
  /\ Connect(p)

WorkerRuns(p) ==
  /\ \/ TakeRequest(p)
     \/ TakeHeartbeat(p)
     \/ TakeDisconnect(p)
     \/ PollTimesOut(p)
     \/ GiveUpOnBroker(p)
     \/ WakeUp(p)
     \/ SendReport(p)
     \/ StartWorker(p)
  /\ BrokerRests
  /\ UNCHANGED <<calls, answers, clients, faults, steady>>

\* The process ends: an interrupt makes mdp_worker_recv return NULL and the
\* program call mdp_worker_destroy, which says DISCONNECT; a crash says nothing.
Ends(p, last) ==
  \E flushed \in BOOLEAN :
    /\ flushed => status = "up"
    /\ toBroker' = [toBroker EXCEPT ![worker[p].address] =
                      IF flushed THEN @ \o last ELSE <<>>]
    /\ toWorker' = [toWorker EXCEPT ![worker[p].address] = <<>>]
    /\ worker' = [worker EXCEPT ![p] = Down]

Interrupt(p) ==
  /\ worker[p].at = "recv"
  /\ Ends(p, <<[kind |-> "DISCONNECT"]>>)

Crash(p) ==
  /\ worker[p].at # "down"
  /\ Ends(p, <<>>)

WorkerEnds(p) ==
  /\ faults < MaxFaults
  /\ Interrupt(p) \/ Crash(p)
  /\ faults' = faults + 1
  /\ BrokerRests
  /\ UNCHANGED <<calls, answers, clients, history, steady>>

-----------------------------------------------------------------------------
(* The client library *)

\* mdp_client_send, and the program goes on to mdp_client_recv.
Call(k, s) ==
  LET c == Asker[k] IN
  /\ outcome[k] = "new" /\ ~Waits(c)
  /\ calls' = Enqueue(calls, c, [service |-> s, command |-> k])
  /\ outcome' = [outcome EXCEPT ![k] = "waiting"]
  /\ patience' = [patience EXCEPT ![c] = TIMEOUT]
  /\ UNCHANGED answers

\* mdp_client_recv returns the next message, whichever call it answers.
Return(k) ==
  LET c == Asker[k] IN
  /\ outcome[k] = "waiting" /\ answers[c] # <<>>
  /\ outcome' = [outcome EXCEPT ![k] = Head(answers[c])]
  /\ answers' = Dequeue(answers, c)
  /\ patience' = [patience EXCEPT ![c] = 0]
  /\ UNCHANGED calls

\* mdp_client_recv returns NULL.
TimeOut(k) ==
  LET c == Asker[k] IN
  /\ outcome[k] = "waiting" /\ patience[c] = 0 /\ answers[c] = <<>>
  /\ outcome' = [outcome EXCEPT ![k] = "timeout"]
  /\ UNCHANGED <<calls, answers, patience>>

ClientRuns(k) ==
  /\ \/ \E s \in Services : Call(k, s)
     \/ Return(k)
     \/ TimeOut(k)
  /\ BrokerRests
  /\ UNCHANGED <<toBroker, toWorker, worker, history, faults, steady>>

-----------------------------------------------------------------------------
(* Time, and the composition *)

SystemInit ==
  /\ Init
  /\ toBroker = [a \in Workers |-> <<>>]
  /\ toWorker = [a \in Workers |-> <<>>]
  /\ calls = [c \in Clients |-> <<>>]
  /\ answers = [c \in Clients |-> <<>>]
  /\ worker = [p \in Processes |-> Down]
  /\ patience = [c \in Clients |-> 0]
  /\ outcome = [k \in Commands |-> "new"]
  /\ taken = {} /\ served = {}
  /\ faults = 0
  /\ steady \in BOOLEAN

\* Nobody who keeps up has anything left to do.
UpToDate ==
  /\ status = "up" =>
       /\ heartbeatIn >= 0
       /\ \A a \in Workers : toBroker[a] = <<>>
       /\ \A c \in Clients : calls[c] = <<>>
  /\ \A c \in Clients : Waits(c) => patience[c] > 0 /\ answers[c] = <<>>
  /\ steady => \A p \in Processes :
       /\ worker[p].at # "busy" /\ Inbox(p) = <<>>
       /\ worker[p].at \in {"recv", "asleep"} => worker[p].timer > 0

Less(n, low) == IF n > low THEN n - 1 ELSE n

TimePasses ==
  /\ UpToDate
  /\ \A p \in Processes : Len(Inbox(p)) < MaxLag
  /\ IF status = "up" THEN Tick ELSE BrokerRests
  /\ worker' = [p \in Processes |-> [worker[p] EXCEPT
       !.timer = Less(@, 0),
       !.heartbeatIn = IF worker[p].at = "down" THEN 0 ELSE Less(@, -1)]]
  /\ patience' = [c \in Clients |-> Less(patience[c], 0)]
  /\ UNCHANGED <<network, outcome, history, faults, steady>>

SystemNext ==
  \/ BrokerRuns
  \/ \E p \in Processes : WorkerRuns(p) \/ WorkerEnds(p)
  \/ \E k \in Commands : ClientRuns(k)
  \/ TimePasses

\* The loop of the broker handles what is there to be handled.  The fairness
\* names what the step takes away, which only an iteration of that loop does
\* (or its end, which happens MaxFaults times at most).
MessageHandled ==
  /\ status = "up"
  /\ \/ \E a \in Workers : /\ toBroker[a] # <<>> /\ toBroker' = Dequeue(toBroker, a)
                           /\ UNCHANGED calls
     \/ \E c \in Clients : /\ calls[c] # <<>> /\ calls' = Dequeue(calls, c)
                           /\ UNCHANGED toBroker

HeartbeatHandled == status = "up" /\ heartbeatIn < 0 /\ heartbeatIn' = INTERVAL

\* Every loop runs, whoever has ended is started again, a client waits for its
\* answer, but need not make a call, and time passes.
Fairness ==
  /\ WF_<<toBroker, calls>>(MessageHandled)
  /\ WF_heartbeatIn(HeartbeatHandled)
  /\ WF_all(StartBroker) /\ WF_all(TimePasses)
  /\ \A p \in Processes : WF_all(WorkerRuns(p))
  /\ WF_all(\E k \in Commands : outcome[k] # "new" /\ ClientRuns(k))

System == SystemInit /\ [][SystemNext]_all /\ Fairness

-----------------------------------------------------------------------------
(* Properties *)

\* Every variable has its type: what is on its way is what the protocol allows
\* on that connection.
SystemTypeOK ==
  /\ TypeOK
  /\ toBroker \in [Workers -> Seq(ToBroker)]
  /\ toWorker \in [Workers -> Seq(RequestMsg \cup WorkerMsg)]
  /\ calls \in [Clients -> Seq([service : Services, command : Commands])]
  /\ answers \in [Clients -> Seq(Commands)]
  /\ worker \in [Processes -> WorkerType]
  /\ patience \in [Clients -> 0..TIMEOUT]
  /\ outcome \in [Commands -> {"new", "waiting", "timeout"} \cup Commands]
  /\ taken \subseteq Commands /\ served \subseteq Processes
  /\ faults \in 0..MaxFaults /\ steady \in BOOLEAN

\* The places of the queues where a member of M stands.
Places(queues, M) ==
  UNION {{<<x, i>> : i \in {j \in DOMAIN queues[x] : queues[x][j] \in M}} :
           x \in DOMAIN queues}

\* Where a call is in the system: as a request, in a worker's hands, as an answer,
\* or as what mdp_client_recv returned.
Copies(k) ==
  LET asked == [client : Clients, command : {k}] IN
  UNION {
    {"calls"}    \X Places(calls, [service : Services, command : {k}]),
    {"requests"} \X Places(broker.requests, asked),
    {"toWorker"} \X Places(toWorker, [to : Workers, kind : {"REQUEST"}, request : asked]),
    {"hands"}    \X {p \in Processes : worker[p].request \in asked},
    {"toBroker"} \X Places(toBroker, [kind : {"REPORT"}, request : asked]),
    {"answers"}  \X Places(answers, {k}),
    {"outcome"}  \X {x \in Commands : outcome[x] = k}}

\* No interleaving of reconnections, purges, restarts and late messages makes two
\* of one call: a request that is dispatched, or comes back with its worker, leaves
\* nothing behind in the queue or the socket it was in.
CallsAreNotDoubled == \A k \in Commands : \A x, y \in Copies(k) : x = y

\* None is lost while workers keep up and nobody crashes, although the broker
\* drops the REPORT of a worker it does not know, and a socket that is closed drops
\* what it has not read.
CallsAreNotLost ==
  \A k \in Commands :
    steady /\ faults = 0 /\ outcome[k] # "new" => Copies(k) # {}

\* A call is executed once at most: no worker ever takes a request that a worker
\* has taken before, not even from the next broker or on its next connection.
ExecutedOnce ==
  [][\A p \in Processes :
       worker'[p].request \notin {worker[p].request, Idle} =>
         worker'[p].request.command \notin taken]_all

\* mdp_client_recv returns the answer to the call just made, unless an earlier call
\* of the session ran into its timeout: then it may return a late answer.
AnswersFitCalls ==
  \A k \in Commands :
    outcome[k] \in Commands \ {k} =>
      /\ Asker[outcome[k]] = Asker[k]
      /\ \E x \in Commands : Asker[x] = Asker[k] /\ outcome[x] = "timeout"

\* A worker that keeps up and waits in mdp_worker_recv stays registered as long as
\* it is connected.  The exception is the worker that took a request since its last
\* HEARTBEAT: it skipped the heartbeat check, and may then be a whole interval late.
Registered(p) == worker[p].address \in broker.known

WaitingIsNotPurged ==
  [][steady /\ status' = status =>
       \A p \in Processes \ served :
         Registered(p) /\ worker'[p].address = worker[p].address => Registered(p)']_all

\* After the last crash or restart, of whichever side, the workers are registered
\* again and stay so: the READY, HEARTBEAT and DISCONNECT of the two sides cannot
\* keep answering each other, and nobody waits for the other to begin.
WorkersComeBack == steady => <>[](\A p \in Processes : Registered(p))

\* No request stays with the broker for ever, late as the workers may be and
\* however often they reconnect.
Queued(k) == \E s \in Services : \E r \in Range(broker.requests[s]) : r.command = k

NoRequestStays == <>[](\A k \in Commands : ~Queued(k))

=============================================================================
