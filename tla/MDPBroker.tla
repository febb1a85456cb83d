------------------------------ MODULE MDPBroker ------------------------------
(***************************************************************************)
(* The Majordomo broker of mdp_broker.c: one process that owns a ROUTER    *)
(* socket, keeps a registry of workers and, for every service name, a      *)
(* queue of client requests and a queue of the workers that serve it.      *)
(*                                                                         *)
(* The process is a single loop: poll, handle at most one message, then    *)
(* purge and send heartbeats when they are due.  One iteration of the loop *)
(* is one action here, so every action is a handler followed by the        *)
(* heartbeat check.  Time passes between iterations only.                  *)
(*                                                                         *)
(* Deadlines are kept relative to the present: expiry[w] is the time left  *)
(* until worker->expiry, down to 0, and heartbeatIn the time left until    *)
(* heartbeat_at, down to -1, because the code compares the first with <    *)
(* and the second with >.                                                  *)
(***************************************************************************)
EXTENDS Integers, Sequences, FiniteSets, Functions

CONSTANTS
  Workers,          \* sender addresses of worker messages
  ReservedSenders,  \* the workers whose address begins with "mmi."
  Clients,          \* sender addresses of client messages
  Services,         \* ordinary service names
  MMI,              \* service names that begin with "mmi."
  Offered,          \* the names that workers put in READY
  NoService,        \* the NULL of worker->service
  Commands,         \* first body frames of client requests
  INTERVAL,         \* HEARTBEAT_INTERVAL, in ticks
  LIVENESS,         \* HEARTBEAT_LIVENESS
  MaxRequests,      \* bound of the model on a service's queue of requests
  ForeignPeers      \* may a peer send a worker command the broker ignores?

Names == Services \cup MMI

ASSUME NamesAssumption ==
  /\ ReservedSenders \subseteq Workers
  /\ Services \cap MMI = {}
  /\ Offered \subseteq Names
  /\ NoService \notin Names
  /\ Workers \cap Clients = {}

ASSUME NumbersAssumption ==
  /\ INTERVAL \in Nat \ {0}
  /\ LIVENESS \in Nat \ {0}
  /\ MaxRequests \in Nat
  /\ ForeignPeers \in BOOLEAN

EXPIRY == INTERVAL * LIVENESS

VARIABLES
  broker,       \* the tables of broker_t with those of its services and workers
  heartbeatIn,  \* time left until broker->heartbeat_at
  status,       \* of the process: "up", "down" (exited), "aborted" (killed)
  sent          \* what the latest iteration wrote to the socket

vars == <<broker, heartbeatIn, status, sent>>

-----------------------------------------------------------------------------
(* Data *)

Request == [client : Clients, command : Commands]

RequestMsg == [to : Workers, kind : {"REQUEST"}, request : Request]
WorkerMsg  == [to : Workers, kind : {"HEARTBEAT", "DISCONNECT"}]
ClientMsg  == [to : Clients, kind : {"REPORT", "NAK"}, service : Names,
               body : {"200", "400", "404", "501", "refused", "answer"}]

\* In one iteration every REQUEST precedes every other message to a worker.
Output == [work : Seq(RequestMsg), other : Seq(WorkerMsg \cup ClientMsg)]
Silence == [work |-> <<>>, other |-> <<>>]

(***************************************************************************)
(* known is the key set of broker->workers, waiting is broker->waiting.    *)
(* queue[s], count[s], requests[s] and blacklist[s] are the fields waiting,*)
(* workers, requests and blacklist of service s; a service that is not yet *)
(* in broker->services is one whose fields are all empty.                  *)
(***************************************************************************)
BrokerType ==
  [known     : SUBSET Workers,
   service   : [Workers -> Names \cup {NoService}],
   expiry    : [Workers -> 0..EXPIRY],
   waiting   : Seq(Workers),
   queue     : [Names -> Seq(Workers)],
   count     : [Names -> Nat],
   requests  : [Names -> Seq(Request)],
   blacklist : [Names -> SUBSET Commands]]

NewBroker ==
  [known     |-> {},
   service   |-> [w \in Workers |-> NoService],
   expiry    |-> [w \in Workers |-> 0],
   waiting   |-> <<>>,
   queue     |-> [s \in Names |-> <<>>],
   count     |-> [s \in Names |-> 0],
   requests  |-> [s \in Names |-> <<>>],
   blacklist |-> [s \in Names |-> {}]]

-----------------------------------------------------------------------------
(* Lists *)

\* The positions of q that hold no member of D, and the i-th of them.
Kept(q, D) == {i \in DOMAIN q : q[i] \notin D}
Nth(K, i)  == CHOOSE k \in K : Cardinality({j \in K : j <= k}) = i

\* q after zlist_remove of every member of D.
Without(q, D) == [i \in 1..Cardinality(Kept(q, D)) |-> q[Nth(Kept(q, D), i)]]

\* Mutants: the list is rotated once too often; it is not rotated at all.
Rotate_OnceMore(q, n) ==
  SubSeq(q, ((n + 1) % Len(q)) + 1, Len(q)) \o SubSeq(q, 1, (n + 1) % Len(q))
Rotate_Never(q, n) == q

\* q after n rounds of zlist_pop and zlist_append of the same item.
Rotate(q, n) ==
  SubSeq(q, (n % Len(q)) + 1, Len(q)) \o SubSeq(q, 1, n % Len(q))

\* The item that the i-th of these rounds pops.
Popped(q, i) == q[((i - 1) % Len(q)) + 1]

-----------------------------------------------------------------------------
(* Operations on the tables: each takes the tables b and returns new ones. *)

\* Mutants: the worker stays in the list of its service; every service counts
\* one worker less.
DeleteWorkers_LeaveInQueue(b, D) ==
  [b EXCEPT !.known   = @ \ D,
            !.service = [w \in Workers |-> IF w \in D THEN NoService ELSE @[w]],
            !.expiry  = [w \in Workers |-> IF w \in D THEN 0 ELSE @[w]],
            !.waiting = Without(@, D)]
DeleteWorkers_CountAll(b, D) ==
  [DeleteWorkers_LeaveInQueue(b, D) EXCEPT
     !.count = [s \in Names |-> @[s] - Cardinality(D)]]

\* The workers of D that are attached to service s.
Serving(b, D, s) == {w \in D : b.service[w] = s}

\* s_worker_delete, for every worker of D.
DeleteWorkers(b, D) ==
  [b EXCEPT
     !.known   = @ \ D,
     !.service = [w \in Workers |-> IF w \in D THEN NoService ELSE @[w]],
     !.expiry  = [w \in Workers |-> IF w \in D THEN 0 ELSE @[w]],
     !.waiting = Without(@, D),
     !.queue   = [s \in Names |-> Without(@[s], Serving(b, D, s))],
     !.count   = [s \in Names |-> @[s] - Cardinality(Serving(b, D, s))]]

\* Mutant: a worker expires one tick too early.
ExpiredHead_Early(b) ==
  {b.waiting[i] : i \in {j \in DOMAIN b.waiting :
                           \A k \in 1..j : b.expiry[b.waiting[k]] <= 1}}

\* s_broker_purge deletes from the head of waiting up to the first live worker.
ExpiredHead(b) ==
  {b.waiting[i] : i \in {j \in DOMAIN b.waiting :
                           \A k \in 1..j : b.expiry[b.waiting[k]] = 0}}

Purge(b) == DeleteWorkers(b, ExpiredHead(b))

\* Mutant: no purge before the requests are sent.
Dispatch_NoPurge(b, s) ==
  LET q == b.queue[s]
      r == b.requests[s]
  IN  IF q = <<>>
      THEN [broker |-> b, work |-> <<>>]
      ELSE [broker |-> [b EXCEPT !.queue[s] = Rotate(q, Len(r)),
                                 !.requests[s] = <<>>],
            work   |-> [i \in 1..Len(r) |-> [to      |-> Popped(q, i),
                                             kind    |-> "REQUEST",
                                             request |-> r[i]]]]

\* Mutant: the last request stays in the list when it has been sent.
Dispatch_KeepLast(b, s) ==
  LET d == Dispatch_NoPurge(Purge(b), s) IN
  [d EXCEPT !.broker.requests[s] =
     IF d.work = <<>> THEN @ ELSE <<d.work[Len(d.work)].request>>]

\* s_service_dispatch: the tables and the REQUESTs it sends.
Dispatch(b, s) ==
  LET p == Purge(b)
      q == p.queue[s]
      r == p.requests[s]
  IN  IF q = <<>>
      THEN [broker |-> p, work |-> <<>>]
      ELSE [broker |-> [p EXCEPT !.queue[s] = Rotate(q, Len(r)),
                                 !.requests[s] = <<>>],
            work   |-> [i \in 1..Len(r) |-> [to      |-> Popped(q, i),
                                             kind    |-> "REQUEST",
                                             request |-> r[i]]]]

\* The READY branch that attaches a worker to a service.
Attach(b, w, s) ==
  [b EXCEPT !.known = @ \cup {w},
            !.service[w] = s,
            !.expiry[w] = EXPIRY,
            !.waiting = Append(@, w),
            !.queue[s] = Append(@, w),
            !.count[s] = @ + 1]

\* Mutant: the worker keeps its place in waiting.
Refresh_InPlace(b, w) == [b EXCEPT !.expiry[w] = EXPIRY]

\* The HEARTBEAT branch for a known worker.
Refresh(b, w) ==
  [b EXCEPT !.waiting = IF Len(@) > 1 THEN Append(Without(@, {w}), w) ELSE @,
            !.expiry[w] = EXPIRY]

-----------------------------------------------------------------------------
(* One iteration of the main loop *)

Notice(w, kind) == [to |-> w, kind |-> kind]
Reply(c, kind, s, body) == [to |-> c, kind |-> kind, service |-> s, body |-> body]

\* The end of the loop's body, after a handler left tables b and wrote the
\* messages work and other: purge and send HEARTBEATs when they are due.
Finish(b, work, other) ==
  LET due == heartbeatIn < 0
      p   == IF due THEN Purge(b) ELSE b
      all == [i \in DOMAIN p.waiting |-> Notice(p.waiting[i], "HEARTBEAT")]
  IN  /\ broker' = p
      /\ heartbeatIn' = IF due THEN INTERVAL ELSE heartbeatIn
      /\ sent' = [work |-> work, other |-> IF due THEN other \o all ELSE other]
      /\ UNCHANGED status

\* A handler that changes no table and answers with one message.
Answer(msg) == Finish(broker, <<>>, <<msg>>)

\* A handler that ends in s_service_dispatch.
DispatchFrom(b, s) ==
  LET d == Dispatch(b, s) IN Finish(d.broker, d.work, <<>>)

\* READY from a known worker, from a reserved address, and from a new worker.
ReadyAgain(w) ==
  /\ w \in broker.known
  /\ Finish(DeleteWorkers(broker, {w}), <<>>, <<Notice(w, "DISCONNECT")>>)

ReadyReserved(w) ==
  /\ w \in ReservedSenders \ broker.known
  /\ Answer(Notice(w, "DISCONNECT"))

ReadyNew_NoDispatch(w, s) ==  \* mutant: a new worker waits for the next request
  /\ w \notin broker.known \cup ReservedSenders
  /\ Finish(Attach(broker, w, s), <<>>, <<>>)

ReadyNew(w, s) ==
  /\ w \notin broker.known \cup ReservedSenders
  /\ DispatchFrom(Attach(broker, w, s), s)

\* REPORT is passed to the client that the worker names.  A known worker that
\* never said READY has no service: worker->service->name dereferences NULL.
Report(w, c) ==
  /\ w \in broker.known
  /\ broker.service[w] # NoService
  /\ Answer(Reply(c, "REPORT", broker.service[w], "answer"))

ReportWithoutService(w) ==
  /\ w \in broker.known
  /\ broker.service[w] = NoService
  /\ status' = "aborted"
  /\ broker' = NewBroker
  /\ heartbeatIn' = INTERVAL
  /\ sent' = Silence

Heartbeat(w) ==
  /\ w \in broker.known
  /\ Finish(Refresh(broker, w), <<>>, <<>>)

\* Mutant: the sender, which s_worker_require has registered, is not deleted.
Unknown_Kept(w) ==
  /\ w \notin broker.known
  /\ Finish([broker EXCEPT !.known = @ \cup {w}], <<>>, <<Notice(w, "DISCONNECT")>>)

\* REPORT or HEARTBEAT from a worker the broker does not know (any more).
Unknown(w) ==
  /\ w \notin broker.known
  /\ Answer(Notice(w, "DISCONNECT"))

Disconnect(w) ==
  Finish(DeleteWorkers(broker, {w} \cap broker.known), <<>>, <<>>)

\* Any other worker command: s_worker_require has registered the sender.
InvalidCommand(w) ==
  /\ ForeignPeers
  /\ Finish([broker EXCEPT !.known = @ \cup {w}], <<>>, <<>>)

\* Mutant: zlist_push in place of zlist_append.
Submit_Push(c, s, cmd) ==
  /\ cmd \notin broker.blacklist[s]
  /\ Len(broker.requests[s]) < MaxRequests
  /\ DispatchFrom([broker EXCEPT !.requests[s] =
                     <<[client |-> c, command |-> cmd]>> \o @], s)

\* A client's request for an ordinary service: queued and dispatched, or
\* refused because its command is on the service's blacklist.
Submit(c, s, cmd) ==
  /\ cmd \notin broker.blacklist[s]
  /\ Len(broker.requests[s]) < MaxRequests
  /\ DispatchFrom([broker EXCEPT !.requests[s] =
                     Append(@, [client |-> c, command |-> cmd])], s)

Refuse(c, s, cmd) ==
  /\ cmd \in broker.blacklist[s]
  /\ Answer(Reply(c, "NAK", s, "refused"))

\* Requests for "mmi." names, which the broker answers itself.
LookUp(c, s) ==
  /\ "mmi.service" \in MMI
  /\ Answer(Reply(c, "REPORT", "mmi.service",
                  IF broker.count[s] # 0 THEN "200" ELSE "404"))

Enable(c, s, cmd) ==
  /\ "mmi.filter" \in MMI
  /\ Finish([broker EXCEPT !.blacklist[s] = @ \ {cmd}], <<>>,
            <<Reply(c, "REPORT", "mmi.filter", "200")>>)

Disable(c, s, cmd) ==
  /\ "mmi.filter" \in MMI
  /\ Finish([broker EXCEPT !.blacklist[s] = @ \cup {cmd}], <<>>,
            <<Reply(c, "REPORT", "mmi.filter", "200")>>)

BadFilter(c) ==
  /\ "mmi.filter" \in MMI
  /\ Answer(Reply(c, "REPORT", "mmi.filter", "400"))

NotImplemented(c, s) ==
  /\ s \in MMI \ {"mmi.service"}
  /\ Answer(Reply(c, "REPORT", s, "501"))

\* The poll timed out, or the message had neither a client's nor a worker's
\* header: only the end of the loop's body runs.
NoMessage == Finish(broker, <<>>, <<>>)

-----------------------------------------------------------------------------
(* The process and its clock *)

Init ==
  /\ broker = NewBroker
  /\ heartbeatIn = INTERVAL
  /\ status = "up"
  /\ sent = Silence

Tick ==
  /\ broker' = [broker EXCEPT !.expiry =
                  [w \in Workers |-> IF @[w] > 0 THEN @[w] - 1 ELSE 0]]
  /\ heartbeatIn' = IF heartbeatIn >= 0 THEN heartbeatIn - 1 ELSE -1
  /\ sent' = Silence
  /\ UNCHANGED status

\* An interrupt ends the loop and s_broker_destroy frees the tables.  The loop
\* of s_service_destroy over a blacklist never moves on from its first item: it
\* frees that item twice, and the C library aborts the process.
Shutdown ==
  /\ status' = IF \E s \in Names : broker.blacklist[s] # {}
               THEN "aborted" ELSE "down"
  /\ broker' = NewBroker
  /\ heartbeatIn' = INTERVAL
  /\ sent' = Silence

\* The broker is started again, with empty tables.
Start ==
  /\ status # "up"
  /\ status' = "up"
  /\ UNCHANGED <<broker, heartbeatIn, sent>>

FromWorker(w) ==
  \/ ReadyAgain(w)
  \/ ReadyReserved(w)
  \/ \E s \in Offered : ReadyNew(w, s)
  \/ \E c \in Clients : Report(w, c)
  \/ ReportWithoutService(w)
  \/ Heartbeat(w)
  \/ Unknown(w)
  \/ Disconnect(w)
  \/ InvalidCommand(w)

FromClient(c) ==
  \/ \E s \in Services, cmd \in Commands :
       \/ Submit(c, s, cmd)
       \/ Refuse(c, s, cmd)
       \/ Enable(c, s, cmd)
       \/ Disable(c, s, cmd)
  \/ \E s \in Names : LookUp(c, s) \/ NotImplemented(c, s)
  \/ BadFilter(c)

Iteration ==
  \/ \E w \in Workers : FromWorker(w)
  \/ \E c \in Clients : FromClient(c)
  \/ NoMessage

Next ==
  \/ status = "up" /\ (Iteration \/ Tick \/ Shutdown)
  \/ Start

Spec == Init /\ [][Next]_vars

\* zmq_poll returns after HEARTBEAT_INTERVAL at the latest, and time passes.  Any
\* iteration resets a heartbeat that is due, so that being fair to the iteration
\* without a message, when one is due, is being fair to the loop.
LiveSpec ==
  /\ Spec
  /\ WF_vars(status = "up" /\ heartbeatIn < 0 /\ NoMessage)
  /\ WF_vars(status = "up" /\ Tick)

-----------------------------------------------------------------------------
(* Properties *)

\* Every variable has its type: in particular a time left is never negative.
TypeOK ==
  /\ broker \in BrokerType
  /\ heartbeatIn \in -1..INTERVAL
  /\ status \in {"up", "down", "aborted"}
  /\ sent \in Output

\* Nothing is left in a list of a worker that s_worker_delete has freed, and no
\* worker is in a list twice, where zlist_remove would leave a copy behind:
\* broker->workers, broker->waiting, service->waiting, service->workers and
\* worker->service describe the same set of workers.
Attached(b) == {w \in b.known : b.service[w] # NoService}

ListsMatchRegistry(b) ==
  /\ Attached(b) \subseteq Range(b.waiting)
  /\ Range(b.waiting) \subseteq b.known
  /\ \A s \in Names : Range(b.queue[s]) = {w \in Attached(b) : b.service[w] = s}

NoDuplicates(b) ==
  /\ IsInjective(b.waiting)
  /\ \A s \in Names : IsInjective(b.queue[s])

CountsMatchQueues(b) == \A s \in Names : b.count[s] = Len(b.queue[s])

StrangersAreBlank(b) ==
  \A w \in Workers \ b.known : b.service[w] = NoService /\ b.expiry[w] = 0

Consistent(b) ==
  /\ ListsMatchRegistry(b)
  /\ NoDuplicates(b)
  /\ CountsMatchQueues(b)
  /\ StrangersAreBlank(b)

Registry == Consistent(broker)

\* broker->waiting holds workers from oldest to most recent (the comment of
\* s_broker_purge), so that a purge may stop at the first live worker.
Sorted(b) ==
  \A i, j \in DOMAIN b.waiting :
    i <= j => b.expiry[b.waiting[i]] <= b.expiry[b.waiting[j]]

OldestFirst == Sorted(broker)

\* A request waits only while its service has no worker: no order of READY,
\* request, expiry and purge leaves a request behind a worker that could serve it.
Stranded(b) == {s \in Names : b.requests[s] # <<>> /\ b.queue[s] # <<>>}

NoStrandedRequest == Stranded(broker) = {}

\* Every REQUEST and HEARTBEAT goes to a worker that is registered and has not
\* expired, and every DISCONNECT to one the broker has forgotten.
Receivers(kind) == {m.to : m \in {x \in Range(sent.other) : x.kind = kind}}

SendsMatchRegistry ==
  /\ \A m \in Range(sent.work) : m.to \in broker.known /\ broker.expiry[m.to] > 0
  /\ \A w \in Receivers("HEARTBEAT") : w \in broker.known /\ broker.expiry[w] > 0
  /\ \A w \in Receivers("DISCONNECT") : w \notin broker.known

\* Workers are scheduled round robin (the comment of s_service_dispatch): of two
\* workers of a service, one gets a request and the other none only if it stands
\* first, and it then moves behind the other; else they keep their order.
Before(q, v, w) == \E i, j \in DOMAIN q : i < j /\ q[i] = v /\ q[j] = w
Served == {m.to : m \in Range(sent.work)}

RoundRobin ==
  [][\A s \in Names :
       \A v, w \in Range(broker.queue[s]) \cap Range(broker'.queue[s]) :
         v # w /\ v \notin Served' =>
           IF w \in Served'
           THEN Before(broker.queue[s], w, v) /\ Before(broker'.queue[s], v, w)
           ELSE Before(broker.queue[s], v, w) => Before(broker'.queue[s], v, w)]_vars

\* A live worker is deleted only by its own DISCONNECT or second READY.
OnlyExpiredAreDropped ==
  [][\A w \in broker.known \ broker'.known :
       broker.expiry[w] = 0 \/ status' # status \/ Disconnect(w) \/ ReadyAgain(w)]_vars

\* The broker never holds a worker without a service while its peers send the
\* four commands of the protocol only, whatever their order: the READY of a known
\* worker, the DISCONNECT of an unknown one and the like leave none behind, so
\* that the REPORT branch never dereferences a NULL worker->service.
KnownHaveService == ~ForeignPeers => Attached(broker) = broker.known

\* Workers and clients see the promises of ServiceQueue: each accepted request
\* is handed over once, in order, to a current worker of its service.
Promise == INSTANCE ServiceQueue WITH
  Requests <- Request,
  pending  <- [s \in Services |-> broker.requests[s]],
  members  <- [s \in Services |-> Range(broker.queue[s])],
  out      <- sent.work

KeepsPromise == Promise!Spec

\* A worker that stays silent until it has expired is deleted in the end, even
\* behind workers that never stop sending, unless it is heard of again.  (A peer
\* that is known by an invalid command only is in no list that is purged.)
ExpiredAreDropped ==
  \A w \in Workers :
    (w \in Attached(broker) /\ broker.expiry[w] = 0)
      ~> (w \notin broker.known \/ broker.expiry[w] > 0)

\* "Reserved service name": no worker is attached to a name of the broker's own
\* MMI services.
ReservedNamesRefused == \A w \in Workers : broker.service[w] \notin MMI

\* Whatever the peers and the operator do, the process is never killed.
NeverAborted == status # "aborted"

=============================================================================
