# A formal model of SMAMP

SMAMP is a small service platform in C on top of ZeroMQ: a Majordomo broker (`src/mdp_broker.c`), the worker
and client libraries of its protocol (`src/mdp_worker.c`, `src/mdp_client.c`), a Titanic server that makes requests durable
(`src/titanic.c`), and an example application, a material management service in front of a MongoDB
worker. This directory holds TLA+ models of it, the TLC configurations that check them on small instances, and proofs
checked by TLAPS.

`tlc -config X.cfg M` checks run X of module M, and `tlapm M.tla` checks the proofs of module M. `PROJECT.json` lists runs,
theorems, findings, hazards and, for every definition, the lines of source it stands for.

## 1. Inventory

| Component | State it keeps | Operations | Talks to | What is hard | What makes it correct |
|---|---|---|---|---|---|
| **Broker** `mdp_broker.c` | `broker_t`: hash tables of services and workers, the list `waiting` of all workers, `heartbeat_at`; per service the lists `requests`, `waiting`, `blacklist` and the count `workers`; per worker its service and `expiry` | READY, REPORT, HEARTBEAT, DISCONNECT of workers; requests of clients to ordinary names and to `mmi.service`, `mmi.filter`; purge and heartbeat after every poll | all other processes, one ROUTER socket | the same worker is in up to four structures; expiry at any time; the purge stops early; restarts lose the tables | the structures agree; no freed worker is used; a request goes once, in order, to a live worker of its service; nobody waits who could be served |
| **Titanic server** `titanic.c` | the directory `.titanic` (a `.req` and a `.rep` file per UUID, the file `queue`), a pipe from one actor to the main thread | `titanic.request`, `titanic.reply`, `titanic.close` (three actors), the scan of the main thread with `s_service_success` | the broker: its actors are workers, its main thread is a client | four threads share files without a lock; kills between writes; services that never answer; an orderly stop that depends on the broker | what a client was told is on disk; a marked entry is answered; requests are answered in the end |
| **Worker library** `mdp_worker.c` | socket, `liveness`, `heartbeat_at`, intervals | `mdp_worker_new`, `mdp_worker_recv` (requests, heartbeats, disconnects, silence, reconnection), `mdp_worker_send`, `mdp_worker_destroy` | broker | reconnects under a new address; says nothing while the program computes; a request is returned before the heartbeat check | a worker that keeps up stays registered, and comes back after any crash; a request is executed once at most |
| **Client library** `mdp_client.c` | socket, timeout | `mdp_client_send`, `mdp_client_recv` | broker | a reply that comes after its timeout is taken for the next one; assertions on what arrives | an answer belongs to the latest call unless one timed out |
| **mm_client** `mm_client.c` | where it is in `main` | four calls of MM | application broker | its replies come through three processes | it ends; what it displays is the reply to its order |
| **mm_worker** `mm_worker.c` | a worker session and a client session | one nested call of MongoDB for each request of MM | application broker, database broker | the nested call times out, or returns an older answer; answers that abort the process | it reports of each call what the database said of that call |
| **mongodb_worker** `mongodb_worker.c` | a worker session, a connection | CREATE, RETRIEVE, UPDATE, DELETE | database broker, MongoDB | an error after the effect; a report without frames | every report has a frame |
| **ticlient** `ticlient.c` | a UUID | store, poll, close | Titanic through the broker | - | what Titanic says of the UUID is right |

The broker is one thread, so that its behaviours are the interleavings of messages, the clock and the operator. Titanic is four threads
and a disk. Processes interact through messages only, which sockets queue in both directions and lose when one side goes away. `hazards` of `PROJECT.json` lists, line by
line, what is hard to test.

## 2. Modules

| Module | Purpose |
|---|---|
| `MDPBroker` | the broker, its properties |
| `ServiceQueue` | abstract specification: what the broker promises of ordinary services |
| `MDPBrokerLoops` | the loops of `s_broker_purge` and `s_service_dispatch`, item by item |
| `MCMDPBroker` | symmetry for TLC |
| `MDPBrokerProofs` | the proofs about the broker, with the lemmas on lists that they need |
| `ServiceQueueProofs` | the proof that the broker implements `ServiceQueue`, and those of its action properties |
| `MDPBrokerLoopsProofs` | the proof that the loops compute the closed forms |
| `Titanic` | the Titanic server, its properties |
| `MCTitanic` | symmetry for TLC |
| `RequestStore` | abstract specification: what Titanic promises of each request |
| `TitanicProofs` | the proofs about Titanic, and that it implements `RequestStore` |
| `Majordomo` | the broker composed with the worker and the client library: EXTENDS `MDPBroker`, whose actions it uses unchanged |
| `MCMajordomo` | constants that a configuration cannot write |
| `MajordomoProofs` | the proofs about the composition; EXTENDS `ServiceQueueProofs` |
| `CallsProofs` | the proofs about its single calls; EXTENDS `MajordomoProofs` |
| `HeartbeatProofs` | the proofs about its timing: nobody who keeps up is purged, and no call is lost; EXTENDS `CallsProofs` |
| `MMService` | mm_client, mm_worker and mongodb_worker between two brokers |
| `MCMMService` | symmetry for TLC |
| `MMServiceProofs` | the proofs about it |

### 2.1 MDPBroker

**State.** `broker` is the record of all tables: `known` is the key set of `broker->workers`, `waiting` is
`broker->waiting`, and `queue[s]`, `count[s]`, `requests[s]`, `blacklist[s]` are `waiting`, `workers`, `requests`, `blacklist`
of the service named `s`. `s_service_require` creates a service with empty fields, so a service that does not exist and an empty one are the
same state. `service[w]` and `expiry[w]` are fields of worker `w`. `sent` is what the latest iteration wrote; REQUESTs are kept apart
because in one iteration they come first and only the properties on them need their order.

**Actions.** The main loop polls, handles at most one message, then purges and sends heartbeats if `heartbeat_at` has passed. An iteration
is atomic for all other processes, and so one action: each handler ends in `Finish`, the heartbeat part of the loop. `FromWorker` has one
action for each branch of `s_broker_worker_msg` (READY of a known, of a reserved and of a new worker; REPORT with and without a
service; HEARTBEAT; a command of an unknown worker; DISCONNECT; any other command), `FromClient` one for each branch of `s_broker_client_msg`.
`NoMessage` is a poll that timed out. `Shutdown` is the end of the loop by a signal followed by `s_broker_destroy`; `Start` a new process.

**Time.** Deadlines are kept relative to the present: `expiry[w]` counts down to 0, `heartbeatIn` down to -1. `Tick` is the passing of time between two iterations.
The two lower bounds differ because the code tests `zclock_time() < worker->expiry` and `zclock_time() > heartbeat_at`. The clock only moves forward.

**Loops in closed form.** `DeleteWorkers`, `Purge`, `Dispatch` and `Rotate` say in closed form what loops compute, because a proof cannot use
recursive operators. `MDPBrokerLoops` has the same loops with pop, append and remove of one item per step, and its run shows that
both agree on all tables of three workers and two services. `MDPBrokerLoopsProofs` proves it for all tables in which nobody is in a list twice, of any finite number of workers. Workers without a service are among
them, in `waiting` too: a peer whose first command is none of the four, and who then sends a HEARTBEAT, is such a worker (`Detach` is the test of `worker->service` in `s_worker_delete`).

**Abstractions.** Addresses, names and commands are model values; a client's request is its sender and its first body frame, which is what the
blacklist looks at. Whether a name or an address begins with `mmi.` is a constant (`MMI`, `ReservedSenders`). Messages that an assertion of
the broker rejects (a missing frame) are not sent: the libraries of the repository never build them. With `ForeignPeers` a worker may
send a command that is none of the four, which the code answers with an error message after it has registered the sender; then the
registered worker has no service and `ReportWithoutService` is possible. `mmi.filter` is asked about ordinary services.

### 2.2 Titanic

**State.** `disk` is the directory: a `.req` and a `.rep` file for each UUID, which is absent, being written (`partial`) or complete, and the entries of `queue` with
their marks. `actor` is where each of the three actors is, `main` where the main thread is in its scan. `pipe` holds UUIDs on
their way to the main thread. `seen` is what clients have done so far; it restricts them to UUIDs that they were given and states the properties.

**Actions.** An action ends where another thread or a kill can tell the difference: the opening of a file for writing (the file exists and is
empty), its closing (the file is whole), the sending of the UUID, the answer to the client, the existence test and the opening in `titanic_reply`, the
two deletions in `titanic_close`, the loading of a request, the reply of the service, and the mark in the queue. A file that is loaded is loaded as it is at its opening.
The two calls that `s_service_success` makes through the broker appear as their outcomes: no reply in time or service unknown (`NoReply`), or a reply
(`GetReply`), a NAK included since the code does not look at the command. What `zmsg_load` makes of a file that is being written depends on the version of CZMQ: a short message (`LoadReply` of a `partial` file), or none, which `zmsg_pushstr`
refuses (`AssertFails`). `Crash` kills the process at any step; what stdio has not written is lost, what was closed stays.
`Interrupt` is a signal: it ends the loop if the main thread waits in `zmq_poll`, and only sets the flag `zctx_interrupted` at any other time. The main thread then
sends a `shutdown` request to each actor through the broker, which may not arrive, and waits for the actors (`Leave`). An actor also ends by a `shutdown` of anybody else (`LeaveEarly`), or by a signal that reaches its own thread (`Signalled`), while the main thread
runs on; one that a signal ends before its first request destroys a pointer that was never set (`DestroyUnset`: the process may be aborted or not).

**Abstractions.** A UUID is new each time (`u \notin seen.issued`). Clients ask only for UUIDs that they were given. The answer of `titanic.close` is always 200 and is
left out, as are the wording of messages and the content of requests. The file system itself does not fail. `titanic.request` does not end while the main thread runs on, although a foreign `shutdown` or a signal could do that: CZMQ writes a signal
into the pipe when the function of an actor returns, the main thread takes it for a UUID, and the entry without a name that it appends shifts all later ones, which are read as 33 bytes each. What the properties say of the queue holds as long as that does not happen.

**Abstract specification.** `RequestStore` has one state per request (received, acknowledged, finished, closed) and a question that is asked at one time and answered at
another. `Ask` may leave what is said open, except for a request that is finished and not closed: that one gets its reply, and in whole. So a client of `titanic.reply` sees each request
as if it changed at one moment, although the actor looks at two files one after the other. Mapping: a request is finished when its queue entry is marked, closed when its `.req` file is
deleted, and the question is where the actor is (`Question`). A reply of a request that is not marked yet may be torn (finding `titanic_torn`), which is why the store promises a whole one for finished requests only.

### 2.3 Majordomo

**State.** To the broker's variables come the four kinds of queues (`toBroker`, `toWorker`, `calls`, `answers`; a ZeroMQ connection queues on both sides, which one queue stands for), one
`mdp_worker_t` per process with where its program is (`recv`: in the poll of `mdp_worker_recv`; `busy`: has a request; `asleep`: in the `zclock_sleep` before a reconnection; `down`), and one client session per
client: `patience` is what is left of its receive timeout, `outcome[k]` what call `k` returned. A `Command` names one call, and an answer is the call it answers. A worker address is a socket: `Connect` takes an
unused one each time, as ROUTER does.

**Actions.** `HandleWorker`, `HandleClient` and `BrokerHeartbeat` are the iterations of `MDPBroker` with their message taken from a queue and `sent` put on others (`Delivered`). The worker's actions are the branches of
the loop of `mdp_worker_recv`, each with the end of the loop (`PollAgain`: a HEARTBEAT if one is due) unless the code leaves before it: `TakeRequest` returns at once, `GiveUpOnBroker` sleeps first. `StopBroker`
loses the tables and up to `MaxLost` messages on every connection; `Interrupt` and `Crash` end a worker with and without DISCONNECT; a closed socket may or may not flush (`linger`).

**Time.** A tick passes when the broker, the clients and the network have nothing left to do. In a *steady* run the worker processes keep up as well; in all others they may be late with anything, up to `MaxLag` messages behind.
So every property is checked with workers that compute for long, and those that need punctual workers say `steady`.

**Abstractions.** The clients' messages are not lost while the broker is up. `mmi.` names and foreign commands are left to `MDPBroker` (`CompositionAssumption`). The setters of intervals and socket options are constants.

### 2.4 MMService

**State.** Where each `mm_client` is in its four calls, what its session holds; for each `mm_worker` the requests in its worker socket (`orders`), the call it works on, and what its client session holds (`answers`); for each
`mongodb_worker` its requests and its unfinished report; the collection as the number of documents per material. `behind`, `late`, `outcome` are history.

**Actions.** `SendOrder`, `TakeReply` and `NoReply` are the two halves of `s_mm_send`. `TakeOrder` is `s_mm_handle_request` up to the send of the nested call; `TakeAnswer`, `NoAnswer` and `AnswerTooShort` are its rest, for an answer, a
timeout, and an answer that the assertion of `mdp_client_recv` refuses. `ReportOf` says which report each operation makes of the frames it gets, `Abort` is the end of the process by `zmsg_popstr(NULL)` or the assertion, `Execute` and
`SendAnswer` are `s_mongodb_handle_request` before and after the effect on the collection. An operation may fail with or without its effect; a find whose cursor fails reports what it has got (`FailedReports`), because the loop of `s_mongodb_handle_retrieve` does not ask why it ended.

**What a report says.** `outcome[k]` keeps what the driver said of call `k` and how many documents there were when it was executed. `ReportsAreTrue` compares the report of an mm_worker that is not `behind` with these two: "... failed" is an error of the driver, "One document ..."
a success, and a list names no more documents than there were, and all unless the cursor failed. It does not say more, since the reports do not. The driver's update and delete succeed when nothing matches, so that "One document deleted." is reported although nothing was,
and is so in every undisturbed run of `mm_client`: the order that it deletes has just been renamed by its own update. The report of an mm_worker that is behind is about another call: that is the finding `mm_behind` (`ResultsReturned`).

**Abstractions.** The brokers are what `ServiceQueue` says of them: a request goes to some worker of the service. All orders are about one material, as in the program, so that a document is its `k_material`; `Leftover` is the number of documents in the collection before the first order.

## 3. Runs

| Run | Instance | Shows |
|---|---|---|
| `broker_safety` | 3 workers, one of them with a reserved address; 1 client; 1 ordinary and 2 MMI names; expiry after 2 ticks; foreign commands; fairness | `TypeOK`, `Registry` (the four structures describe the same workers), `SendsMatchRegistry` (a REQUEST or HEARTBEAT only to a live registered worker, a DISCONNECT only to a forgotten one), `OnlyExpiredAreDropped`, `ExpiredAreDropped` (a silent worker is purged although another keeps sending) |
| `broker_scheduling` | 3 workers, 2 services, 2 clients, queues of up to 3 requests, expiry after 3 ticks | `NoStrandedRequest`, `OldestFirst`, `KnownHaveService`, `RoundRobin`, and that the broker implements `ServiceQueue` |
| `broker_loops` | all tables of 3 workers and 2 services, with workers that have no service, up to 4 requests | the loops compute `Dispatch` |
| `titanic` | 2 requests, the service of one may never answer; kills, interrupts and foreign shutdowns at any step; fairness | `TypeOK`, `AckedIsSaved`, `UnknownIsRight`, `MarkedIsAnswered`, `LoadsWholeRequest`, `NotCalledAgain`; that the server implements `RequestStore` (`KeepsPromise`); `EventuallyAnswered`, `EventuallyQueued` |
| `majordomo` | 1 process with 3 addresses, 1 session with 2 calls, expiry and liveness 3, one crash or interrupt of either side with up to 2 messages lost on each connection, a worker up to 2 messages behind; fairness | `SystemTypeOK`; `CallsAreNotDoubled` (never two of one call), `CallsAreNotLost` (none lost in a steady run without a crash), `AnswersFitCalls`, `ExecutedOnce`, `WaitingIsNotPurged`, `WorkersComeBack`, `NoRequestStays` |
| `mm_service` | 1 mm_client with its four calls, 2 mm_workers, 2 mongodb_workers, two faults (a crash, an error of the driver, a timeout although the message was coming), one restart of an mm_worker; fairness | `TypeOK`; `AnswersInStep`, `RepliesInStep`, `ReportsAreTrue`, `OrderIsKept`, `ClientsFinish`, `CallsEnd` |

Six more runs end in a counterexample: section 4.

**Bounds.** *Broker.* `MaxRequests` bounds the queue of a service in the guard of `Submit` only. Order and loss need two requests, `RoundRobin` needs requests
that take turns among three workers, and one batch of several requests (up to 3 may wait for the first worker); the sortedness of `waiting` needs a list with a head, an expired
worker behind it and a third that refreshes. Three workers give all of them. `INTERVAL * LIVENESS` is 2 or 3 ticks, so that workers
can have two or more different deadlines at once. The proofs of section 5 cover all other sizes. *Titanic.* Two UUIDs give a request behind another in the queue, a scan that is
interrupted between two, and each pair of threads at work on the same or on different requests. Three add only longer queues; the proofs cover them.
Runs with invariants only use symmetry of the model values; those with liveness do not. *Majordomo.* One process needs a second address to reconnect while the broker still holds the first, and a third to do so again after a crash; two calls
of one session are what late answers need, and `Connect` takes the first unused address, since they are alike. Two processes that compete for requests are what `MDPBroker` is checked with. *MMService.* A call passes three processes, and two workers of each kind let consecutive operations overtake each other.
Two faults give a timeout that leaves an answer behind and a crash after it. The collection has a document already (`Leftover`), from a run of mm_client that did not come to its end, so that a find has two documents to list, or one when the CREATE failed. `mm_empty` needs two clients and no fault, `mm_behind` one client and one timeout.

**Deadlock.** It is checked in all runs but these: `broker_loops` ends when the loops end, in `titanic_shutdown` the process may wait for ever
for an actor whose `shutdown` was not delivered, and in the runs of `MMService` the clients come to their end.

**Fairness.** *Broker:* `WF` of an iteration that is due, since `zmq_poll` returns at the latest after the heartbeat interval,
and of `Tick`, since time passes. No message is assumed ever to arrive. *Titanic:* `WF` of the main thread, which never waits without a timeout; `SF` of the answer of each service that
is not dead, since the main thread calls it again and again and one that is alive answers one of the calls in time (one that is `Dead` may answer or not); and that the process stays up from some time
on. The third is needed because a process that is killed again and again gets nowhere. Nothing is assumed of clients and actors.
*Majordomo:* the loop of the broker handles what has arrived and what is due, time passes, a worker process goes on (it returns from `zmq_poll`, from its sleep and from its computation, and is started when it is down), the broker is started
again, and a client that has made a call waits for its end; no client has to make one. The fairness of the broker is stated on what an iteration takes from a queue. *MMService:* each client, mm_worker and mongodb_worker goes on: both receives
have a timeout, the driver has its own. Nobody need start what has ended, so that the last mm_worker may stay down and its clients time out.
`EventuallyAnswered` excuses a process that was interrupted: the flag is never cleared and ends every later scan after its first entry.

Each property of these runs is paired, in `PROJECT.json`, with a mutant of the code that violates it. Mutants stand next to the definition they change.

## 4. Findings

Six runs end in a counterexample to what a comment or an assertion of the code says.

- `broker_reserved` (`ReservedNamesRefused`): READY for a reserved service name is refused by looking at the address of the *sender*, so
  that a worker with an ordinary address becomes a worker of `mmi.service`, and one whose address happens to begin with `mmi.` is refused for any service.
- `broker_shutdown` (`NeverAborted`): after a command has been disabled, an orderly exit frees its blacklist entry twice.
- `titanic_torn` (`ReplyIsWhole`): `titanic.reply` takes the existence of the `.rep` file for the reply, so that it answers 200 with a truncated one while the main thread writes it (or, where `zmsg_load` makes no message of an empty file, ends the server).
- `titanic_shutdown` (`AckedIsQueued`): a request that is accepted while the main thread is leaving its loop is acknowledged but never queued.
- `mm_empty` (`ReportsHaveFrames`): a RETRIEVE that finds nothing is reported in no frame, and `assert(zmsg_size(msg) >= 5)` of `mdp_client_recv` ends the mm_worker that asked. Two `mm_client`s and no fault are enough: one deletes what
  the other selects. The "Nothing selected" of `mm_worker.c:152`, meant for this case, is said after a timeout only.
- `mm_behind` (`ResultsReturned`): after a POSelect that timed out, the answer to it is taken for the answer to the next operation; the update is reported as failed while it waits to be executed.

One more disagreement with a comment has no run of its own: "Put all the found entries in the report JSON string" (`mongodb_worker.c:116`) holds only if the cursor does not fail. `FailedReports` has the list that is cut short, and `ReportsAreTrue` the rest: nothing else makes a list too short, and nothing makes it too long.

The models have further behaviours that a reader may not expect and that no comment rules out: a close between the two looks of `titanic_reply` ends the server by `assert(file)` (`AssertFails`); any client can end `titanic.reply` or `titanic.close` by `shutdown` (`LeaveEarly`);
a signal during a call leaves Titanic running with crippled scans; a reply may be saved after its request was closed; a request that waits in the broker is sent although
its command was disabled meanwhile; a worker that has just taken a request may be purged at exactly its expiry, because it skipped a heartbeat (`served` in `WaitingIsNotPurged`); after a POSelect that timed out an
mm_worker is one answer behind until it is restarted (`behind`); any other operation that times out ends the process (`Abort`); the nested call and the call it serves have the same timeout, so that what mm_worker says of a timeout usually comes too late.

## 5. Proofs

TLAPS checks them for all values of the constants that satisfy `NamesAssumption` and `NumbersAssumption` of `MDPBroker` (intervals are positive, names and addresses
are disjoint), `UuidsAssumption` of `Titanic`, `CompositionAssumption` and `FaultsAssumption` of `Majordomo` (the values that stand for "no call" and for the states of a call are neither calls nor commands), and `ServiceAssumption` of `MMService`. The sets need not be
finite, except for `FiniteAssumption` of `MDPBrokerLoops`: its initial tables are lists of all workers that there are.

**Broker** (`MDPBrokerProofs`). The inductive invariant is

    IInv == Good(broker) /\ TypeOK /\ SendsMatchRegistry
    Good(b) == Base(b) /\ Stranded(b) = {}
    Base(b) == b \in BrokerType /\ Consistent(b) /\ Sorted(b) /\ ServiceKnown(b)

`Registry` is not inductive alone. A count is decremented by the number of deleted workers of its service: that it does not underflow, which `TypeOK` says, needs counts that equal the lengths of
lists without duplicates. That a REQUEST goes to a live worker needs a purge that leaves no expired one, which needs `Sorted`, which needs that a worker not
registered is blank (`StrangersAreBlank`) when it comes back. That no request is stranded needs that a dispatch follows each new worker and each new request, and
that the purge before it only removes workers. `Base` is what each operation on the tables preserves in the middle of a handler, `Good` what holds between two iterations, when no service
has both requests and workers. The lemmas follow the code: `DeleteBase`, `PurgeBase`, `AttachBase`, `RefreshBase`, `EnqueueBase` on the
operations, `DispatchGood` and `FinishGood` on what every handler ends with, `WorkerStep` and `ClientStep` on the handlers. Its first part has what they need of
`Without` (zlist_remove) and `Rotate`.

Theorems: `Safety`, `TypeCorrect`, `RegistryCorrect`, `WaitingIsSorted`, `NothingStranded`, `SendsCorrect`, `ServiceOfKnown`.

**The broker implements ServiceQueue** (`ServiceQueueProofs`). The members of a service, which the mapping takes from `worker->service->workers`, can be read off the registry (`MembersFromRegistry`). A dispatch hands over all that
waits or nothing (`Good`); the purge before it leaves only live members, so that the one in the next heartbeat removes none of those it has just served. An accepted request is thus handed over in its turn, to a worker that is a member before
and after. That a `READY` for a name of the broker itself hands nothing over needs `ReservedIdle`: no request waits there, although a worker may register there.
Theorems: `BrokerImplementsServiceQueue`, `OnlyExpiredDropped`.

`ScheduledRoundRobin` follows the order of two workers in the list of their service through an iteration. Removal, purge and append keep it (`KeepsOrder`, `WithoutKeepsOrder`, `AppendKeepsOrder`). A rotation by as many rounds as there were requests
puts exactly the workers that were served behind the others and leaves the order within each of the two parts alone (`RotateOrder`). A service that is not dispatched keeps its list, and while the broker is down the lists are empty (`DownIsEmpty`).

**The loops** (`MDPBrokerLoopsProofs`). `LoopsInv` says where the loops are: in the purge, the first `k` workers of `waiting` have expired and the tables are those without them (`Purging`); in the dispatch, the first `n` requests have been sent and the list is
rotated `n` times (`Sending`). One more round of the first loop is one more deletion (`DeleteOneMore`), because the code removes the first occurrence and there is only one (`RemoveIsWithout`); the loop ends exactly at the first worker that is alive (`HeadEnds`). One
more round of the second is one more rotation, and `zlist_remove` between `zlist_pop` and `zlist_append` finds nothing (`OneMoreRound`): both need lists in which nobody is twice. It is an invariant and not an induction over lists, so that the prover can do it. Theorem: `LoopsCorrect`.

**Titanic** (`TitanicProofs`). The inductive invariant adds to the properties whose hands a UUID is in: titanic.request, the pipe or
the queue, never in two (`OnceOnly`, `InHand`), that what was sent had been written (`SentIsWritten`), that only
`titanic.close` deletes a request (`OnlyClosedIsDeleted`), and that the entry the main thread works on is unmarked and its reply on its way to the
disk (`EntryInWork`). `OnceOnly` is why a mark is final: no second entry has the same UUID. Theorems: `TitanicSafety`, `TitanicTypes`, `TitanicInHand`, `AckedSaved`,
`MarkedAnswered`, `UnknownRight`, `LoadsWhole`, `CalledUntilMarked`.

**Titanic implements RequestStore** (the second part of `TitanicProofs`). Each step of a thread is one step of the store or a quiet one: the entry that is marked was not marked before (`OnceOnly`), a finished and open request has its reply on disk
(`MarkedIsAnswered`), so that the look for it succeeds and what is loaded later is whole, and the `.req` file is there exactly as long as the request is open (`AckedIsSaved`, and `ClosedIsDeleted`, which is proved here). Theorem: `TitanicImplementsStore`.

**Majordomo** (`MajordomoProofs`). `SysInv` is the broker's `IInv` with the types of what the libraries keep and of what is on its way: a connection carries only what the protocol allows, a worker that is up has an address and one
that is busy a request. Its proof shows that each step of the composition is a step of `MDPBroker` or leaves the broker alone, which is also the theorem `BrokerImplementsSpec` (`System => Spec`): what is proved of
`MDPBroker` with an arbitrary environment holds between the two libraries (`BrokerSafeInSystem`), its promise included. Theorems: `SystemInvariant`, `SystemTypeCorrect`, `BrokerImplementsSpec`, `BrokerSafeInSystem`.

**Majordomo, single calls** (`CallsProofs`). `Carried` says of each call that it was made before it is anywhere, that it is carried by at most one thing, once (a queue to or from the broker, a list of requests, the hands of a worker, an answer), always for the client that made it, and
that no worker has taken it yet while it is on its way to one. A step takes a call out of one place (`TakeOut`) or loses it (`Shrinks`) and puts it into at most one other, which it then is not in already. `HandOver` covers the iteration of the broker,
which may move a whole list at once: the dispatch hands each request to one worker. `AnswersFitCalls` needs two facts more: a client waits for its latest call only, and an answer to an older one comes only after a timeout. The sessions and the
sockets are any number, and any of them may crash and lose what it carries. Theorems: `CallsCarried`, `NeverDoubled`, `NeverExecutedTwice`, `AnswersFit`.

**Majordomo, time** (`HeartbeatProofs`). The two properties that rest on time need, for each connection, bounds that relate the clocks of its two ends and what is on its way between them. They are three invariants.

- `Links`, without a word on time, says what a connection can carry: READY is its first message and the broker does not know the worker until it has read it, DISCONNECT is sent to a worker only when it is not known, no two
  processes have one address, and a closed connection holds nothing for its worker.
- `InTouch` is about steady runs. `Silent(w)` bounds for how long worker `w` will say nothing yet: up to its next poll when a HEARTBEAT is due, an interval longer when not. A worker that the broker knows has a HEARTBEAT on its way or expires later than that
  (`IsHeard`). This is inductive only together with the other direction, `Hears`: a worker that gives up on the broker sleeps for `RECONNECT` ticks and says nothing, so it must not do so just before it expires. `Left(w)` is how long it will wait yet; either a HEARTBEAT of
  the broker comes before, or the broker has heard of the worker since its own last HEARTBEAT. Whoever took a request since its last HEARTBEAT is excepted (`served`), and is again in touch when the broker has read the next one.
- `Quiet` is about steady runs without faults. There a worker hears a HEARTBEAT before it gives up whenever it is known, so that it closes a connection only when the broker does not know its address (`Undisturbed`). As long as it is busy, or a REQUEST or its REPORT is on its way,
  it is known and has not expired: no time passes in between, because all keep up.

`NothingLost` follows the calls: a request is sent to a worker that is known, so that its connection is open (`TaskArrives`); a connection that is closed carries neither a request nor a REPORT (`ConnectLosesNothing`); the sender of a REPORT is known, so that the broker passes it on
(`WorkerMessageStays`); and a worker that is not busy has nothing in its hands when it reconnects (`EmptyHands`).

The intervals are constants, and the theorems have what they need of them as hypotheses: `BrokerIsHeard` (`INTERVAL + 1 < EXPIRY`, for `CallsNotLost`), and `WorkersAreHeard` (`2 * INTERVAL < EXPIRY` and `RECONNECT + INTERVAL + 1 < EXPIRY`, for `WaitingNotPurged`), where `EXPIRY` is
`INTERVAL * LIVENESS`. The code has 2500 ms for both intervals and for the reconnect delay, and a liveness of 3, which satisfy both with any tick of 1250 ms or less; `BrokerIsHeard` holds with a tick of 2500 ms, too. The second bound cannot be relaxed: with `INTERVAL = 1`, `LIVENESS = 4` and
`RECONNECT = 2`, where both sides are equal, TLC finds a worker that is purged while it sleeps before it reconnects. `Majordomo.cfg` has `INTERVAL = RECONNECT = 1` and `LIVENESS = 3`, where they are equal as well and its run finds no violation; an instance with
`INTERVAL = RECONNECT = 2`, which satisfies the hypotheses, passes too, with twice as many states. Theorems: `AlwaysInTouch`, `WaitingNotPurged`, `AlwaysPresent`, `CallsNotLost`.

**MMService** (`MMServiceProofs`). Neither an answer nor a reply names its call, so that the properties follow from where a call can be. `Nested(e)` says of an mm_worker that is not `behind`: while it waits, its call is in at most one place,
the queue of one mongodb_worker (`AskedBy`), its hands (`InWork`) or the session (`Returned`), and it is the one waited for; otherwise it is nowhere. `Order(c)` says the same of an mm_client that is not `late`. A step disturbs one call
(`NestedExecute`, `OrderReport`, ...); all others only lose messages or move up in their queues (`NestedFewer`, `OrderFewer`). A crash of an mm_worker keeps `Nested` because its session ends with it (`NestedAbort`), and a new one has some of the
old orders but no new ones (`OrderStart`). Theorems: `MMInvariant`, `MMTypeCorrect`, `NestedAnswersInStep`, `ClientRepliesInStep`.

What the reports say is in `TruthInv`: a nested call waits in one queue at most, and one that waits has not been executed (`CallOnce`); an answer, wherever it is, carries what the driver said of its call, or of a find the documents that it got (`Told`); and an order that was answered with a report
has been executed, unless its mm_worker was behind (`Heeded`). With it, the reports of an mm_worker that is not behind agree with the driver (`ReportsTrue`), and, as long as nobody has timed out, no operation of a client that waits for its replies is executed before one that it ordered earlier (`OrderKept`). Theorems: `TruthInvariant`, `ReportsTrue`, `OrderKept`.

**Model-checked only.** Liveness (`ExpiredAreDropped`, `EventuallyAnswered`, `EventuallyQueued`, `WorkersComeBack`, `NoRequestStays`, `ClientsFinish`, `CallsEnd`), which is out of reach of the prover. Every invariant,
every action property and every refinement that a passing run checks is a theorem.

## 6. Plan

Done: the broker, its abstract specification and its proofs, the refinement and the loops included; Titanic, its abstract specification and proofs; the composition of broker and libraries, with the proofs that every call is carried once, that nobody who keeps up is purged, and that
no call is lost without a fault; the material management service, with the proofs that its calls are in step and that its reports agree with the driver. What is left is listed in section 7.

## 7. Not modelled

- `ticlient`: its calls reach `Titanic` as requests for UUIDs that were given out, in any order; its own loop keeps nothing but the UUID and ends by `exit` on a timeout or a 400.
- ZeroMQ, CZMQ and the MongoDB driver: external, modelled from how `src/` uses them (queues that lose what a closed socket held, timeouts, operations that fail before or after their effect).
- Malformed messages: the libraries build none. The one message of the programs themselves that an assertion refuses is in `MMService`.
- A clock that is set back, or jumps: a worker that is refreshed would be sorted wrongly in `waiting`.
- Several brokers, `mmi.` requests and foreign commands in the composition; the setters of intervals and socket options; verbose output.
