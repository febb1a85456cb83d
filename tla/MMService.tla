----------------------------- MODULE MMService ------------------------------
(***************************************************************************)
(* The demonstration on top of the two brokers.  Each mm_client goes       *)
(* through its four purchase orders, one call of the service MM after the  *)
(* other.  An mm_worker serves such a call by a call of its own, of the    *)
(* service MongoDB, on the one session it keeps for all of them, and a     *)
(* mongodb_worker serves that with one operation on the collection.  There *)
(* may be several of each.                                                 *)
(*                                                                         *)
(* The brokers are what module ServiceQueue says of them: a request goes   *)
(* to the socket of one worker of its service, whichever has its turn, and *)
(* a report to the client it names.  Each of the nested calls has its own  *)
(* timeout of 2.5 s, which may run out at any time: mdp_client_recv then   *)
(* returns NULL, and what arrives later is read by the next call.          *)
(*                                                                         *)
(* A message is a sequence of frames.  All orders are about one material,  *)
(* so that a document is only the material it names.                       *)
(***************************************************************************)
EXTENDS Integers, Sequences, FiniteSets, Functions

CONSTANTS
  Clients,    \* mm_client processes, each of which runs once
  Engines,    \* mm_worker processes
  Stores,     \* mongodb_worker processes
  Nobody,     \* the address of a session that is closed
  NoCall,     \* what an idle worker works on
  Leftover,   \* how many documents for a cpu earlier runs left in the collection
  MaxFaults,  \* bound of the model on crashes, errors of the database, and timeouts
              \* that run out although the message would still have come
  MaxStarts   \* bound of the model on how often an mm_worker is started again

ASSUME ServiceAssumption ==
  /\ Nobody \notin Engines
  /\ Engines # {} /\ Stores # {}
  /\ Leftover \in Nat /\ MaxFaults \in Nat /\ MaxStarts \in Nat

VARIABLES
  docs,      \* docs[x]: how many documents of Coll_PO have k_material x
  client,    \* where each mm_client is in its main
  replies,   \* replies[c]: what waits in the session of mm_client c
  engine,    \* where each mm_worker is; behind is history: has this session timed out?
  orders,    \* orders[e]: requests in the worker socket of mm_worker e
  answers,   \* answers[e]: what waits in its session with the database broker
  store,     \* where each mongodb_worker is
  jobs,      \* jobs[s]: requests in the socket of mongodb_worker s
  faults,    \* how many of these there were
  starts,    \* how often mm_workers were started again
  outcome,   \* history: what the driver said of each call, and how many documents
             \* for a cpu there were when it was executed
  late       \* history: the clients and engines for whom a timeout ran out

vars == <<docs, client, replies, engine, orders, answers, store, jobs, faults,
          starts, outcome, late>>

-----------------------------------------------------------------------------
(* Data *)

Script == <<"POSave", "POSelect", "POUpdate", "PODelete">>
Call   == [client : Clients, step : DOMAIN Script]
Op(k)  == Script[k.step]

Done == [POSave   |-> "One document created.",
         POUpdate |-> "One document updated.",
         PODelete |-> "One document deleted."]
Failed == [POSave   |-> "creating document failed.",
           POUpdate |-> "Updating document failed.",
           PODelete |-> "Deleting document failed."]

\* A message, with the call it answers, which no frame of it tells.
Message(texts) == [call : Call, frames : Seq(texts)]
Answer == Message({"200", "error", "cpu"})
Reply  == Message({"200", "error", "cpu", "Nothing selected"}
                  \cup {Done[o] : o \in DOMAIN Done} \cup {Failed[o] : o \in DOMAIN Failed})

Job == [from : Engines \cup {Nobody}, call : Call]

Sent(sockets, x, m) == [sockets EXCEPT ![x] = Append(@, m)]
Read(sockets, x)    == [sockets EXCEPT ![x] = Tail(@)]

\* A timeout is always possible; it counts as a fault if the message is coming.
TimesOut(coming) ==
  IF coming THEN faults < MaxFaults /\ faults' = faults + 1 ELSE UNCHANGED faults

-----------------------------------------------------------------------------
(* mm_client *)

\* s_mm_send, as far as mdp_client_send: the order goes to some mm_worker.
SendOrder(c) ==
  /\ client[c].at = "ready" /\ client[c].step \in DOMAIN Script
  /\ client' = [client EXCEPT ![c].at = "waiting"]
  /\ \E e \in Engines :
       orders' = Sent(orders, e, [client |-> c, step |-> client[c].step])
  /\ UNCHANGED <<replies, late>>

\* main displays what s_mm_send returned, and goes on.
Display(c) ==
  /\ client[c].at = "waiting"
  /\ client' = [client EXCEPT ![c] = [at |-> "ready", step |-> @.step + 1]]
  /\ UNCHANGED orders

TakeReply(c) ==
  /\ replies[c] # <<>>
  /\ Display(c)
  /\ replies' = Read(replies, c)
  /\ UNCHANGED late

Served(k) ==
  \E e \in Engines : engine[e].at # "down" /\ k \in {engine[e].call} \cup Range(orders[e])

NoReply_Wait(c) ==  \* mutant: the client does not give up
  /\ replies[c] = <<>>
  /\ TimesOut(Served([client |-> c, step |-> client[c].step]))
  /\ UNCHANGED <<client, orders, replies, late>>

\* The reply is NULL, of which s_reply_display shows nothing.
NoReply(c) ==
  /\ replies[c] = <<>>
  /\ TimesOut(Served([client |-> c, step |-> client[c].step]))
  /\ Display(c)
  /\ late' = late \cup {c}
  /\ UNCHANGED replies

ClientRuns(c) ==
  /\ \/ (SendOrder(c) \/ TakeReply(c)) /\ UNCHANGED faults
     \/ NoReply(c)
  /\ UNCHANGED <<docs, engine, answers, store, jobs, starts, outcome>>

-----------------------------------------------------------------------------
(* mm_worker *)

Idle == [at |-> "idle", call |-> NoCall, behind |-> FALSE]

\* s_mm_handle_request up to the nested call, which goes to some mongodb_worker.
TakeOrder(e) ==
  /\ engine[e].at = "idle" /\ orders[e] # <<>>
  /\ engine' = [engine EXCEPT ![e].at = "calling", ![e].call = Head(orders[e])]
  /\ orders' = Read(orders, e)
  /\ \E s \in Stores : jobs' = Sent(jobs, s, [from |-> e, call |-> Head(orders[e])])
  /\ UNCHANGED <<answers, replies, store, late>>

\* The report goes back to the client, and the worker asks for the next request.
Report(e, frames, behind) ==
  /\ LET k == engine[e].call IN
       replies' = Sent(replies, k.client, [call |-> k, frames |-> frames])
  /\ engine' = [engine EXCEPT ![e] = [Idle EXCEPT !.behind = behind]]
  /\ UNCHANGED <<orders, store, jobs>>

\* The process ends, and its two sockets with it.
Abort(e) ==
  LET gone(job) == [job EXCEPT !.from = IF @ = e THEN Nobody ELSE @] IN
  /\ engine' = [engine EXCEPT ![e] = [Idle EXCEPT !.at = "down"]]
  /\ orders' = [orders EXCEPT ![e] = <<>>]
  /\ answers' = [answers EXCEPT ![e] = <<>>]
  /\ jobs' = [s \in Stores |-> [i \in DOMAIN jobs[s] |-> gone(jobs[s][i])]]
  /\ store' = [s \in Stores |-> [store[s] EXCEPT !.job = gone(@)]]
  /\ UNCHANGED <<replies, late>>

\* Mutant: the status is not compared with "200".
ReportOf_AnyFrame(op, frames) ==
  IF op = "POSelect" THEN frames ELSE <<Done[op]>>

\* The frames of the report: a list of documents is passed on, of the other
\* answers only the first frame is looked at.
ReportOf(op, frames) ==
  IF op = "POSelect" THEN frames
  ELSE IF frames[1] = "200" THEN <<Done[op]>> ELSE <<Failed[op]>>

\* Whatever the session reads next is the answer.
TakeAnswer(e) ==
  /\ engine[e].at = "calling" /\ answers[e] # <<>>
  /\ Head(answers[e]).frames # <<>>
  /\ Report(e, ReportOf(Op(engine[e].call), Head(answers[e]).frames), engine[e].behind)
  /\ answers' = Read(answers, e)
  /\ UNCHANGED late

\* mdp_client_recv asserts that a report has a frame after the service name.
AnswerTooShort(e) ==
  /\ engine[e].at = "calling" /\ answers[e] # <<>>
  /\ Head(answers[e]).frames = <<>>
  /\ Abort(e)

Answered(e) ==
  \E s \in Stores : \E job \in {store[s].job} \cup Range(jobs[s]) : job.from = e

NothingCame(e) ==
  /\ engine[e].at = "calling" /\ answers[e] = <<>>
  /\ TimesOut(Answered(e))

\* Mutant: the worker goes on waiting for the answer.
NothingSelected_Wait(e) ==
  LET k == engine[e].call IN
  /\ replies' = Sent(replies, k.client, [call |-> k, frames |-> <<"Nothing selected">>])
  /\ late' = late \cup {e}
  /\ UNCHANGED <<engine, orders, store, jobs, answers>>

NothingSelected(e) ==
  /\ Report(e, <<"Nothing selected">>, TRUE)
  /\ late' = late \cup {e}
  /\ UNCHANGED answers

\* Mutants: an operation that times out is reported as one that failed; it is
\* waited for without end.
NoAnswer_Failed(e) ==
  LET op == Op(engine[e].call) IN
  /\ NothingCame(e)
  /\ IF op = "POSelect" THEN NothingSelected(e)
     ELSE Report(e, <<Failed[op]>>, engine[e].behind) /\ UNCHANGED <<answers, late>>
NoAnswer_Wait(e) == NothingCame(e) /\ Op(engine[e].call) = "POSelect" /\ NothingSelected(e)

\* The answer is NULL: POSelect reports that, and zmsg_popstr aborts the others.
NoAnswer(e) ==
  /\ NothingCame(e)
  /\ IF Op(engine[e].call) = "POSelect" THEN NothingSelected(e) ELSE Abort(e)

\* The worker is started, with new sockets.  Meanwhile the broker may have sent
\* requests to the old one, until that expired.
Remain(q) == {SubSeq(q, n, Len(q)) : n \in 1..Len(q) + 1}

StartEngine(e) ==
  /\ engine[e].at = "down"
  /\ starts < MaxStarts /\ starts' = starts + 1
  /\ engine' = [engine EXCEPT ![e] = Idle]
  /\ \E q \in Remain(orders[e]) : orders' = [orders EXCEPT ![e] = q]
  /\ UNCHANGED <<docs, client, replies, answers, store, jobs, faults, outcome, late>>

EngineRuns(e) ==
  /\ \/ (TakeOrder(e) \/ TakeAnswer(e) \/ AnswerTooShort(e)) /\ UNCHANGED faults
     \/ NoAnswer(e)
  /\ UNCHANGED <<docs, client, starts, outcome>>

-----------------------------------------------------------------------------
(* mongodb_worker, and the collection *)

NoJob == [from |-> Nobody, call |-> NoCall]

\* insert_one, find, update_one and delete_one with their query for a cpu: what
\* they leave in the collection, and the frames of the report.  The driver calls
\* an update or a delete that finds nothing a success.
Create(d)   == [docs |-> [d EXCEPT !["cpu"] = @ + 1], frames |-> <<"200">>]
Retrieve_First(d) ==  \* mutant: an if in place of the loop
  [docs |-> d, frames |-> IF d["cpu"] = 0 THEN <<>> ELSE <<"cpu">>]
Retrieve(d) == [docs |-> d, frames |-> [i \in 1..d["cpu"] |-> "cpu"]]
Update(d)   == [docs |-> IF d["cpu"] = 0 THEN d
                         ELSE [cpu |-> d["cpu"] - 1, memory |-> d["memory"] + 1],
                frames |-> <<"200">>]
Delete_Always(d) ==  \* mutant: a document is taken away, found or not
  [docs |-> [d EXCEPT !["cpu"] = @ - 1], frames |-> <<"200">>]
Delete(d)   == [docs |-> IF d["cpu"] = 0 THEN d ELSE [d EXCEPT !["cpu"] = @ - 1],
                frames |-> <<"200">>]

Crud(op, d) ==
  CASE op = "POSave"   -> Create(d)
    [] op = "POSelect" -> Retrieve(d)
    [] op = "POUpdate" -> Update(d)
    [] op = "PODelete" -> Delete(d)

\* What the worker reports of an operation that fails.  The loop of a find ends when
\* its cursor does, and does not ask why: what it has got by then is the report.
FailedReports(op, frames) ==
  IF op = "POSelect" THEN {SubSeq(frames, 1, n) : n \in 0..Len(frames)} ELSE {<<"error">>}

\* The operation on the collection succeeds, or fails without or after its effect.
Execute(s) ==
  /\ store[s].at = "idle" /\ jobs[s] # <<>>
  /\ LET job   == Head(jobs[s])
         op    == Op(job.call)
         after == Crud(op, docs)
         Ends(d, frames, how) ==
           /\ docs' = d
           /\ store' = [store EXCEPT ![s] = [at |-> "answering", job |-> job,
                                             frames |-> frames]]
           /\ outcome' = [outcome EXCEPT ![job.call] = [how |-> how, there |-> docs["cpu"]]]
     IN  \/ Ends(after.docs, after.frames, "done") /\ UNCHANGED faults
         \/ /\ faults < MaxFaults /\ faults' = faults + 1
            /\ \E d \in {docs, after.docs}, r \in FailedReports(op, after.frames) :
                 Ends(d, r, "error")
  /\ jobs' = Read(jobs, s)
  /\ UNCHANGED answers

\* mdp_worker_send; a report to a session that is closed is dropped.
SendAnswer(s) ==
  /\ store[s].at = "answering"
  /\ LET job == store[s].job IN
       answers' = IF job.from = Nobody THEN answers
                  ELSE Sent(answers, job.from, [call   |-> job.call,
                                                frames |-> store[s].frames])
  /\ store' = [store EXCEPT ![s] = [at |-> "idle", job |-> NoJob, frames |-> <<>>]]
  /\ UNCHANGED <<docs, jobs, faults, outcome>>

StoreRuns(s) ==
  /\ Execute(s) \/ SendAnswer(s)
  /\ UNCHANGED <<client, replies, engine, orders, starts, late>>

-----------------------------------------------------------------------------
(* Crashes, and the whole *)

\* A process is killed, or ends with an interrupt, after which it closes its sockets
\* itself.
CrashEngine(e) ==
  /\ engine[e].at # "down"
  /\ Abort(e)
  /\ UNCHANGED <<docs, client, outcome>>

\* A mongodb_worker has nothing to lose but its requests, and is started again.
CrashStore(s) ==
  /\ store[s].at = "answering" \/ jobs[s] # <<>>
  /\ store' = [store EXCEPT ![s] = [at |-> "idle", job |-> NoJob, frames |-> <<>>]]
  /\ \E q \in Remain(jobs[s]) : jobs' = [jobs EXCEPT ![s] = q]
  /\ UNCHANGED <<docs, client, replies, engine, orders, answers, outcome, late>>

Crash ==
  /\ faults < MaxFaults /\ faults' = faults + 1
  /\ (\E e \in Engines : CrashEngine(e)) \/ (\E s \in Stores : CrashStore(s))
  /\ UNCHANGED starts

Init ==
  /\ docs = [cpu |-> Leftover, memory |-> 0]
  /\ client = [c \in Clients |-> [at |-> "ready", step |-> 1]]
  /\ replies = [c \in Clients |-> <<>>]
  /\ engine = [e \in Engines |-> Idle]
  /\ orders = [e \in Engines |-> <<>>]
  /\ answers = [e \in Engines |-> <<>>]
  /\ store = [s \in Stores |-> [at |-> "idle", job |-> NoJob, frames |-> <<>>]]
  /\ jobs = [s \in Stores |-> <<>>]
  /\ faults = 0 /\ starts = 0
  /\ outcome = [k \in Call |-> [how |-> "none", there |-> 0]]
  /\ late = {}

Next ==
  \/ \E c \in Clients : ClientRuns(c)
  \/ \E e \in Engines : EngineRuns(e)
  \/ \E s \in Stores : StoreRuns(s)
  \/ Crash
  \/ \E e \in Engines : StartEngine(e)

Spec == Init /\ [][Next]_vars

\* A client that waits for a reply and an engine that waits for an answer go on
\* after the timeout at the latest, and the driver has timeouts of its own.  Nobody
\* need start what has ended.
LiveSpec ==
  /\ Spec
  /\ \A c \in Clients : WF_vars(ClientRuns(c))
  /\ \A e \in Engines : WF_vars(EngineRuns(e))
  /\ \A s \in Stores : WF_vars(StoreRuns(s))

-----------------------------------------------------------------------------
(* Properties *)

\* Every variable has its type.
TypeOK ==
  /\ docs \in [{"cpu", "memory"} -> Nat]
  /\ client \in [Clients -> [at : {"ready", "waiting"}, step : 1..Len(Script) + 1]]
  /\ replies \in [Clients -> Seq(Reply)]
  /\ engine \in [Engines -> [at : {"idle", "calling", "down"}, call : Call \cup {NoCall},
                             behind : BOOLEAN]]
  /\ orders \in [Engines -> Seq(Call)]
  /\ answers \in [Engines -> Seq(Answer)]
  /\ store \in [Stores -> [at : {"idle", "answering"}, job : Job \cup {NoJob},
                           frames : Seq({"200", "error", "cpu"})]]
  /\ jobs \in [Stores -> Seq(Job)]
  /\ faults \in 0..MaxFaults /\ starts \in 0..MaxStarts
  /\ outcome \in [Call -> [how : {"none", "done", "error"}, there : Nat]]
  /\ late \subseteq Clients \cup Engines

\* What an engine has asked for and not read: on its way, in work, or answered.
Outstanding(e) ==
  {m.call : m \in {x \in UNION {Range(jobs[s]) \cup {store[s].job} : s \in Stores} :
                    x.from = e}}
  \cup {m.call : m \in Range(answers[e])}

\* "reply from the mongodb worker": the nested call of an mm_worker returns the
\* answer to that call.  Only a POSelect that timed out leaves an answer behind for
\* a later call, until the worker is started again: the other operations end the
\* process when they time out, and the new one has a new session.
InStep(e) ==
  Outstanding(e) \subseteq (IF engine[e].at = "calling" THEN {engine[e].call} ELSE {})

AnswersInStep == \A e \in Engines : engine[e].behind \/ InStep(e)

\* So is the reply that an mm_client displays, if it has waited for every one.
RepliesInStep ==
  \A c \in Clients \ late : \A m \in Range(replies[c]) :
    client[c].at = "waiting" /\ m.call = [client |-> c, step |-> client[c].step]

\* The report that an mm_worker makes of the call it has in hand, when it does.
Reports(e) == engine[e].at = "calling" /\ engine'[e].at = "idle"
NewReport(e) == LET q == replies'[engine[e].call.client] IN q[Len(q)].frames

\* The report of an mm_worker that is in step is about its own call, whoever else
\* has timed out or crashed meanwhile.  A list names no more documents than there
\* were when the find was executed, and all of them unless it failed on the way.
\* "One document ..." says that the driver called the operation a success, which it
\* does of an update or a delete that finds nothing too; "... failed" says that it
\* returned an error, and leaves open whether the operation had an effect.
ReportsAreTrue ==
  [][\A e \in Engines : Reports(e) /\ ~engine'[e].behind =>
       LET k == engine[e].call
           r == NewReport(e)
       IN  /\ outcome[k].how # "none"
           /\ IF Op(k) = "POSelect"
              THEN /\ Len(r) <= outcome[k].there
                   /\ outcome[k].how = "done" => Len(r) = outcome[k].there
              ELSE outcome[k].how = (IF r = <<Done[Op(k)]>> THEN "done" ELSE "error")]_vars

\* The worker is to "return the results back to the client": what an mm_worker
\* reports of a document it should have created, updated or deleted is the result
\* of that call, also when its session has timed out before.
ResultsReturned ==
  [][\A e \in Engines : Reports(e) /\ Op(engine[e].call) # "POSelect" =>
       LET k == engine[e].call IN
       outcome[k].how = (IF NewReport(e) = <<Done[Op(k)]>> THEN "done" ELSE "error")]_vars

\* MongoDB gets the operations of a client in the order of its calls, through
\* whichever workers they go, unless somebody did not wait for one.
OrderIsKept ==
  [][\A k \in Call :
       outcome'[k] # outcome[k] /\ k.client \notin late /\ late \cap Engines = {} =>
         \A i \in 1..(k.step - 1) : outcome[[k EXCEPT !.step = i]].how # "none"]_vars

\* Every mm_client comes to its end, whatever becomes of the workers and the
\* database, and no mm_worker stays in a nested call.
ClientsFinish == \A c \in Clients : <>(client[c].step > Len(Script))
CallsEnd == \A e \in Engines : engine[e].at = "calling" ~> engine[e].at # "calling"

\* "assert(zmsg_size(msg) >= 5)": every report has a frame of its own, so that
\* the assertion of mdp_client_recv never ends an mm_worker.
ReportsHaveFrames == \A e \in Engines : \A m \in Range(answers[e]) : m.frames # <<>>

=============================================================================
