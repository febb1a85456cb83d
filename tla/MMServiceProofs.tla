-------------------------- MODULE MMServiceProofs ---------------------------
(***************************************************************************)
(* Proofs about MMService, for any sets of processes and any number of     *)
(* faults: an mm_worker that has not timed out reads the answer to the     *)
(* call it has just made, and so does an mm_client.  Neither an answer nor *)
(* a reply names its call; that they fit follows from each call being in   *)
(* one place at a time, whichever of the workers it goes through, and from *)
(* a crash that closes the sockets of the process with it.                 *)
(***************************************************************************)
EXTENDS MMService, SequenceTheorems, TLAPS

\* What the control of the processes says of their data.
Shape ==
  /\ \A c \in Clients : client[c].at = "waiting" => client[c].step \in DOMAIN Script
  /\ \A e \in Engines : /\ engine[e].at = "calling" => engine[e].call \in Call
                        /\ engine[e].at = "down" => ~engine[e].behind
  /\ \A s \in Stores : store[s].job \in Job \/ store[s] = [at |-> "idle", job |-> NoJob,
                                                           frames |-> <<>>]

\* The nested call of mm_worker e is asked for, in work, or answered.
AskedBy(e)  == \E s \in Stores : \E i \in DOMAIN jobs[s] : jobs[s][i].from = e
InWork(e)   == \E s \in Stores : store[s].job.from = e
Returned(e) == answers[e] # <<>>

NestedOnce(e) ==
  /\ \A s, t \in Stores : \A i \in DOMAIN jobs[s], j \in DOMAIN jobs[t] :
       jobs[s][i].from = e /\ jobs[t][j].from = e => s = t /\ i = j
  /\ \A s, t \in Stores : store[s].job.from = e /\ store[t].job.from = e => s = t
  /\ Len(answers[e]) <= 1
  /\ ~(AskedBy(e) /\ InWork(e)) /\ ~(AskedBy(e) /\ Returned(e)) /\ ~(InWork(e) /\ Returned(e))

NestedIs(e, k) ==
  /\ \A s \in Stores : \A i \in DOMAIN jobs[s] : jobs[s][i].from = e => jobs[s][i].call = k
  /\ \A s \in Stores : store[s].job.from = e => store[s].job.call = k
  /\ \A i \in DOMAIN answers[e] : answers[e][i].call = k

Nested(e) ==
  \/ engine[e].behind
  \/ engine[e].at = "calling" /\ NestedOnce(e) /\ NestedIs(e, engine[e].call)
  \/ engine[e].at # "calling" /\ ~AskedBy(e) /\ ~InWork(e) /\ ~Returned(e)

\* The call of mm_client c is ordered, in the hands of an mm_worker, or replied to.
OrderedBy(c) == \E e \in Engines : \E i \in DOMAIN orders[e] : orders[e][i].client = c
Serves(e, c) == engine[e].at = "calling" /\ engine[e].call.client = c
InHand(c)    == \E e \in Engines : Serves(e, c)
Replied(c)   == replies[c] # <<>>

OrderOnce(c) ==
  /\ \A e, f \in Engines : \A i \in DOMAIN orders[e], j \in DOMAIN orders[f] :
       orders[e][i].client = c /\ orders[f][j].client = c => e = f /\ i = j
  /\ \A e, f \in Engines : Serves(e, c) /\ Serves(f, c) => e = f
  /\ Len(replies[c]) <= 1
  /\ ~(OrderedBy(c) /\ InHand(c)) /\ ~(OrderedBy(c) /\ Replied(c)) /\ ~(InHand(c) /\ Replied(c))

OrderIs(c, k) ==
  /\ \A e \in Engines : \A i \in DOMAIN orders[e] :
       orders[e][i].client = c => orders[e][i] = k
  /\ \A e \in Engines : Serves(e, c) => engine[e].call = k
  /\ \A i \in DOMAIN replies[c] : replies[c][i].call = k

Order(c) ==
  \/ c \in late
  \/ /\ client[c].at = "waiting"
     /\ OrderOnce(c) /\ OrderIs(c, [client |-> c, step |-> client[c].step])
  \/ client[c].at # "waiting" /\ ~OrderedBy(c) /\ ~InHand(c) /\ ~Replied(c)

MMInv ==
  /\ TypeOK
  /\ Shape
  /\ \A e \in Engines : Nested(e)
  /\ \A c \in Clients : Order(c)

-----------------------------------------------------------------------------
(* Queues *)

\* A message that is sent is the last of its queue, and the others stay.
LEMMA SentProperties ==
  ASSUME NEW X, NEW S, NEW q \in [X -> Seq(S)], NEW x \in X, NEW m \in S
  PROVE  /\ Sent(q, x, m) \in [X -> Seq(S)]
         /\ Sent(q, x, m)[x] # <<>>
         /\ Len(Sent(q, x, m)[x]) = Len(q[x]) + 1
         /\ DOMAIN Sent(q, x, m)[x] = 1..(Len(q[x]) + 1)
         /\ Sent(q, x, m)[x][Len(q[x]) + 1] = m
         /\ \A i \in DOMAIN q[x] : Sent(q, x, m)[x][i] = q[x][i]
         /\ \A y \in X : y # x => Sent(q, x, m)[y] = q[y]
<1>1. q[x] \in Seq(S)
  OBVIOUS
<1>2. /\ Sent(q, x, m)[x] = Append(q[x], m)
      /\ \A y \in X : y # x => Sent(q, x, m)[y] = q[y]
  BY DEF Sent
<1>3. /\ Append(q[x], m) \in Seq(S)
      /\ Len(Append(q[x], m)) = Len(q[x]) + 1
      /\ Append(q[x], m)[Len(q[x]) + 1] = m
      /\ \A i \in 1..Len(q[x]) : Append(q[x], m)[i] = q[x][i]
  BY <1>1, AppendProperties
<1>4. DOMAIN q[x] = 1..Len(q[x]) /\ DOMAIN Append(q[x], m) = 1..(Len(q[x]) + 1)
  BY <1>1, <1>3, LenProperties
<1>5. Append(q[x], m) # <<>>
  BY <1>1, <1>3, LenProperties, EmptySeq
<1>6. Sent(q, x, m) \in [X -> Seq(S)]
  BY <1>3 DEF Sent
<1> QED
  BY <1>2, <1>3, <1>4, <1>5, <1>6

\* So every message is an old one or the new one.
LEMMA SentMember ==
  ASSUME NEW X, NEW S, NEW q \in [X -> Seq(S)], NEW x \in X, NEW m \in S
  PROVE  \A y \in X : \A i \in DOMAIN Sent(q, x, m)[y] :
           \/ i \in DOMAIN q[y] /\ Sent(q, x, m)[y][i] = q[y][i]
           \/ y = x /\ i = Len(q[x]) + 1 /\ Sent(q, x, m)[y][i] = m
<1> DEFINE r == Sent(q, x, m)
<1>1. /\ DOMAIN r[x] = 1..(Len(q[x]) + 1)
      /\ r[x][Len(q[x]) + 1] = m
      /\ \A i \in DOMAIN q[x] : r[x][i] = q[x][i]
      /\ \A y \in X : y # x => r[y] = q[y]
  BY SentProperties
<1>2. DOMAIN q[x] = 1..Len(q[x]) /\ Len(q[x]) \in Nat
  BY LenProperties
<1> HIDE DEF r
<1>3. \A y \in X : \A i \in DOMAIN r[y] :
        \/ i \in DOMAIN q[y] /\ r[y][i] = q[y][i]
        \/ y = x /\ i = Len(q[x]) + 1 /\ r[y][i] = m
  BY <1>1, <1>2
<1> QED
  BY <1>3 DEF r

\* A queue that is read loses its first message.
LEMMA ReadProperties ==
  ASSUME NEW X, NEW S, NEW q \in [X -> Seq(S)], NEW x \in X, q[x] # <<>>
  PROVE  /\ Head(q[x]) \in S
         /\ Read(q, x) \in [X -> Seq(S)]
         /\ Len(q[x]) \in Nat \ {0}
         /\ DOMAIN q[x] = 1..Len(q[x])
         /\ Head(q[x]) = q[x][1]
         /\ Len(Read(q, x)[x]) = Len(q[x]) - 1
         /\ DOMAIN Read(q, x)[x] = 1..(Len(q[x]) - 1)
         /\ \A i \in 1..(Len(q[x]) - 1) : Read(q, x)[x][i] = q[x][i + 1]
         /\ \A y \in X : y # x => Read(q, x)[y] = q[y]
<1>1. q[x] \in Seq(S)
  OBVIOUS
<1>2. /\ Head(q[x]) \in S
      /\ Tail(q[x]) \in Seq(S)
      /\ Len(Tail(q[x])) = Len(q[x]) - 1
      /\ \A i \in 1..Len(Tail(q[x])) : Tail(q[x])[i] = q[x][i + 1]
  BY <1>1, HeadTailProperties
<1>3. DOMAIN q[x] = 1..Len(q[x]) /\ DOMAIN Tail(q[x]) = 1..(Len(q[x]) - 1)
  BY <1>1, <1>2, LenProperties
<1>4. Read(q, x)[x] = Tail(q[x]) /\ \A y \in X : y # x => Read(q, x)[y] = q[y]
  BY DEF Read
<1>5. Len(q[x]) \in Nat \ {0}
  BY <1>1, EmptySeq
<1>6. Read(q, x) \in [X -> Seq(S)]
  BY <1>2 DEF Read
<1>7. Head(q[x]) = q[x][1]
  BY <1>1
<1> QED
  BY <1>2, <1>3, <1>4, <1>5, <1>6, <1>7

\* What remains of a queue are its last messages.
LEMMA RemainProperties ==
  ASSUME NEW S, NEW q \in Seq(S), NEW r \in Remain(q)
  PROVE  /\ r \in Seq(S)
         /\ \E n \in Nat : \A i \in DOMAIN r : i + n \in DOMAIN q /\ r[i] = q[i + n]
<1>1. PICK n \in 1..(Len(q) + 1) : r = SubSeq(q, n, Len(q))
  BY DEF Remain
<1>2. Len(q) \in Nat /\ DOMAIN q = 1..Len(q) /\ \A i \in 1..Len(q) : q[i] \in S
  BY LenProperties, ElementOfSeq
<1>3. \A i \in n..Len(q) : q[i] \in S
  BY <1>2
<1>4. /\ r \in Seq(S)
      /\ Len(r) = IF n <= Len(q) THEN Len(q) - n + 1 ELSE 0
      /\ \A i \in 1..(Len(q) - n + 1) : r[i] = q[n + i - 1]
  BY <1>1, <1>2, <1>3, SubSeqProperties
<1>5. DOMAIN r = 1..(Len(q) - n + 1)
  BY <1>2, <1>4, LenProperties
<1>6. \A i \in DOMAIN r : i + (n - 1) \in DOMAIN q /\ r[i] = q[i + (n - 1)]
  BY <1>2, <1>4, <1>5
<1> QED
  BY <1>4, <1>6

\* A queue without a message.
LEMMA EmptyProperties ==
  ASSUME NEW S, NEW q \in Seq(S)
  PROVE  /\ Len(q) \in Nat /\ DOMAIN q = 1..Len(q)
         /\ q = <<>> <=> Len(q) = 0
         /\ \A i \in DOMAIN q : q[i] \in S
BY LenProperties, EmptySeq, ElementOfSeq

-----------------------------------------------------------------------------
(* Types *)

\* The queues of all sockets, one by one.
LEMMA Queues ==
  ASSUME TypeOK
  PROVE  /\ \A c \in Clients :
              replies[c] \in Seq(Reply) /\ \A i \in DOMAIN replies[c] : replies[c][i] \in Reply
         /\ \A e \in Engines :
              orders[e] \in Seq(Call) /\ \A i \in DOMAIN orders[e] : orders[e][i] \in Call
         /\ \A e \in Engines :
              answers[e] \in Seq(Answer) /\ \A i \in DOMAIN answers[e] : answers[e][i] \in Answer
         /\ \A s \in Stores :
              jobs[s] \in Seq(Job) /\ \A i \in DOMAIN jobs[s] : jobs[s][i] \in Job
<1>1. \A S : \A q \in Seq(S) : \A i \in DOMAIN q : q[i] \in S
  BY EmptyProperties
<1> QED
  BY <1>1 DEF TypeOK

\* The frames of a report are those of a Reply.
LEMMA ReportType ==
  ASSUME NEW k \in Call, NEW frames \in Seq({"200", "error", "cpu"}), frames # <<>>
  PROVE  /\ [call |-> k, frames |-> ReportOf(Op(k), frames)] \in Reply
         /\ [call |-> k, frames |-> <<"Nothing selected">>] \in Reply
<1> DEFINE Texts == {"200", "error", "cpu", "Nothing selected"}
                    \cup {Done[o] : o \in DOMAIN Done} \cup {Failed[o] : o \in DOMAIN Failed}
<1>1. Op(k) \in {"POSave", "POSelect", "POUpdate", "PODelete"}
  BY DEF Call, Op, Script
<1>2. DOMAIN Done = {"POSave", "POUpdate", "PODelete"} /\ DOMAIN Failed = DOMAIN Done
  BY DEF Done, Failed
<1>3. \A m \in Texts : <<m>> \in Seq(Texts)
  <2>1. \A T : \A m \in T : <<m>> \in Seq(T)
    OBVIOUS
  <2> HIDE DEF Texts
  <2> QED
    BY <2>1
<1>4. frames \in Seq(Texts)
  BY SeqMonotonic
<1>5. CASE Op(k) = "POSelect"
  BY <1>3, <1>4, <1>5 DEF ReportOf, Reply, Message
<1>6. CASE Op(k) # "POSelect"
  <2>1. Done[Op(k)] \in Texts /\ Failed[Op(k)] \in Texts
    BY <1>1, <1>2, <1>6
  <2>2. ReportOf(Op(k), frames) \in Seq(Texts)
    BY <1>3, <1>6, <2>1 DEF ReportOf
  <2> QED
    BY <1>3, <2>2 DEF Reply, Message
<1> QED
  BY <1>5, <1>6

\* The script of an mm_client has four calls.
LEMMA ScriptProperties == Len(Script) = 4 /\ DOMAIN Script = 1..4
BY DEF Script

\* A timeout counts as a fault or does not.
LEMMA TimesOutType ==
  ASSUME TypeOK, NEW coming, TimesOut(coming)
  PROVE  faults' \in 0..MaxFaults
BY ServiceAssumption DEF TypeOK, TimesOut

\* Steps of an mm_client.
LEMMA ClientTypes ==
  ASSUME TypeOK, Shape, NEW c \in Clients, ClientRuns(c)
  PROVE  TypeOK' /\ Shape'
<1>1. UNCHANGED <<docs, engine, answers, store, jobs, starts, outcome>>
  BY DEF ClientRuns
<1>2. client[c].step \in 1..5 /\ client[c].at \in {"ready", "waiting"}
  BY ScriptProperties DEF TypeOK
<1>3. CASE SendOrder(c) /\ UNCHANGED faults
  <2>1. [client |-> c, step |-> client[c].step] \in Call
    BY <1>3 DEF SendOrder, Call
  <2>2. PICK e \in Engines :
          orders' = Sent(orders, e, [client |-> c, step |-> client[c].step])
    BY <1>3 DEF SendOrder
  <2>3. orders' \in [Engines -> Seq(Call)]
    <3>1. orders \in [Engines -> Seq(Call)]
      BY DEF TypeOK
    <3> QED
      BY <2>1, <2>2, <3>1, SentProperties
  <2>4. client' \in [Clients -> [at : {"ready", "waiting"}, step : 1..Len(Script) + 1]]
    BY <1>2, <1>3, ScriptProperties DEF SendOrder, TypeOK
  <2>5. Shape'
    BY <1>1, <1>3 DEF SendOrder, Shape, TypeOK
  <2> QED
    BY <1>1, <1>3, <2>3, <2>4, <2>5 DEF SendOrder, TypeOK
<1>4. CASE Display(c) /\ replies' \in [Clients -> Seq(Reply)] /\ faults' \in 0..MaxFaults
           /\ late' \in {late, late \cup {c}}
  <2>1. client[c].step \in 1..4
    BY <1>4, ScriptProperties DEF Display, Shape
  <2>2. client' \in [Clients -> [at : {"ready", "waiting"}, step : 1..Len(Script) + 1]]
    BY <1>2, <1>4, <2>1, ScriptProperties DEF Display, TypeOK
  <2>3. Shape'
    BY <1>1, <1>4 DEF Display, Shape, TypeOK
  <2> QED
    BY <1>1, <1>4, <2>2, <2>3 DEF Display, TypeOK
<1>5. CASE TakeReply(c) /\ UNCHANGED faults
  <2>1. replies' \in [Clients -> Seq(Reply)]
    BY <1>5, ReadProperties DEF TakeReply, TypeOK
  <2> QED
    BY <1>4, <1>5, <2>1 DEF TakeReply, TypeOK
<1>6. CASE NoReply(c)
  BY <1>4, <1>6, TimesOutType DEF NoReply, TypeOK
<1> QED
  BY <1>3, <1>5, <1>6 DEF ClientRuns

\* What the end of an mm_worker leaves: its jobs, which nobody waits for.
LEMMA AbortProperties ==
  ASSUME TypeOK, Shape, NEW e \in Engines, Abort(e)
  PROVE  /\ jobs' \in [Stores -> Seq(Job)]
         /\ \A s \in Stores :
              /\ DOMAIN jobs'[s] = DOMAIN jobs[s]
              /\ \A i \in DOMAIN jobs[s] :
                   /\ jobs'[s][i].call = jobs[s][i].call
                   /\ jobs'[s][i].from =
                        IF jobs[s][i].from = e THEN Nobody ELSE jobs[s][i].from
         /\ store' \in [Stores -> [at : {"idle", "answering"}, job : Job \cup {NoJob},
                                   frames : Seq({"200", "error", "cpu"})]]
         /\ \A s \in Stores :
              /\ store'[s].job.call = store[s].job.call
              /\ store'[s].job.from =
                   IF store[s].job.from = e THEN Nobody ELSE store[s].job.from
              /\ store[s].job \in Job => store'[s].job \in Job
              /\ store[s].job \notin Job => store'[s] = store[s]
<1> DEFINE gone(job) == [job EXCEPT !.from = IF @ = e THEN Nobody ELSE @]
<1>1. /\ jobs' = [s \in Stores |-> [i \in DOMAIN jobs[s] |-> gone(jobs[s][i])]]
      /\ store' = [s \in Stores |-> [store[s] EXCEPT !.job = gone(@)]]
  BY DEF Abort
<1>2. \A job \in Job : /\ gone(job) \in Job /\ gone(job).call = job.call
                       /\ gone(job).from = IF job.from = e THEN Nobody ELSE job.from
  BY DEF Job
<1>3. gone(NoJob) = NoJob /\ NoJob.from = Nobody /\ NoJob.from # e
  BY ServiceAssumption DEF NoJob
<1>4. \A s \in Stores : jobs[s] \in Seq(Job) /\ \A i \in DOMAIN jobs[s] : jobs[s][i] \in Job
  BY Queues
<1>5. ASSUME NEW s \in Stores
      PROVE  /\ DOMAIN jobs'[s] = DOMAIN jobs[s]
             /\ \A i \in DOMAIN jobs[s] : jobs'[s][i] = gone(jobs[s][i])
             /\ jobs'[s] \in Seq(Job)
  <2>1. jobs'[s] = [i \in DOMAIN jobs[s] |-> gone(jobs[s][i])]
    BY <1>1
  <2>2. DOMAIN jobs[s] = 1..Len(jobs[s]) /\ Len(jobs[s]) \in Nat
    BY <1>4, LenProperties
  <2>3. \A i \in DOMAIN jobs[s] : gone(jobs[s][i]) \in Job
    BY <1>2, <1>4
  <2>4. jobs'[s] \in [1..Len(jobs[s]) -> Job]
    BY <2>1, <2>2, <2>3
  <2>5. jobs'[s] \in Seq(Job)
    BY <2>2, <2>4, SeqDef
  <2> QED
    BY <2>1, <2>5
<1>6. \A s \in Stores : store'[s] = [store[s] EXCEPT !.job = gone(@)]
  BY <1>1
<1>7. \A s \in Stores :
        /\ store[s] \in [at : {"idle", "answering"}, job : Job \cup {NoJob},
                          frames : Seq({"200", "error", "cpu"})]
        /\ store[s].job \in Job \/ store[s].job = NoJob
  BY DEF TypeOK
<1> HIDE DEF gone
<1>8. ASSUME NEW s \in Stores
      PROVE  /\ store'[s] \in [at : {"idle", "answering"}, job : Job \cup {NoJob},
                                frames : Seq({"200", "error", "cpu"})]
             /\ store'[s].job = gone(store[s].job)
             /\ store[s].job = NoJob => store'[s] = store[s]
  <2>1. store[s].job \in Job \cup {NoJob} /\ gone(store[s].job) \in Job \cup {NoJob}
    BY <1>2, <1>3, <1>7
  <2>2. store'[s] = [at |-> store[s].at, job |-> gone(store[s].job), frames |-> store[s].frames]
    BY <1>6, <1>7
  <2>3. store[s] = [at |-> store[s].at, job |-> store[s].job, frames |-> store[s].frames]
    BY <1>7
  <2> QED
    BY <1>3, <1>7, <2>1, <2>2, <2>3
<1>9. store' \in [Stores -> [at : {"idle", "answering"}, job : Job \cup {NoJob},
                             frames : Seq({"200", "error", "cpu"})]]
  BY <1>1, <1>8
<1>10. jobs' \in [Stores -> Seq(Job)]
  BY <1>1, <1>5
<1> QED
  BY <1>2, <1>3, <1>4, <1>5, <1>7, <1>8, <1>9, <1>10

\* The end of an mm_worker.
LEMMA AbortTypes ==
  ASSUME TypeOK, Shape, NEW e \in Engines, Abort(e), UNCHANGED <<docs, client, starts, outcome>>,
         faults' \in 0..MaxFaults
  PROVE  TypeOK' /\ Shape'
<1>1. engine' \in [Engines -> [at : {"idle", "calling", "down"}, call : Call \cup {NoCall},
                              behind : BOOLEAN]]
  BY DEF Abort, Idle, TypeOK
<1>2. orders' \in [Engines -> Seq(Call)] /\ answers' \in [Engines -> Seq(Answer)]
  BY EmptySeq DEF Abort, TypeOK
<1>3. \A f \in Engines : /\ engine'[f].at = "calling" => engine'[f].call \in Call
                         /\ engine'[f].at = "down" => ~engine'[f].behind
  BY DEF Abort, Idle, TypeOK, Shape
<1>4. \A s \in Stores : store'[s].job \in Job \/ store'[s] = [at |-> "idle", job |-> NoJob,
                                                             frames |-> <<>>]
  BY AbortProperties DEF Shape
<1> QED
  BY <1>1, <1>2, <1>3, <1>4, AbortProperties DEF Abort, TypeOK, Shape

\* What an mm_worker that reports does to its client and to itself.
LEMMA ReportTypes ==
  ASSUME TypeOK, Shape, NEW e \in Engines, engine[e].at = "calling",
         NEW frames, NEW behind \in BOOLEAN, Report(e, frames, behind),
         [call |-> engine[e].call, frames |-> frames] \in Reply,
         answers' \in [Engines -> Seq(Answer)], late' \in {late, late \cup {e}},
         faults' \in 0..MaxFaults, UNCHANGED <<docs, client, starts, outcome>>
  PROVE  TypeOK' /\ Shape'
<1>1. engine[e].call \in Call /\ engine[e].call.client \in Clients
  BY DEF Shape, Call
<1>2. replies' \in [Clients -> Seq(Reply)]
  <2>1. replies \in [Clients -> Seq(Reply)]
    BY DEF TypeOK
  <2> DEFINE c == engine[e].call.client
             m == [call |-> engine[e].call, frames |-> frames]
  <2>2. replies' = Sent(replies, c, m) /\ m \in Reply
    BY DEF Report
  <2>3. c \in Clients
    BY <1>1
  <2> HIDE DEF c, m
  <2> QED
    BY <2>1, <2>2, <2>3, SentProperties
<1>3. engine' \in [Engines -> [at : {"idle", "calling", "down"}, call : Call \cup {NoCall},
                              behind : BOOLEAN]]
  BY DEF Report, Idle, TypeOK
<1>4. \A f \in Engines : /\ engine'[f].at = "calling" => engine'[f].call \in Call
                         /\ engine'[f].at = "down" => ~engine'[f].behind
  BY DEF Report, Idle, TypeOK, Shape
<1> QED
  BY <1>2, <1>3, <1>4 DEF Report, TypeOK, Shape

\* Steps of an mm_worker.
LEMMA EngineTypes ==
  ASSUME TypeOK, Shape, NEW e \in Engines, EngineRuns(e)
  PROVE  TypeOK' /\ Shape'
<1>1. UNCHANGED <<docs, client, starts, outcome>>
  BY DEF EngineRuns
<1>2. CASE TakeOrder(e) /\ UNCHANGED faults
  <2>1. /\ Head(orders[e]) \in Call
        /\ orders' \in [Engines -> Seq(Call)]
    BY <1>2, ReadProperties DEF TakeOrder, TypeOK
  <2>2. PICK s \in Stores : jobs' = Sent(jobs, s, [from |-> e, call |-> Head(orders[e])])
    BY <1>2 DEF TakeOrder
  <2>3. [from |-> e, call |-> Head(orders[e])] \in Job
    BY <2>1 DEF Job
  <2>4. jobs' \in [Stores -> Seq(Job)]
    <3>1. jobs \in [Stores -> Seq(Job)]
      BY DEF TypeOK
    <3> QED
      BY <2>2, <2>3, <3>1, SentProperties
  <2>5. engine' \in [Engines -> [at : {"idle", "calling", "down"}, call : Call \cup {NoCall},
                                behind : BOOLEAN]]
    <3>1. engine' = [engine EXCEPT ![e].at = "calling", ![e].call = Head(orders[e])]
      BY <1>2 DEF TakeOrder
    <3>2. engine[e] \in [at : {"idle", "calling", "down"}, call : Call \cup {NoCall},
                         behind : BOOLEAN]
      BY DEF TypeOK
    <3>3. engine'[e] \in [at : {"idle", "calling", "down"}, call : Call \cup {NoCall},
                          behind : BOOLEAN]
      BY <2>1, <3>1, <3>2 DEF TypeOK
    <3> QED
      BY <3>1, <3>3 DEF TypeOK
  <2>6. \A f \in Engines : /\ engine'[f].at = "calling" => engine'[f].call \in Call
                           /\ engine'[f].at = "down" => ~engine'[f].behind
    BY <1>2, <2>1 DEF TakeOrder, TypeOK, Shape
  <2> QED
    BY <1>1, <1>2, <2>1, <2>4, <2>5, <2>6 DEF TakeOrder, TypeOK, Shape
<1>3. CASE TakeAnswer(e) /\ UNCHANGED faults
  <2>1. /\ Head(answers[e]) \in Answer
        /\ answers' \in [Engines -> Seq(Answer)]
    BY <1>3, ReadProperties DEF TakeAnswer, TypeOK
  <2>2. [call |-> engine[e].call,
         frames |-> ReportOf(Op(engine[e].call), Head(answers[e]).frames)] \in Reply
    BY <1>3, <2>1, ReportType DEF TakeAnswer, Answer, Message, Shape
  <2>3. engine[e].behind \in BOOLEAN
    BY DEF TypeOK
  <2> QED
    BY <1>1, <1>3, <2>1, <2>2, <2>3, ReportTypes, SMTT(40) DEF TakeAnswer, TypeOK
<1>4. CASE AnswerTooShort(e) /\ UNCHANGED faults
  BY <1>1, <1>4, AbortTypes DEF AnswerTooShort, TypeOK
<1>5. CASE NoAnswer(e)
  <2>1. engine[e].at = "calling" /\ faults' \in 0..MaxFaults
    BY <1>5, TimesOutType DEF NoAnswer, NothingCame
  <2>2. [call |-> engine[e].call, frames |-> <<"Nothing selected">>] \in Reply
    <3>1. <<"200">> \in Seq({"200", "error", "cpu"}) /\ <<"200">> # <<>>
      OBVIOUS
    <3> QED
      BY <2>1, <3>1, ReportType DEF Shape
  <2>3. CASE NothingSelected(e)
    BY <1>1, <2>1, <2>2, <2>3, ReportTypes DEF NothingSelected, TypeOK
  <2>4. CASE Abort(e)
    BY <1>1, <2>1, <2>4, AbortTypes
  <2> QED
    BY <1>5, <2>3, <2>4 DEF NoAnswer
<1> QED
  BY <1>2, <1>3, <1>4, <1>5 DEF EngineRuns

\* The start of an mm_worker.
LEMMA StartTypes ==
  ASSUME TypeOK, Shape, NEW e \in Engines, StartEngine(e)
  PROVE  TypeOK' /\ Shape'
<1>1. PICK q \in Remain(orders[e]) : orders' = [orders EXCEPT ![e] = q]
  BY DEF StartEngine
<1>2. orders' \in [Engines -> Seq(Call)]
  BY <1>1, Queues, RemainProperties DEF TypeOK
<1>3. engine' \in [Engines -> [at : {"idle", "calling", "down"}, call : Call \cup {NoCall},
                              behind : BOOLEAN]]
  BY DEF StartEngine, Idle, TypeOK
<1>4. \A f \in Engines : /\ engine'[f].at = "calling" => engine'[f].call \in Call
                         /\ engine'[f].at = "down" => ~engine'[f].behind
  BY DEF StartEngine, Idle, TypeOK, Shape
<1>5. starts' \in 0..MaxStarts
  BY ServiceAssumption DEF StartEngine, TypeOK
<1> QED
  BY <1>2, <1>3, <1>4, <1>5 DEF StartEngine, TypeOK, Shape

\* What an operation leaves in the collection, and reports.
LEMMA CrudType ==
  ASSUME NEW k \in Call, NEW d \in [{"cpu", "memory"} -> Nat]
  PROVE  /\ Crud(Op(k), d).docs \in [{"cpu", "memory"} -> Nat]
         /\ Crud(Op(k), d).frames \in Seq({"200", "error", "cpu"})
<1>1. Op(k) \in {"POSave", "POSelect", "POUpdate", "PODelete"}
  BY DEF Call, Op, Script
<1>2. <<"200">> \in Seq({"200", "error", "cpu"})
  OBVIOUS
<1>3. d["cpu"] \in Nat /\ d["memory"] \in Nat
  OBVIOUS
<1>4. CASE Op(k) = "POSave"
  <2>1. [d EXCEPT !["cpu"] = @ + 1] \in [{"cpu", "memory"} -> Nat]
    BY <1>3
  <2>2. Crud(Op(k), d) = Create(d)
    BY <1>4 DEF Crud
  <2> QED
    BY <1>2, <2>1, <2>2 DEF Create
<1>5. CASE Op(k) = "POSelect"
  <2>1. [i \in 1..d["cpu"] |-> "cpu"] \in [1..d["cpu"] -> {"200", "error", "cpu"}]
    OBVIOUS
  <2>2. [i \in 1..d["cpu"] |-> "cpu"] \in Seq({"200", "error", "cpu"})
    BY <1>3, <2>1, SeqDef
  <2> QED
    BY <1>5, <2>2 DEF Crud, Retrieve
<1>6. CASE Op(k) = "POUpdate"
  <2>1. d["cpu"] # 0 => [cpu |-> d["cpu"] - 1, memory |-> d["memory"] + 1]
                          \in [{"cpu", "memory"} -> Nat]
    BY <1>3
  <2> QED
    BY <1>2, <1>6, <2>1 DEF Crud, Update
<1>7. CASE Op(k) = "PODelete"
  <2>1. d["cpu"] # 0 => [d EXCEPT !["cpu"] = @ - 1] \in [{"cpu", "memory"} -> Nat]
    BY <1>3
  <2>2. Crud(Op(k), d) = Delete(d)
    BY <1>7 DEF Crud
  <2> QED
    BY <1>2, <2>1, <2>2 DEF Delete
<1> QED
  BY <1>1, <1>4, <1>5, <1>6, <1>7

\* What is reported of an operation that failed is a sequence of frames.
LEMMA FailedReportsType ==
  ASSUME NEW op, NEW T, NEW frames \in Seq(T), "error" \in T, NEW r \in FailedReports(op, frames)
  PROVE  r \in Seq(T)
<1>1. CASE op = "POSelect"
  <2>1. PICK n \in 0..Len(frames) : r = SubSeq(frames, 1, n)
    BY <1>1 DEF FailedReports
  <2> QED
    BY <2>1
<1>2. CASE op # "POSelect"
  <2>1. r = <<"error">>
    BY <1>2 DEF FailedReports
  <2> QED
    BY <2>1
<1> QED
  BY <1>1, <1>2

\* What Execute does to the queues and to the mongodb_worker.
LEMMA ExecuteProperties ==
  ASSUME TypeOK, Shape, NEW s \in Stores, Execute(s)
  PROVE  /\ jobs[s] # <<>> /\ Head(jobs[s]) \in Job
         /\ jobs' = Read(jobs, s) /\ answers' = answers
         /\ \E frames \in Seq({"200", "error", "cpu"}) :
              store' = [store EXCEPT ![s] = [at |-> "answering", job |-> Head(jobs[s]),
                                             frames |-> frames]]
         /\ docs' \in [{"cpu", "memory"} -> Nat]
         /\ faults' \in 0..MaxFaults
         /\ outcome' \in [Call -> [how : {"none", "done", "error"}, there : Nat]]
<1> DEFINE job   == Head(jobs[s])
           op    == Op(job.call)
           after == Crud(op, docs)
           parts == FailedReports(op, after.frames)
           Ends(d, frames, how) ==
             /\ docs' = d
             /\ store' = [store EXCEPT ![s] = [at |-> "answering", job |-> job,
                                               frames |-> frames]]
             /\ outcome' = [outcome EXCEPT ![job.call] = [how |-> how, there |-> docs["cpu"]]]
<1>1. jobs[s] # <<>> /\ job \in Job /\ jobs' = Read(jobs, s) /\ answers' = answers
  BY ReadProperties DEF Execute, TypeOK
<1>2. /\ after.docs \in [{"cpu", "memory"} -> Nat] /\ docs \in [{"cpu", "memory"} -> Nat]
      /\ after.frames \in Seq({"200", "error", "cpu"})
  BY <1>1, CrudType DEF Job, TypeOK
<1>3. \A r \in parts : r \in Seq({"200", "error", "cpu"})
  BY <1>2, FailedReportsType
<1>4. \/ Ends(after.docs, after.frames, "done") /\ UNCHANGED faults
      \/ /\ faults < MaxFaults /\ faults' = faults + 1
         /\ \E d \in {docs, after.docs}, r \in parts : Ends(d, r, "error")
  BY DEF Execute
<1>5. PICK d \in [{"cpu", "memory"} -> Nat], frames \in Seq({"200", "error", "cpu"}),
           how \in {"done", "error"} : Ends(d, frames, how)
  <2> HIDE DEF Ends, after, parts
  <2> QED
    BY <1>2, <1>3, <1>4
<1>6. faults' \in 0..MaxFaults
  BY <1>4, ServiceAssumption DEF TypeOK
<1>7. outcome' \in [Call -> [how : {"none", "done", "error"}, there : Nat]]
  <2>1. docs["cpu"] \in Nat
    BY DEF TypeOK
  <2>2. [how |-> how, there |-> docs["cpu"]] \in [how : {"none", "done", "error"}, there : Nat]
    BY <1>5, <2>1
  <2> QED
    BY <1>5, <2>2 DEF TypeOK
<1> QED
  BY <1>1, <1>5, <1>6, <1>7

\* Steps of a mongodb_worker.
LEMMA StoreTypes ==
  ASSUME TypeOK, Shape, NEW s \in Stores, StoreRuns(s)
  PROVE  TypeOK' /\ Shape'
<1>1. UNCHANGED <<client, replies, engine, orders, starts, late>>
  BY DEF StoreRuns
<1>2. CASE Execute(s)
  <2>1. /\ jobs[s] # <<>> /\ Head(jobs[s]) \in Job
        /\ jobs' = Read(jobs, s) /\ answers' = answers
        /\ docs' \in [{"cpu", "memory"} -> Nat]
        /\ faults' \in 0..MaxFaults
        /\ outcome' \in [Call -> [how : {"none", "done", "error"}, there : Nat]]
    BY <1>2, ExecuteProperties
  <2>2. PICK frames \in Seq({"200", "error", "cpu"}) :
          store' = [store EXCEPT ![s] = [at |-> "answering", job |-> Head(jobs[s]),
                                         frames |-> frames]]
    BY <1>2, ExecuteProperties
  <2>3. jobs' \in [Stores -> Seq(Job)]
    <3>1. jobs \in [Stores -> Seq(Job)]
      BY DEF TypeOK
    <3> QED
      BY <2>1, <3>1, ReadProperties
  <2>4. store' \in [Stores -> [at : {"idle", "answering"}, job : Job \cup {NoJob},
                              frames : Seq({"200", "error", "cpu"})]]
    BY <2>1, <2>2 DEF TypeOK
  <2>5. Shape'
    BY <1>1, <2>1, <2>2 DEF Shape, TypeOK
  <2> QED
    BY <1>1, <2>1, <2>3, <2>4, <2>5 DEF TypeOK
<1>3. CASE SendAnswer(s)
  <2>1. store[s].job \in Job /\ store[s].frames \in Seq({"200", "error", "cpu"})
    BY <1>3 DEF SendAnswer, Shape, TypeOK
  <2>2. [call |-> store[s].job.call, frames |-> store[s].frames] \in Answer
    BY <2>1 DEF Answer, Message, Job
  <2>3. answers' \in [Engines -> Seq(Answer)]
    <3>1. answers \in [Engines -> Seq(Answer)]
      BY DEF TypeOK
    <3>2. store[s].job.from \in Engines \cup {Nobody}
      BY <2>1 DEF Job
    <3> DEFINE m == [call |-> store[s].job.call, frames |-> store[s].frames]
    <3>3. answers' = IF store[s].job.from = Nobody THEN answers
                     ELSE Sent(answers, store[s].job.from, m)
      BY <1>3 DEF SendAnswer
    <3>4. m \in Answer
      BY <2>2
    <3> HIDE DEF m
    <3> QED
      BY <3>1, <3>2, <3>3, <3>4, SentProperties
  <2>4. <<>> \in Seq({"200", "error", "cpu"})
    OBVIOUS
  <2>5. store' \in [Stores -> [at : {"idle", "answering"}, job : Job \cup {NoJob},
                              frames : Seq({"200", "error", "cpu"})]]
    BY <1>3, <2>4 DEF SendAnswer, TypeOK
  <2>6. Shape'
    BY <1>1, <1>3 DEF SendAnswer, Shape, TypeOK
  <2> QED
    BY <1>1, <1>3, <2>3, <2>5, <2>6 DEF SendAnswer, TypeOK
<1> QED
  BY <1>2, <1>3 DEF StoreRuns

\* Crashes.
LEMMA CrashTypes ==
  ASSUME TypeOK, Shape, Crash
  PROVE  TypeOK' /\ Shape'
<1>1. faults' \in 0..MaxFaults /\ UNCHANGED starts
  BY ServiceAssumption DEF Crash, TypeOK
<1>2. CASE \E e \in Engines : CrashEngine(e)
  BY <1>1, <1>2, AbortTypes DEF CrashEngine
<1>3. CASE \E s \in Stores : CrashStore(s)
  <2>1. PICK s \in Stores : CrashStore(s)
    BY <1>3
  <2>2. PICK q \in Remain(jobs[s]) : jobs' = [jobs EXCEPT ![s] = q]
    BY <2>1 DEF CrashStore
  <2>3. jobs' \in [Stores -> Seq(Job)]
    BY <2>2, Queues, RemainProperties DEF TypeOK
  <2>4. <<>> \in Seq({"200", "error", "cpu"})
    OBVIOUS
  <2>5. store' \in [Stores -> [at : {"idle", "answering"}, job : Job \cup {NoJob},
                              frames : Seq({"200", "error", "cpu"})]]
    BY <2>1, <2>4 DEF CrashStore, TypeOK
  <2>6. Shape'
    BY <2>1 DEF CrashStore, Shape, TypeOK
  <2> QED
    BY <1>1, <2>1, <2>3, <2>5, <2>6 DEF CrashStore, TypeOK
<1> QED
  BY <1>2, <1>3 DEF Crash

-----------------------------------------------------------------------------
(* The nested call of an mm_worker *)

\* A step that adds nothing to the nested call of e keeps it in one place: jobs may
\* move to the front of their queue, or get lost.
LEMMA NestedFewer ==
  ASSUME TypeOK, TypeOK', NEW e \in Engines, Nested(e), engine'[e] = engine[e],
         answers'[e] = answers[e], NEW n \in [Stores -> Nat],
         \A s \in Stores : \A i \in DOMAIN jobs'[s] :
           jobs'[s][i].from = e => /\ i + n[s] \in DOMAIN jobs[s]
                                   /\ jobs[s][i + n[s]].from = e
                                   /\ jobs'[s][i].call = jobs[s][i + n[s]].call,
         \A s \in Stores :
           store'[s].job.from = e => /\ store[s].job.from = e
                                     /\ store'[s].job.call = store[s].job.call
  PROVE  Nested(e)'
<1>1. \A s \in Stores : DOMAIN jobs'[s] \subseteq Nat
  <2>1. \A q \in Seq(Job) : DOMAIN q \subseteq Nat
    BY EmptyProperties
  <2> QED
    BY <2>1 DEF TypeOK
<1>2. (AskedBy(e)' => AskedBy(e)) /\ (InWork(e)' => InWork(e)) /\ Returned(e)' = Returned(e)
  BY DEF AskedBy, InWork, Returned
<1>3. ASSUME NestedOnce(e) PROVE NestedOnce(e)'
  <2>1. ASSUME NEW s \in Stores, NEW t \in Stores, NEW i \in DOMAIN jobs'[s],
               NEW j \in DOMAIN jobs'[t], jobs'[s][i].from = e, jobs'[t][j].from = e
        PROVE  s = t /\ i = j
    <3>1. s = t /\ i + n[s] = j + n[t]
      BY <1>3, <2>1 DEF NestedOnce
    <3> QED
      BY <1>1, <3>1
  <2> QED
    BY <1>2, <1>3, <2>1 DEF NestedOnce
<1>4. ASSUME NestedIs(e, engine[e].call) PROVE NestedIs(e, engine[e].call)'
  BY <1>4 DEF NestedIs
<1> QED
  BY <1>2, <1>3, <1>4 DEF Nested

\* The same for a step that leaves the database side alone.
LEMMA NestedSame ==
  ASSUME TypeOK, TypeOK', NEW e \in Engines, Nested(e), engine'[e] = engine[e],
         UNCHANGED <<jobs, store>>, answers'[e] = answers[e]
  PROVE  Nested(e)'
BY DEF Nested, NestedOnce, NestedIs, AskedBy, InWork, Returned

\* A new nested call is in the queue of one mongodb_worker.
LEMMA NestedTakeOrder ==
  ASSUME TypeOK, Shape, TypeOK', \A f \in Engines : Nested(f), NEW e \in Engines, TakeOrder(e)
  PROVE  \A f \in Engines : Nested(f)'
<1> DEFINE k == Head(orders[e])
           job == [from |-> e, call |-> k]
<1>1. k \in Call /\ job \in Job
  BY ReadProperties DEF TakeOrder, TypeOK, Job
<1>2. PICK s \in Stores : jobs' = Sent(jobs, s, job)
  BY DEF TakeOrder
<1>3. jobs \in [Stores -> Seq(Job)]
  BY DEF TypeOK
<1>4. /\ DOMAIN jobs'[s] = 1..(Len(jobs[s]) + 1)
      /\ jobs'[s][Len(jobs[s]) + 1] = job
      /\ \A i \in DOMAIN jobs[s] : jobs'[s][i] = jobs[s][i]
      /\ \A t \in Stores : t # s => jobs'[t] = jobs[t]
  BY <1>1, <1>2, <1>3, SentProperties
<1>5. DOMAIN jobs[s] = 1..Len(jobs[s]) /\ Len(jobs[s]) \in Nat
  BY <1>3, EmptyProperties
<1>6. UNCHANGED <<answers, store>> /\ \A f \in Engines : f # e => engine'[f] = engine[f]
  BY DEF TakeOrder, TypeOK
<1>7. engine[e].at = "idle" /\ engine'[e].at = "calling" /\ engine'[e].call = k
      /\ engine'[e].behind = engine[e].behind
  BY DEF TakeOrder, TypeOK
<1>8. job.from = e /\ job.call = k
  OBVIOUS
<1> HIDE DEF k, job
<1>9. \A t \in Stores : \A i \in DOMAIN jobs'[t] :
        \/ t = s /\ i = Len(jobs[s]) + 1 /\ jobs'[t][i] = job
        \/ i \in DOMAIN jobs[t] /\ jobs'[t][i] = jobs[t][i]
  BY <1>4, <1>5
<1>10. ASSUME ~engine[e].behind
       PROVE  Nested(e)'
  <2>1. ~AskedBy(e) /\ ~InWork(e) /\ answers[e] = <<>>
    BY <1>7, <1>10 DEF Nested, Returned
  <2>2. \A t \in Stores : \A i \in DOMAIN jobs'[t] :
          jobs'[t][i].from = e => t = s /\ i = Len(jobs[s]) + 1 /\ jobs'[t][i].call = k
    BY <1>8, <1>9, <2>1 DEF AskedBy
  <2>3. \A t \in Stores : store'[t].job.from # e
    BY <1>6, <2>1 DEF InWork
  <2>4. answers'[e] = <<>> /\ Len(answers'[e]) <= 1 /\ DOMAIN answers'[e] = {}
    BY <1>6, <2>1
  <2> QED
    BY <1>7, <2>2, <2>3, <2>4 DEF Nested, NestedOnce, NestedIs, AskedBy, InWork, Returned
<1>11. ASSUME NEW f \in Engines, f # e
       PROVE  Nested(f)'
  <2> DEFINE n == [t \in Stores |-> 0]
  <2>1. \A t \in Stores : \A i \in DOMAIN jobs'[t] :
          jobs'[t][i].from = f => /\ i + n[t] \in DOMAIN jobs[t]
                                  /\ jobs[t][i + n[t]].from = f
                                  /\ jobs'[t][i].call = jobs[t][i + n[t]].call
    <3>1. \A t \in Stores : DOMAIN jobs[t] = 1..Len(jobs[t])
      BY <1>3, EmptyProperties
    <3> QED
      BY <1>8, <1>9, <1>11, <3>1
  <2> QED
    BY <1>6, <1>11, <2>1, NestedFewer
<1>12. engine[e].behind => Nested(e)'
  BY <1>7 DEF Nested
<1> QED
  BY <1>10, <1>11, <1>12

\* The answer that is read is the only one, and the call is over.
LEMMA NestedTakeAnswer ==
  ASSUME TypeOK, Shape, TypeOK', \A f \in Engines : Nested(f), NEW e \in Engines, TakeAnswer(e)
  PROVE  \A f \in Engines : Nested(f)'
<1>1. /\ UNCHANGED <<jobs, store>>
      /\ engine[e].at = "calling" /\ answers[e] # <<>> /\ answers' = Read(answers, e)
      /\ engine'[e].at = "idle" /\ engine'[e].behind = engine[e].behind
      /\ \A f \in Engines : f # e => engine'[f] = engine[f]
  BY DEF TakeAnswer, Report, Idle, TypeOK
<1>2. /\ Len(answers[e]) \in Nat \ {0} /\ Len(answers'[e]) = Len(answers[e]) - 1
      /\ \A f \in Engines : f # e => answers'[f] = answers[f]
  <2>1. answers \in [Engines -> Seq(Answer)]
    BY DEF TypeOK
  <2> QED
    BY <1>1, <2>1, ReadProperties
<1>3. ASSUME ~engine[e].behind
      PROVE  Nested(e)'
  <2>1. Len(answers[e]) <= 1 /\ ~AskedBy(e) /\ ~InWork(e)
    BY <1>1, <1>3 DEF Nested, NestedOnce, Returned
  <2>2. answers'[e] = <<>>
    <3>1. answers'[e] \in Seq(Answer)
      BY DEF TypeOK
    <3> QED
      BY <1>2, <2>1, <3>1, EmptyProperties
  <2> QED
    BY <1>1, <2>1, <2>2 DEF Nested, AskedBy, InWork, Returned
<1>4. engine[e].behind => Nested(e)'
  BY <1>1 DEF Nested
<1>5. \A f \in Engines : f # e => Nested(f)'
  BY <1>1, <1>2, NestedSame
<1> QED
  BY <1>3, <1>4, <1>5

\* An mm_worker that has timed out in a POSelect is behind.
LEMMA NestedNothingSelected ==
  ASSUME TypeOK, TypeOK', \A f \in Engines : Nested(f), NEW e \in Engines, NothingSelected(e)
  PROVE  \A f \in Engines : Nested(f)'
<1>1. /\ UNCHANGED <<jobs, store, answers>> /\ engine'[e].behind
      /\ \A f \in Engines : f # e => engine'[f] = engine[f]
  <2>1. UNCHANGED <<jobs, store, answers>>
    BY DEF NothingSelected, Report
  <2>2. engine' = [engine EXCEPT ![e] = [Idle EXCEPT !.behind = TRUE]]
    BY DEF NothingSelected, Report
  <2>3. [Idle EXCEPT !.behind = TRUE].behind
    BY DEF Idle
  <2> QED
    BY <2>1, <2>2, <2>3 DEF TypeOK
<1>2. Nested(e)'
  BY <1>1 DEF Nested
<1>3. \A f \in Engines : f # e => Nested(f)'
  BY <1>1, NestedSame
<1> QED
  BY <1>2, <1>3

\* Nobody waits for the jobs of an mm_worker that has ended.
LEMMA NestedAbort ==
  ASSUME TypeOK, Shape, TypeOK', \A f \in Engines : Nested(f), NEW e \in Engines, Abort(e)
  PROVE  \A f \in Engines : Nested(f)'
<1>1. /\ engine'[e].at = "down" /\ answers'[e] = <<>>
      /\ \A f \in Engines : f # e => engine'[f] = engine[f] /\ answers'[f] = answers[f]
  BY DEF Abort, Idle, TypeOK
<1>2. /\ \A s \in Stores :
           /\ DOMAIN jobs'[s] = DOMAIN jobs[s]
           /\ \A i \in DOMAIN jobs[s] :
                /\ jobs'[s][i].call = jobs[s][i].call
                /\ jobs'[s][i].from =
                     IF jobs[s][i].from = e THEN Nobody ELSE jobs[s][i].from
      /\ \A s \in Stores :
           /\ store'[s].job.call = store[s].job.call
           /\ store'[s].job.from =
                IF store[s].job.from = e THEN Nobody ELSE store[s].job.from
  BY AbortProperties
<1>3. \A f \in Engines : f # Nobody
  BY ServiceAssumption
<1>4. Nested(e)'
  BY <1>1, <1>2, <1>3 DEF Nested, AskedBy, InWork, Returned
<1>5. ASSUME NEW f \in Engines, f # e
      PROVE  Nested(f)'
  <2> DEFINE n == [s \in Stores |-> 0]
  <2>1. \A s \in Stores : \A i \in DOMAIN jobs'[s] :
          jobs'[s][i].from = f => /\ i + n[s] \in DOMAIN jobs[s]
                                  /\ jobs[s][i + n[s]].from = f
                                  /\ jobs'[s][i].call = jobs[s][i + n[s]].call
    <3>1. \A s \in Stores : DOMAIN jobs[s] = 1..Len(jobs[s])
      BY Queues, EmptyProperties
    <3> QED
      BY <1>2, <1>3, <1>5, <3>1
  <2>2. \A s \in Stores :
          store'[s].job.from = f => /\ store[s].job.from = f
                                    /\ store'[s].job.call = store[s].job.call
    BY <1>2, <1>3, <1>5
  <2> QED
    BY <1>1, <1>5, <2>1, <2>2, NestedFewer, ZenonT(40)
<1> QED
  BY <1>4, <1>5

\* A new mm_worker has no nested call.
LEMMA NestedStart ==
  ASSUME TypeOK, Shape, TypeOK', \A f \in Engines : Nested(f), NEW e \in Engines, StartEngine(e)
  PROVE  \A f \in Engines : Nested(f)'
<1>1. /\ UNCHANGED <<jobs, store, answers>>
      /\ engine[e].at = "down" /\ engine'[e].at = "idle"
      /\ \A f \in Engines : f # e => engine'[f] = engine[f]
  BY DEF StartEngine, Idle, TypeOK
<1>2. ~AskedBy(e) /\ ~InWork(e) /\ ~Returned(e)
  BY <1>1 DEF Nested, Shape
<1>3. Nested(e)'
  BY <1>1, <1>2 DEF Nested, AskedBy, InWork, Returned
<1>4. \A f \in Engines : f # e => Nested(f)'
  BY <1>1, NestedSame
<1> QED
  BY <1>3, <1>4

\* A job that is executed leaves the queue for the hands of its mongodb_worker.
LEMMA NestedExecute ==
  ASSUME TypeOK, Shape, TypeOK', \A f \in Engines : Nested(f), NEW s \in Stores, Execute(s),
         engine' = engine
  PROVE  \A f \in Engines : Nested(f)'
<1> DEFINE h == Head(jobs[s])
<1>1. jobs[s] # <<>> /\ h \in Job /\ jobs' = Read(jobs, s) /\ answers' = answers
  BY ExecuteProperties
<1>2. store'[s].job = h /\ \A t \in Stores : t # s => store'[t] = store[t]
  BY ExecuteProperties, SMTT(40) DEF TypeOK
<1>3. /\ Len(jobs[s]) \in Nat \ {0} /\ h = jobs[s][1] /\ DOMAIN jobs[s] = 1..Len(jobs[s])
      /\ DOMAIN jobs'[s] = 1..(Len(jobs[s]) - 1)
      /\ \A i \in 1..(Len(jobs[s]) - 1) : jobs'[s][i] = jobs[s][i + 1]
      /\ \A t \in Stores : t # s => jobs'[t] = jobs[t]
  <2>1. jobs \in [Stores -> Seq(Job)]
    BY DEF TypeOK
  <2> QED
    BY <1>1, <2>1, ReadProperties
<1>4. \A t \in Stores : DOMAIN jobs[t] = 1..Len(jobs[t])
  BY Queues, EmptyProperties
<1> HIDE DEF h
<1>5. ASSUME NEW f \in Engines, h.from # f
      PROVE  Nested(f)'
  <2> DEFINE n == [t \in Stores |-> IF t = s THEN 1 ELSE 0]
  <2>1. \A t \in Stores : \A i \in DOMAIN jobs'[t] :
          jobs'[t][i].from = f => /\ i + n[t] \in DOMAIN jobs[t]
                                  /\ jobs[t][i + n[t]].from = f
                                  /\ jobs'[t][i].call = jobs[t][i + n[t]].call
    BY <1>3, <1>4
  <2>2. \A t \in Stores :
          store'[t].job.from = f => /\ store[t].job.from = f
                                    /\ store'[t].job.call = store[t].job.call
    BY <1>2, <1>5
  <2>3. n \in [Stores -> Nat]
    OBVIOUS
  <2> HIDE DEF n
  <2> QED
    BY <1>1, <2>1, <2>2, <2>3, NestedFewer
<1>6. ASSUME NEW f \in Engines, h.from = f, ~engine[f].behind
      PROVE  Nested(f)'
  <2>1. AskedBy(f) /\ 1 \in DOMAIN jobs[s] /\ jobs[s][1].from = f
    BY <1>3, <1>6 DEF AskedBy
  <2>2. engine[f].at = "calling" /\ NestedOnce(f) /\ NestedIs(f, engine[f].call)
    BY <1>6, <2>1 DEF Nested
  <2>3. ~InWork(f) /\ ~Returned(f) /\ Len(answers[f]) <= 1
    BY <2>1, <2>2 DEF NestedOnce
  <2>4. ASSUME NEW t \in Stores, NEW i \in DOMAIN jobs'[t], jobs'[t][i].from = f
        PROVE  FALSE
    <3>1. CASE t = s
      <4>1. i + 1 \in DOMAIN jobs[s] /\ jobs[s][i + 1].from = f /\ i + 1 # 1
        BY <1>3, <2>4, <3>1
      <4> QED
        BY <2>1, <2>2, <4>1 DEF NestedOnce
    <3>2. CASE t # s
      BY <1>3, <2>1, <2>2, <2>4, <3>2 DEF NestedOnce
    <3> QED
      BY <3>1, <3>2
  <2>5. \A t \in Stores : store'[t].job.from = f => t = s
    BY <1>2, <2>3 DEF InWork
  <2>6. store'[s].job.call = engine[f].call
    BY <1>2, <1>3, <2>1, <2>2 DEF NestedIs
  <2>7. answers'[f] = <<>> /\ Len(answers'[f]) <= 1 /\ DOMAIN answers'[f] = {}
    BY <1>1, <2>3 DEF Returned
  <2> QED
    BY <2>2, <2>4, <2>5, <2>6, <2>7 DEF Nested, NestedOnce, NestedIs, AskedBy, InWork, Returned
<1>7. \A f \in Engines : engine[f].behind => Nested(f)'
  BY DEF Nested
<1> QED
  BY <1>5, <1>6, <1>7

\* A job that is answered leaves the hands of its mongodb_worker for the session.
LEMMA NestedSendAnswer ==
  ASSUME TypeOK, Shape, TypeOK', \A f \in Engines : Nested(f), NEW s \in Stores, SendAnswer(s),
         engine' = engine
  PROVE  \A f \in Engines : Nested(f)'
<1> DEFINE job == store[s].job
           m   == [call |-> job.call, frames |-> store[s].frames]
<1>1. job \in Job /\ m \in Answer /\ m.call = job.call
  BY DEF SendAnswer, Shape, TypeOK, Answer, Message, Job
<1>2. /\ jobs' = jobs
      /\ answers' = IF job.from = Nobody THEN answers ELSE Sent(answers, job.from, m)
  BY DEF SendAnswer
<1>3. store'[s].job = NoJob /\ \A t \in Stores : t # s => store'[t] = store[t]
  BY DEF SendAnswer, TypeOK
<1>4. \A f \in Engines : NoJob.from # f /\ f # Nobody
  BY ServiceAssumption DEF NoJob
<1>5. job.from \in Engines \cup {Nobody} /\ answers \in [Engines -> Seq(Answer)]
  BY <1>1 DEF Job, TypeOK
<1> HIDE DEF m
<1>6. ASSUME NEW f \in Engines, job.from # f
      PROVE  Nested(f)'
  <2> DEFINE n == [t \in Stores |-> 0]
  <2>1. answers'[f] = answers[f]
    <3>1. CASE job.from = Nobody
      BY <1>2, <3>1
    <3>2. CASE job.from # Nobody
      <4> DEFINE g == job.from
      <4>1. g \in Engines /\ g # f /\ m \in Answer /\ answers' = Sent(answers, g, m)
        BY <1>1, <1>2, <1>5, <1>6, <3>2
      <4> HIDE DEF g
      <4> QED
        BY <1>5, <4>1, SentProperties
    <3> QED
      BY <3>1, <3>2
  <2>2. \A t \in Stores : \A i \in DOMAIN jobs'[t] :
          jobs'[t][i].from = f => /\ i + n[t] \in DOMAIN jobs[t]
                                  /\ jobs[t][i + n[t]].from = f
                                  /\ jobs'[t][i].call = jobs[t][i + n[t]].call
    <3>1. \A t \in Stores : DOMAIN jobs[t] = 1..Len(jobs[t])
      BY Queues, EmptyProperties
    <3> QED
      BY <1>2, <3>1
  <2>3. \A t \in Stores :
          store'[t].job.from = f => /\ store[t].job.from = f
                                    /\ store'[t].job.call = store[t].job.call
    BY <1>3, <1>4
  <2>4. n \in [Stores -> Nat]
    OBVIOUS
  <2> HIDE DEF n
  <2> QED
    BY <2>1, <2>2, <2>3, <2>4, NestedFewer
<1>7. ASSUME NEW f \in Engines, job.from = f, ~engine[f].behind
      PROVE  Nested(f)'
  <2>1. InWork(f)
    BY <1>7 DEF InWork
  <2>2. engine[f].at = "calling" /\ NestedOnce(f) /\ NestedIs(f, engine[f].call)
    BY <1>7, <2>1 DEF Nested
  <2>3. ~AskedBy(f) /\ answers[f] = <<>>
    BY <2>1, <2>2 DEF NestedOnce, Returned
  <2>4. \A t \in Stores : store'[t].job.from # f
    BY <1>3, <1>4, <1>7, <2>2 DEF NestedOnce
  <2>5. /\ Len(answers'[f]) = 1 /\ DOMAIN answers'[f] = 1..1 /\ answers'[f][1] = m
    <3>1. answers' = Sent(answers, f, m) /\ Len(answers[f]) = 0 /\ m \in Answer
      BY <1>1, <1>2, <1>4, <1>7, <2>3
    <3> HIDE DEF job
    <3>2. /\ Len(Sent(answers, f, m)[f]) = Len(answers[f]) + 1
          /\ DOMAIN Sent(answers, f, m)[f] = 1..(Len(answers[f]) + 1)
          /\ Sent(answers, f, m)[f][Len(answers[f]) + 1] = m
      <4>1. answers \in [Engines -> Seq(Answer)]
        BY <1>5
      <4>2. \A a \in Answer :
              /\ Len(Sent(answers, f, a)[f]) = Len(answers[f]) + 1
              /\ DOMAIN Sent(answers, f, a)[f] = 1..(Len(answers[f]) + 1)
              /\ Sent(answers, f, a)[f][Len(answers[f]) + 1] = a
        BY <4>1, SentProperties
      <4> QED
        BY <3>1, <4>2
    <3> QED
      BY <3>1, <3>2
  <2>6. m.call = engine[f].call
    BY <1>1, <1>7, <2>2 DEF NestedIs
  <2>7. ~AskedBy(f)' /\ ~InWork(f)'
    BY <1>2, <2>3, <2>4 DEF AskedBy, InWork
  <2>8. NestedOnce(f)'
    <3>1. \A t, u \in Stores : \A i \in DOMAIN jobs[t], j \in DOMAIN jobs[u] :
            jobs[t][i].from = f /\ jobs[u][j].from = f => t = u /\ i = j
      BY <2>2 DEF NestedOnce
    <3>2. Len(answers'[f]) <= 1
      BY <2>5
    <3> QED
      BY <1>2, <2>4, <2>7, <3>1, <3>2 DEF NestedOnce
  <2>9. NestedIs(f, engine[f].call)'
    BY <1>2, <2>2, <2>4, <2>5, <2>6 DEF NestedIs
  <2> QED
    BY <2>2, <2>8, <2>9 DEF Nested
<1>8. \A f \in Engines : engine[f].behind => Nested(f)'
  BY DEF Nested
<1> QED
  BY <1>6, <1>7, <1>8

\* A crash of a mongodb_worker loses the one it works on and some of its jobs.
LEMMA NestedCrashStore ==
  ASSUME TypeOK, Shape, TypeOK', \A f \in Engines : Nested(f), NEW s \in Stores, CrashStore(s)
  PROVE  \A f \in Engines : Nested(f)'
<1>1. UNCHANGED <<engine, answers>>
  BY DEF CrashStore
<1>2. store'[s].job = NoJob /\ \A t \in Stores : t # s => store'[t] = store[t]
  BY DEF CrashStore, TypeOK
<1>3. \A f \in Engines : NoJob.from # f
  BY ServiceAssumption DEF NoJob
<1>4. PICK q \in Remain(jobs[s]) : jobs' = [jobs EXCEPT ![s] = q]
  BY DEF CrashStore
<1>5. PICK k \in Nat : \A i \in DOMAIN q : i + k \in DOMAIN jobs[s] /\ q[i] = jobs[s][i + k]
  BY <1>4, Queues, RemainProperties
<1>6. jobs'[s] = q /\ \A t \in Stores : t # s => jobs'[t] = jobs[t]
  BY <1>4 DEF TypeOK
<1>7. \A t \in Stores : DOMAIN jobs[t] = 1..Len(jobs[t])
  BY Queues, EmptyProperties
<1>8. ASSUME NEW f \in Engines
      PROVE  Nested(f)'
  <2> DEFINE n == [t \in Stores |-> IF t = s THEN k ELSE 0]
  <2>1. \A t \in Stores : \A i \in DOMAIN jobs'[t] :
          jobs'[t][i].from = f => /\ i + n[t] \in DOMAIN jobs[t]
                                  /\ jobs[t][i + n[t]].from = f
                                  /\ jobs'[t][i].call = jobs[t][i + n[t]].call
    BY <1>5, <1>6, <1>7
  <2>2. \A t \in Stores :
          store'[t].job.from = f => /\ store[t].job.from = f
                                    /\ store'[t].job.call = store[t].job.call
    BY <1>2, <1>3
  <2>3. n \in [Stores -> Nat]
    OBVIOUS
  <2> HIDE DEF n
  <2> QED
    BY <1>1, <2>1, <2>2, <2>3, NestedFewer
<1> QED
  BY <1>8

-----------------------------------------------------------------------------
(* The call of an mm_client *)

\* A step that adds nothing to the call of c keeps it in one place.
LEMMA OrderFewer ==
  ASSUME TypeOK, TypeOK', NEW c \in Clients, Order(c), client'[c] = client[c],
         late \subseteq late', replies'[c] = replies[c], NEW n \in [Engines -> Nat],
         \A e \in Engines : \A i \in DOMAIN orders'[e] :
           orders'[e][i].client = c => /\ i + n[e] \in DOMAIN orders[e]
                                       /\ orders'[e][i] = orders[e][i + n[e]],
         \A e \in Engines :
           Serves(e, c)' => Serves(e, c) /\ engine'[e].call = engine[e].call
  PROVE  Order(c)'
<1>1. \A e \in Engines : DOMAIN orders'[e] \subseteq Nat
  <2>1. \A q \in Seq(Call) : DOMAIN q \subseteq Nat
    BY EmptyProperties
  <2> QED
    BY <2>1 DEF TypeOK
<1>2. /\ OrderedBy(c)' => OrderedBy(c)
      /\ InHand(c)' => InHand(c)
      /\ Replied(c)' = Replied(c)
  BY DEF OrderedBy, InHand, Replied
<1>3. ASSUME OrderOnce(c) PROVE OrderOnce(c)'
  <2>1. ASSUME NEW e \in Engines, NEW f \in Engines, NEW i \in DOMAIN orders'[e],
               NEW j \in DOMAIN orders'[f], orders'[e][i].client = c, orders'[f][j].client = c
        PROVE  e = f /\ i = j
    <3>1. e = f /\ i + n[e] = j + n[f]
      BY <1>3, <2>1 DEF OrderOnce
    <3> QED
      BY <1>1, <3>1
  <2>2. \A e, f \in Engines : Serves(e, c)' /\ Serves(f, c)' => e = f
    BY <1>3 DEF OrderOnce
  <2>3. Len(replies'[c]) <= 1
    BY <1>3 DEF OrderOnce
  <2> QED
    BY <1>2, <1>3, <2>1, <2>2, <2>3 DEF OrderOnce
<1>4. ASSUME NEW k, OrderIs(c, k)
      PROVE  /\ \A e \in Engines : \A i \in DOMAIN orders'[e] :
                  orders'[e][i].client = c => orders'[e][i] = k
             /\ \A e \in Engines : Serves(e, c)' => engine'[e].call = k
             /\ \A i \in DOMAIN replies'[c] : replies'[c][i].call = k
  BY <1>4 DEF OrderIs
<1>5. OrderIs(c, [client |-> c, step |-> client[c].step])
        => OrderIs(c, [client |-> c, step |-> client[c].step])'
  BY <1>4 DEF OrderIs
<1> QED
  BY <1>2, <1>3, <1>5 DEF Order

\* The same for a step that leaves the orders, and what the mm_workers do, alone.
LEMMA OrderSame ==
  ASSUME TypeOK, TypeOK', NEW c \in Clients, Order(c), client'[c] = client[c],
         late \subseteq late', replies'[c] = replies[c], UNCHANGED <<orders, engine>>
  PROVE  Order(c)'
BY DEF Order, OrderOnce, OrderIs, OrderedBy, InHand, Replied, Serves

\* A new call is in the queue of one mm_worker.
LEMMA OrderSendOrder ==
  ASSUME TypeOK, Shape, TypeOK', \A d \in Clients : Order(d), NEW c \in Clients, SendOrder(c),
         UNCHANGED engine
  PROVE  \A d \in Clients : Order(d)'
<1> DEFINE k == [client |-> c, step |-> client[c].step]
<1>1. k \in Call /\ k.client = c
  BY DEF SendOrder, Call
<1>2. PICK e \in Engines : orders' = Sent(orders, e, k)
  BY DEF SendOrder
<1>3. orders \in [Engines -> Seq(Call)]
  BY DEF TypeOK
<1>4. /\ client[c].at = "ready" /\ client'[c].at = "waiting" /\ client'[c].step = client[c].step
      /\ \A d \in Clients : d # c => client'[d] = client[d]
      /\ UNCHANGED <<replies, late>>
  BY DEF SendOrder, TypeOK
<1>5. k = [client |-> c, step |-> client[c].step]'
  BY <1>4
<1> HIDE DEF k
<1>6. /\ DOMAIN orders'[e] = 1..(Len(orders[e]) + 1)
      /\ orders'[e][Len(orders[e]) + 1] = k
      /\ \A i \in DOMAIN orders[e] : orders'[e][i] = orders[e][i]
      /\ \A f \in Engines : f # e => orders'[f] = orders[f]
  BY <1>1, <1>2, <1>3, SentProperties
<1>7. /\ DOMAIN orders[e] = 1..Len(orders[e]) /\ Len(orders[e]) \in Nat
      /\ \A f \in Engines : DOMAIN orders[f] = 1..Len(orders[f])
  BY <1>3, EmptyProperties
<1>8. \A f \in Engines : \A i \in DOMAIN orders'[f] :
        \/ f = e /\ i = Len(orders[e]) + 1 /\ orders'[f][i] = k
        \/ i \in DOMAIN orders[f] /\ orders'[f][i] = orders[f][i]
  BY <1>6, <1>7
<1>9. ASSUME c \notin late
      PROVE  Order(c)'
  <2>1. ~OrderedBy(c) /\ ~InHand(c) /\ replies[c] = <<>>
    BY <1>4, <1>9 DEF Order, Replied
  <2>2. \A f \in Engines : \A i \in DOMAIN orders'[f] :
          orders'[f][i].client = c => f = e /\ i = Len(orders[e]) + 1 /\ orders'[f][i] = k
    BY <1>8, <2>1 DEF OrderedBy
  <2>3. \A f \in Engines : ~Serves(f, c)'
    BY <2>1 DEF InHand, Serves
  <2>4. replies'[c] = <<>> /\ Len(replies'[c]) <= 1 /\ DOMAIN replies'[c] = {}
    BY <1>4, <2>1
  <2>5. OrderOnce(c)'
    BY <2>2, <2>3, <2>4 DEF OrderOnce, OrderedBy, InHand, Replied
  <2>6. OrderIs(c, [client |-> c, step |-> client[c].step])'
    BY <1>5, <2>2, <2>3, <2>4 DEF OrderIs
  <2> QED
    BY <1>4, <2>5, <2>6 DEF Order
<1>10. ASSUME NEW d \in Clients, d # c
       PROVE  Order(d)'
  <2> DEFINE n == [f \in Engines |-> 0]
  <2>1. \A f \in Engines : \A i \in DOMAIN orders'[f] :
          orders'[f][i].client = d => /\ i + n[f] \in DOMAIN orders[f]
                                      /\ orders'[f][i] = orders[f][i + n[f]]
    BY <1>1, <1>7, <1>8, <1>10
  <2>2. \A f \in Engines :
          Serves(f, d)' => Serves(f, d) /\ engine'[f].call = engine[f].call
    BY DEF Serves
  <2>3. n \in [Engines -> Nat]
    OBVIOUS
  <2> HIDE DEF n
  <2> QED
    BY <1>4, <1>10, <2>1, <2>2, <2>3, OrderFewer
<1>11. c \in late => Order(c)'
  BY <1>4 DEF Order
<1> QED
  BY <1>9, <1>10, <1>11

\* The reply that is read is the only one, and the call is over.
LEMMA OrderTakeReply ==
  ASSUME TypeOK, Shape, TypeOK', \A d \in Clients : Order(d), NEW c \in Clients, TakeReply(c),
         UNCHANGED engine
  PROVE  \A d \in Clients : Order(d)'
<1>1. /\ UNCHANGED <<orders, late>> /\ replies[c] # <<>> /\ replies' = Read(replies, c)
      /\ client'[c].at = "ready"
      /\ \A d \in Clients : d # c => client'[d] = client[d]
  BY DEF TakeReply, Display, TypeOK
<1>2. /\ Len(replies[c]) \in Nat \ {0} /\ Len(replies'[c]) = Len(replies[c]) - 1
      /\ \A d \in Clients : d # c => replies'[d] = replies[d]
  <2>1. replies \in [Clients -> Seq(Reply)]
    BY DEF TypeOK
  <2> QED
    BY <1>1, <2>1, ReadProperties
<1>3. ASSUME c \notin late
      PROVE  Order(c)'
  <2>1. Len(replies[c]) <= 1 /\ ~OrderedBy(c) /\ ~InHand(c)
    BY <1>1, <1>3 DEF Order, OrderOnce, Replied
  <2>2. replies'[c] = <<>>
    <3>1. replies'[c] \in Seq(Reply)
      BY DEF TypeOK
    <3> QED
      BY <1>2, <2>1, <3>1, EmptyProperties
  <2> QED
    BY <1>1, <2>1, <2>2 DEF Order, OrderedBy, InHand, Replied, Serves
<1>4. c \in late => Order(c)'
  BY <1>1 DEF Order
<1>5. \A d \in Clients : d # c => Order(d)'
  BY <1>1, <1>2, OrderSame
<1> QED
  BY <1>3, <1>4, <1>5

\* An mm_client that has timed out is late.
LEMMA OrderNoReply ==
  ASSUME TypeOK, TypeOK', \A d \in Clients : Order(d), NEW c \in Clients, NoReply(c),
         UNCHANGED engine
  PROVE  \A d \in Clients : Order(d)'
<1>1. /\ UNCHANGED <<orders, replies>> /\ late \subseteq late' /\ c \in late'
      /\ \A d \in Clients : d # c => client'[d] = client[d]
  BY DEF NoReply, Display, TypeOK
<1>2. \A d \in Clients : d # c => Order(d)'
  BY <1>1, OrderSame
<1>3. Order(c)'
  BY <1>1 DEF Order
<1> QED
  BY <1>2, <1>3

\* An order that is taken leaves the queue for the hands of its mm_worker.
LEMMA OrderTakeOrder ==
  ASSUME TypeOK, Shape, TypeOK', \A d \in Clients : Order(d), NEW e \in Engines, TakeOrder(e),
         UNCHANGED client
  PROVE  \A d \in Clients : Order(d)'
<1> DEFINE h == Head(orders[e])
<1>1. /\ orders[e] # <<>> /\ orders' = Read(orders, e) /\ UNCHANGED <<replies, late>>
      /\ engine[e].at = "idle" /\ engine'[e].at = "calling" /\ engine'[e].call = h
      /\ \A f \in Engines : f # e => engine'[f] = engine[f]
  BY DEF TakeOrder, TypeOK
<1>2. /\ Len(orders[e]) \in Nat \ {0} /\ h = orders[e][1] /\ DOMAIN orders[e] = 1..Len(orders[e])
      /\ DOMAIN orders'[e] = 1..(Len(orders[e]) - 1)
      /\ \A i \in 1..(Len(orders[e]) - 1) : orders'[e][i] = orders[e][i + 1]
      /\ \A f \in Engines : f # e => orders'[f] = orders[f]
  <2>1. orders \in [Engines -> Seq(Call)]
    BY DEF TypeOK
  <2> QED
    BY <1>1, <2>1, ReadProperties
<1>3. \A f \in Engines : DOMAIN orders[f] = 1..Len(orders[f])
  BY Queues, EmptyProperties
<1> HIDE DEF h
<1>4. ASSUME NEW d \in Clients, h.client # d
      PROVE  Order(d)'
  <2> DEFINE n == [f \in Engines |-> IF f = e THEN 1 ELSE 0]
  <2>1. \A f \in Engines : \A i \in DOMAIN orders'[f] :
          orders'[f][i].client = d => /\ i + n[f] \in DOMAIN orders[f]
                                      /\ orders'[f][i] = orders[f][i + n[f]]
    <3>1. \A i \in DOMAIN orders'[e] :
            i + 1 \in DOMAIN orders[e] /\ orders'[e][i] = orders[e][i + 1]
      BY <1>2
    <3>2. \A f \in Engines : f # e => \A i \in DOMAIN orders'[f] :
            i + 0 \in DOMAIN orders[f] /\ orders'[f][i] = orders[f][i + 0]
      BY <1>2, <1>3
    <3>3. n[e] = 1 /\ \A f \in Engines : f # e => n[f] = 0
      OBVIOUS
    <3> HIDE DEF n
    <3> QED
      BY <3>1, <3>2, <3>3
  <2>2. \A f \in Engines :
          Serves(f, d)' => Serves(f, d) /\ engine'[f].call = engine[f].call
    BY <1>1, <1>4 DEF Serves
  <2>3. n \in [Engines -> Nat]
    OBVIOUS
  <2> HIDE DEF n
  <2> QED
    BY <1>1, <2>1, <2>2, <2>3, OrderFewer
<1>5. ASSUME NEW d \in Clients, h.client = d, d \notin late
      PROVE  Order(d)'
  <2> DEFINE k == [client |-> d, step |-> client[d].step]
  <2>1. OrderedBy(d) /\ 1 \in DOMAIN orders[e] /\ orders[e][1].client = d
    BY <1>2, <1>5 DEF OrderedBy
  <2>2. client[d].at = "waiting" /\ OrderOnce(d) /\ OrderIs(d, k)
    BY <1>5, <2>1 DEF Order
  <2>3. k = [client |-> d, step |-> client[d].step]'
    OBVIOUS
  <2> HIDE DEF k
  <2>4. ~InHand(d) /\ replies[d] = <<>>
    BY <2>1, <2>2 DEF OrderOnce, Replied
  <2>5. ASSUME NEW f \in Engines, NEW i \in DOMAIN orders'[f], orders'[f][i].client = d
        PROVE  FALSE
    <3>1. CASE f = e
      <4>1. i + 1 \in DOMAIN orders[e] /\ orders[e][i + 1].client = d /\ i + 1 # 1
        BY <1>2, <2>5, <3>1
      <4> QED
        BY <2>1, <2>2, <4>1 DEF OrderOnce
    <3>2. CASE f # e
      BY <1>2, <2>1, <2>2, <2>5, <3>2 DEF OrderOnce
    <3> QED
      BY <3>1, <3>2
  <2>6. \A f \in Engines : Serves(f, d)' => f = e
    BY <1>1, <2>4 DEF InHand, Serves
  <2>7. engine'[e].call = k
    BY <1>1, <1>2, <2>1, <2>2 DEF OrderIs
  <2>8. replies'[d] = <<>> /\ Len(replies'[d]) <= 1 /\ DOMAIN replies'[d] = {}
    BY <1>1, <2>4
  <2>9. OrderOnce(d)'
    BY <2>5, <2>6, <2>8 DEF OrderOnce, OrderedBy, Replied
  <2>10. OrderIs(d, [client |-> d, step |-> client[d].step])'
    BY <2>3, <2>5, <2>6, <2>7, <2>8 DEF OrderIs
  <2> QED
    BY <2>2, <2>9, <2>10 DEF Order
<1>6. \A d \in Clients : d \in late => Order(d)'
  BY <1>1 DEF Order
<1> QED
  BY <1>4, <1>5, <1>6

\* The report of an mm_worker is the reply to the call in its hands.
LEMMA OrderReport ==
  ASSUME TypeOK, Shape, TypeOK', \A d \in Clients : Order(d), NEW e \in Engines,
         NEW frames, NEW behind, Report(e, frames, behind), engine[e].at = "calling",
         [call |-> engine[e].call, frames |-> frames] \in Reply,
         UNCHANGED client, late \subseteq late'
  PROVE  \A d \in Clients : Order(d)'
<1>0. PICK k \in Call, c \in Clients : k = engine[e].call /\ c = k.client
  BY DEF Shape, Call
<1> DEFINE m == [call |-> k, frames |-> frames]
<1>1. m \in Reply /\ m.call = k
  BY <1>0
<1>2. replies' = Sent(replies, c, m) /\ UNCHANGED orders
  BY <1>0 DEF Report
<1>3. engine'[e].at = "idle" /\ \A f \in Engines : f # e => engine'[f] = engine[f]
  <2>1. engine' = [engine EXCEPT ![e] = [Idle EXCEPT !.behind = behind]]
    BY DEF Report
  <2>2. [Idle EXCEPT !.behind = behind].at = "idle"
    BY DEF Idle
  <2> QED
    BY <2>1, <2>2 DEF TypeOK
<1>4. replies \in [Clients -> Seq(Reply)]
  BY DEF TypeOK
<1>5. Serves(e, c) /\ \A f \in Engines, d \in Clients : Serves(f, d)' => f # e /\ Serves(f, d)
  BY <1>0, <1>3 DEF Serves
<1> HIDE DEF m
<1>6. ASSUME NEW d \in Clients, d # c
      PROVE  Order(d)'
  <2> DEFINE n == [f \in Engines |-> 0]
  <2>1. replies'[d] = replies[d]
    BY <1>1, <1>2, <1>4, <1>6, SentProperties
  <2>2. \A f \in Engines : \A i \in DOMAIN orders'[f] :
          orders'[f][i].client = d => /\ i + n[f] \in DOMAIN orders[f]
                                      /\ orders'[f][i] = orders[f][i + n[f]]
    <3>1. \A f \in Engines : DOMAIN orders[f] = 1..Len(orders[f])
      BY Queues, EmptyProperties
    <3> QED
      BY <1>2, <3>1
  <2>3. \A f \in Engines :
          Serves(f, d)' => Serves(f, d) /\ engine'[f].call = engine[f].call
    BY <1>3, <1>5
  <2>4. n \in [Engines -> Nat]
    OBVIOUS
  <2> HIDE DEF n
  <2> QED
    BY <2>1, <2>2, <2>3, <2>4, OrderFewer
<1>7. ASSUME c \notin late
      PROVE  Order(c)'
  <2> DEFINE j == [client |-> c, step |-> client[c].step]
  <2>1. InHand(c)
    BY <1>5 DEF InHand
  <2>2. client[c].at = "waiting" /\ OrderOnce(c) /\ OrderIs(c, j)
    BY <1>7, <2>1 DEF Order
  <2>3. j = [client |-> c, step |-> client[c].step]'
    OBVIOUS
  <2>4. ~OrderedBy(c) /\ replies[c] = <<>>
    BY <2>1, <2>2 DEF OrderOnce, Replied
  <2>5. \A f \in Engines : ~Serves(f, c)'
    BY <1>5, <2>2 DEF OrderOnce
  <2>6. Len(replies'[c]) = 1 /\ DOMAIN replies'[c] = 1..1 /\ replies'[c][1] = m
    <3>1. Len(replies[c]) = 0
      BY <2>4
    <3>2. \A a \in Reply :
            /\ Len(Sent(replies, c, a)[c]) = Len(replies[c]) + 1
            /\ DOMAIN Sent(replies, c, a)[c] = 1..(Len(replies[c]) + 1)
            /\ Sent(replies, c, a)[c][Len(replies[c]) + 1] = a
      BY <1>1, <1>4, SentProperties
    <3> QED
      BY <1>1, <1>2, <3>1, <3>2
  <2>7. m.call = j
    BY <1>0, <1>1, <1>5, <2>2 DEF OrderIs
  <2> HIDE DEF j
  <2>8. \A f \in Engines : \A i \in DOMAIN orders'[f] : orders'[f][i].client # c
    BY <1>2, <2>4 DEF OrderedBy
  <2>9. OrderOnce(c)'
    BY <2>5, <2>6, <2>8 DEF OrderOnce, OrderedBy, InHand
  <2>10. OrderIs(c, [client |-> c, step |-> client[c].step])'
    BY <2>3, <2>5, <2>6, <2>7, <2>8 DEF OrderIs
  <2> QED
    BY <2>2, <2>9, <2>10 DEF Order
<1>8. \A d \in Clients : d \in late => Order(d)'
  BY DEF Order
<1> QED
  BY <1>6, <1>7, <1>8

\* The orders of an mm_worker are lost with it.
LEMMA OrderAbort ==
  ASSUME TypeOK, TypeOK', \A d \in Clients : Order(d), NEW e \in Engines, Abort(e),
         UNCHANGED client
  PROVE  \A d \in Clients : Order(d)'
<1>1. /\ orders'[e] = <<>> /\ engine'[e].at = "down" /\ UNCHANGED <<replies, late>>
      /\ \A f \in Engines : f # e => engine'[f] = engine[f] /\ orders'[f] = orders[f]
  BY DEF Abort, Idle, TypeOK
<1>2. DOMAIN orders'[e] = {}
  BY <1>1
<1>3. \A f \in Engines : DOMAIN orders[f] = 1..Len(orders[f])
  BY Queues, EmptyProperties
<1>4. ASSUME NEW d \in Clients
      PROVE  Order(d)'
  <2> DEFINE n == [f \in Engines |-> 0]
  <2>1. \A f \in Engines : \A i \in DOMAIN orders'[f] :
          orders'[f][i].client = d => /\ i + n[f] \in DOMAIN orders[f]
                                      /\ orders'[f][i] = orders[f][i + n[f]]
    BY <1>1, <1>2, <1>3
  <2>2. \A f \in Engines :
          Serves(f, d)' => Serves(f, d) /\ engine'[f].call = engine[f].call
    BY <1>1 DEF Serves
  <2>3. n \in [Engines -> Nat]
    OBVIOUS
  <2> HIDE DEF n
  <2> QED
    BY <1>1, <2>1, <2>2, <2>3, OrderFewer
<1> QED
  BY <1>4

\* A new mm_worker has some of the orders of the old one.
LEMMA OrderStart ==
  ASSUME TypeOK, TypeOK', \A d \in Clients : Order(d), NEW e \in Engines, StartEngine(e)
  PROVE  \A d \in Clients : Order(d)'
<1>1. /\ engine'[e].at = "idle" /\ UNCHANGED <<client, replies, late>>
      /\ \A f \in Engines : f # e => engine'[f] = engine[f]
  BY DEF StartEngine, Idle, TypeOK
<1>2. PICK q \in Remain(orders[e]) : orders' = [orders EXCEPT ![e] = q]
  BY DEF StartEngine
<1>3. PICK k \in Nat : \A i \in DOMAIN q : i + k \in DOMAIN orders[e] /\ q[i] = orders[e][i + k]
  BY <1>2, Queues, RemainProperties
<1>4. orders'[e] = q /\ \A f \in Engines : f # e => orders'[f] = orders[f]
  BY <1>2 DEF TypeOK
<1>5. \A f \in Engines : DOMAIN orders[f] = 1..Len(orders[f])
  BY Queues, EmptyProperties
<1>6. ASSUME NEW d \in Clients
      PROVE  Order(d)'
  <2> DEFINE n == [f \in Engines |-> IF f = e THEN k ELSE 0]
  <2>1. \A f \in Engines : \A i \in DOMAIN orders'[f] :
          orders'[f][i].client = d => /\ i + n[f] \in DOMAIN orders[f]
                                      /\ orders'[f][i] = orders[f][i + n[f]]
    BY <1>3, <1>4, <1>5
  <2>2. \A f \in Engines :
          Serves(f, d)' => Serves(f, d) /\ engine'[f].call = engine[f].call
    BY <1>1 DEF Serves
  <2>3. n \in [Engines -> Nat]
    OBVIOUS
  <2> HIDE DEF n
  <2> QED
    BY <1>1, <2>1, <2>2, <2>3, OrderFewer
<1> QED
  BY <1>6

-----------------------------------------------------------------------------
(* The invariant, and what it says *)

\* At first nobody has made a call.
LEMMA InitMMInv == Init => MMInv
<1> SUFFICES ASSUME Init PROVE MMInv
  OBVIOUS
<1>1. \A S : <<>> \in Seq(S)
  OBVIOUS
<1>2. TypeOK
  BY <1>1, ServiceAssumption, ScriptProperties DEF Init, TypeOK, Idle
<1>3. Shape
  BY ServiceAssumption DEF Init, Shape, Idle
<1>4. \A e \in Engines : Nested(e)
  BY ServiceAssumption DEF Init, Nested, AskedBy, InWork, Returned, Idle, NoJob
<1>5. \A c \in Clients : Order(c)
  BY DEF Init, Order, OrderedBy, InHand, Replied, Serves, Idle
<1> QED
  BY <1>2, <1>3, <1>4, <1>5 DEF MMInv

\* Every step, by a process or a crash, keeps each call in one place.
LEMMA NextMMInv == MMInv /\ [Next]_vars => MMInv'
<1> SUFFICES ASSUME MMInv, [Next]_vars PROVE MMInv'
  OBVIOUS
<1>1. TypeOK /\ Shape /\ (\A e \in Engines : Nested(e)) /\ (\A c \in Clients : Order(c))
  BY DEF MMInv
<1>2. ASSUME NEW c \in Clients, ClientRuns(c)
      PROVE  MMInv'
  <2>1. TypeOK' /\ Shape'
    BY <1>1, <1>2, ClientTypes
  <2>2. UNCHANGED <<engine, answers, store, jobs>>
    BY <1>2 DEF ClientRuns
  <2>3. \A e \in Engines : Nested(e)'
    BY <1>1, <2>1, <2>2, NestedSame
  <2>4. \A d \in Clients : Order(d)'
    <3>1. CASE SendOrder(c)
      BY <1>1, <2>1, <2>2, <3>1, OrderSendOrder
    <3>2. CASE TakeReply(c)
      BY <1>1, <2>1, <2>2, <3>2, OrderTakeReply
    <3>3. CASE NoReply(c)
      BY <1>1, <2>1, <2>2, <3>3, OrderNoReply
    <3> QED
      BY <1>2, <3>1, <3>2, <3>3 DEF ClientRuns
  <2> QED
    BY <2>1, <2>3, <2>4 DEF MMInv
<1>3. ASSUME NEW e \in Engines, Abort(e), TypeOK', Shape', UNCHANGED client
      PROVE  MMInv'
  BY <1>1, <1>3, NestedAbort, OrderAbort DEF MMInv
<1>4. ASSUME NEW e \in Engines, EngineRuns(e)
      PROVE  MMInv'
  <2>1. TypeOK' /\ Shape' /\ UNCHANGED client
    BY <1>1, <1>4, EngineTypes DEF EngineRuns
  <2>2. CASE TakeOrder(e)
    BY <1>1, <2>1, <2>2, NestedTakeOrder, OrderTakeOrder DEF MMInv
  <2>3. CASE TakeAnswer(e)
    <3>1. \A f \in Engines : Nested(f)'
      BY <1>1, <2>1, <2>3, NestedTakeAnswer
    <3> DEFINE frames == ReportOf(Op(engine[e].call), Head(answers[e]).frames)
    <3>2. /\ engine[e].at = "calling" /\ Report(e, frames, engine[e].behind) /\ late' = late
      BY <2>3 DEF TakeAnswer
    <3>3. [call |-> engine[e].call, frames |-> frames] \in Reply
      <4>1. answers \in [Engines -> Seq(Answer)]
        BY <1>1 DEF TypeOK
      <4>2. Head(answers[e]) \in Answer
        BY <2>3, <4>1, ReadProperties DEF TakeAnswer
      <4> QED
        BY <1>1, <2>3, <4>2, ReportType DEF TakeAnswer, Answer, Message, Shape
    <3> HIDE DEF frames
    <3>4. \A c \in Clients : Order(c)'
      BY <1>1, <2>1, <3>2, <3>3, OrderReport
    <3> QED
      BY <2>1, <3>1, <3>4 DEF MMInv
  <2>4. CASE AnswerTooShort(e)
    BY <1>3, <2>1, <2>4 DEF AnswerTooShort
  <2>5. CASE NothingCame(e) /\ NothingSelected(e)
    <3>1. \A f \in Engines : Nested(f)'
      BY <1>1, <2>1, <2>5, NestedNothingSelected
    <3>2. /\ engine[e].at = "calling" /\ Report(e, <<"Nothing selected">>, TRUE)
          /\ late \subseteq late'
      BY <2>5 DEF NothingCame, NothingSelected
    <3>3. [call |-> engine[e].call, frames |-> <<"Nothing selected">>] \in Reply
      <4>1. <<"200">> \in Seq({"200", "error", "cpu"}) /\ <<"200">> # <<>>
        OBVIOUS
      <4> QED
        BY <1>1, <3>2, <4>1, ReportType DEF Shape
    <3>4. \A c \in Clients : Order(c)'
      BY <1>1, <2>1, <3>2, <3>3, OrderReport
    <3> QED
      BY <2>1, <3>1, <3>4 DEF MMInv
  <2>6. CASE NothingCame(e) /\ Abort(e)
    BY <1>3, <2>1, <2>6
  <2> QED
    BY <1>4, <2>2, <2>3, <2>4, <2>5, <2>6 DEF EngineRuns, NoAnswer
<1>5. ASSUME NEW s \in Stores, StoreRuns(s)
      PROVE  MMInv'
  <2>1. TypeOK' /\ Shape'
    BY <1>1, <1>5, StoreTypes
  <2>2. UNCHANGED <<client, replies, engine, orders, late>>
    BY <1>5 DEF StoreRuns
  <2>3. \A c \in Clients : Order(c)'
    BY <1>1, <2>1, <2>2, OrderSame
  <2>4. \A e \in Engines : Nested(e)'
    BY <1>1, <1>5, <2>1, <2>2, NestedExecute, NestedSendAnswer DEF StoreRuns
  <2> QED
    BY <2>1, <2>3, <2>4 DEF MMInv
<1>6. CASE Crash
  <2>1. TypeOK' /\ Shape'
    BY <1>1, <1>6, CrashTypes
  <2>2. ASSUME NEW e \in Engines, CrashEngine(e)
        PROVE  MMInv'
    BY <1>3, <2>1, <2>2 DEF CrashEngine
  <2>3. ASSUME NEW s \in Stores, CrashStore(s)
        PROVE  MMInv'
    <3>1. UNCHANGED <<client, replies, engine, orders, late>>
      BY <2>3 DEF CrashStore
    <3>2. \A c \in Clients : Order(c)'
      BY <1>1, <2>1, <3>1, OrderSame
    <3>3. \A e \in Engines : Nested(e)'
      BY <1>1, <2>1, <2>3, NestedCrashStore
    <3> QED
      BY <2>1, <3>2, <3>3 DEF MMInv
  <2> QED
    BY <1>6, <2>2, <2>3 DEF Crash
<1>7. ASSUME NEW e \in Engines, StartEngine(e)
      PROVE  MMInv'
  <2>1. TypeOK' /\ Shape'
    BY <1>1, <1>7, StartTypes
  <2> QED
    BY <1>1, <1>7, <2>1, NestedStart, OrderStart DEF MMInv
<1>8. CASE UNCHANGED vars
  <2>1. TypeOK' /\ Shape'
    BY <1>1, <1>8 DEF vars, TypeOK, Shape
  <2>2. UNCHANGED <<client, replies, engine, orders, answers, store, jobs, late>>
    BY <1>8 DEF vars
  <2>3. \A e \in Engines : Nested(e)'
    BY <1>1, <2>1, <2>2, NestedSame
  <2>4. \A c \in Clients : Order(c)'
    BY <1>1, <2>1, <2>2, OrderSame
  <2> QED
    BY <2>1, <2>3, <2>4 DEF MMInv
<1> QED
  BY <1>2, <1>4, <1>5, <1>6, <1>7, <1>8 DEF Next

\* In every reachable state a call is in one place, with the process that made it.
THEOREM MMInvariant == Spec => []MMInv
BY InitMMInv, NextMMInv, PTL DEF Spec

\* Every variable of MMService has its type, whatever crashes or times out.
THEOREM MMTypeCorrect == Spec => []TypeOK
<1>1. MMInv => TypeOK
  BY DEF MMInv
<1> QED
  BY <1>1, MMInvariant, PTL

\* s_call_mongodb of an mm_worker whose session has not timed out reads the answer
\* to the call that it has just sent, for any number of workers and of crashes.
THEOREM NestedAnswersInStep == Spec => []AnswersInStep
<1>1. MMInv => AnswersInStep
  <2> SUFFICES ASSUME MMInv, NEW e \in Engines, ~engine[e].behind
               PROVE  InStep(e)
    BY DEF AnswersInStep
  <2>1. TypeOK /\ Nested(e)
    BY DEF MMInv
  <2>2. ASSUME NEW k, k \in Outstanding(e)
        PROVE  /\ AskedBy(e) \/ InWork(e) \/ Returned(e)
               /\ NestedIs(e, engine[e].call) => k = engine[e].call
    <3>1. CASE \E m \in UNION {Range(jobs[s]) \cup {store[s].job} : s \in Stores} :
                 m.from = e /\ k = m.call
      <4>1. PICK s \in Stores : \E m \in Range(jobs[s]) \cup {store[s].job} :
              m.from = e /\ k = m.call
        BY <3>1
      <4>2. CASE \E m \in Range(jobs[s]) : m.from = e /\ k = m.call
        <5>1. PICK i \in DOMAIN jobs[s] : jobs[s][i].from = e /\ k = jobs[s][i].call
          BY <4>2 DEF Range
        <5> QED
          BY <5>1 DEF AskedBy, NestedIs
      <4>3. CASE store[s].job.from = e /\ k = store[s].job.call
        BY <4>3 DEF InWork, NestedIs
      <4> QED
        BY <4>1, <4>2, <4>3
    <3>2. CASE \E m \in Range(answers[e]) : k = m.call
      <4>1. PICK i \in DOMAIN answers[e] : k = answers[e][i].call
        BY <3>2 DEF Range
      <4>2. answers[e] # <<>>
        BY <4>1
      <4> QED
        BY <4>1, <4>2 DEF Returned, NestedIs
    <3> QED
      BY <2>2, <3>1, <3>2 DEF Outstanding
  <2>3. CASE engine[e].at = "calling" /\ NestedOnce(e) /\ NestedIs(e, engine[e].call)
    BY <2>2, <2>3 DEF InStep
  <2>4. CASE engine[e].at # "calling" /\ ~AskedBy(e) /\ ~InWork(e) /\ ~Returned(e)
    BY <2>2, <2>4 DEF InStep
  <2> QED
    BY <2>1, <2>3, <2>4 DEF Nested
<1> QED
  BY <1>1, MMInvariant, PTL

\* s_mm_send of an mm_client that has waited for every reply shows the reply to the
\* order that it has just sent.
THEOREM ClientRepliesInStep == Spec => []RepliesInStep
<1>1. MMInv => RepliesInStep
  <2> SUFFICES ASSUME MMInv, NEW c \in Clients \ late, NEW m \in Range(replies[c])
               PROVE  client[c].at = "waiting" /\ m.call = [client |-> c, step |-> client[c].step]
    BY DEF RepliesInStep
  <2>1. PICK i \in DOMAIN replies[c] : m = replies[c][i]
    BY DEF Range
  <2>2. replies[c] # <<>>
    BY <2>1
  <2> QED
    BY <2>1, <2>2 DEF MMInv, Order, OrderIs, Replied
<1> QED
  BY <1>1, MMInvariant, PTL

-----------------------------------------------------------------------------
(* What the reports say *)

\* A message of M waits in one of these queues; at most one does.
Waits(q, M) == \E x \in DOMAIN q : \E i \in DOMAIN q[x] : q[x][i] \in M
Once(q, M) ==
  \A x, y \in DOMAIN q : \A i \in DOMAIN q[x], j \in DOMAIN q[y] :
    q[x][i] \in M /\ q[y][j] \in M => x = y /\ i = j

\* Of the messages of M, r has none that q has not, and none more often.
PartOf(r, q, M) == (Waits(r, M) => Waits(q, M)) /\ (Once(q, M) => Once(r, M))

\* Has the client of call k sent it?
Issued(k) ==
  LET c == client[k.client]
  IN  c.step > k.step \/ (c.step = k.step /\ c.at = "waiting")

JobsOf(k)  == [from : Engines \cup {Nobody}, call : {k}]
Ordered(k) == Waits(orders, {k})
Asked(k)   == Waits(jobs, JobsOf(k))

\* A call that waits for a worker is in one queue, and has not been executed.
CallOnce(k) ==
  /\ Once(orders, {k}) /\ Once(jobs, JobsOf(k))
  /\ ~(Ordered(k) /\ Asked(k))
  /\ Ordered(k) \/ Asked(k) => Issued(k) /\ outcome[k].how = "none"
  /\ outcome[k].how # "none" => Issued(k)

\* These frames say what became of call k, as mm_worker reads them: a find lists no
\* more documents than there were, and all of them unless it failed.
Says(frames, k, o) ==
  IF Op(k) = "POSelect"
  THEN /\ Len(frames) <= o.there
       /\ o.how = "done" => Len(frames) = o.there
  ELSE frames # <<>> /\ (o.how = "done" <=> frames[1] = "200")

Fits(frames, k) == outcome[k].how # "none" /\ Says(frames, k, outcome[k])

Told ==
  /\ \A s \in Stores :
       store[s].at = "answering" => Fits(store[s].frames, store[s].job.call)
  /\ \A e \in Engines : \A i \in DOMAIN answers[e] :
       Fits(answers[e][i].frames, answers[e][i].call)

\* While no mm_worker is late, what a client gets a reply to has been executed.
Heeded ==
  /\ \A e \in Engines : engine[e].behind => e \in late
  /\ late \cap Engines = {} =>
       /\ \A c \in Clients : \A i \in DOMAIN replies[c] :
            outcome[replies[c][i].call].how # "none"
       /\ \A c \in Clients \ late : \A i \in 1..(client[c].step - 1) :
            outcome[[client |-> c, step |-> i]].how # "none"

TruthInv == MMInv /\ (\A k \in Call : CallOnce(k)) /\ Told /\ Heeded

\* A message more.
LEMMA SentWaits ==
  ASSUME NEW X, NEW S, NEW q \in [X -> Seq(S)], NEW x \in X, NEW m \in S, NEW M
  PROVE  /\ Waits(Sent(q, x, m), M) => Waits(q, M) \/ m \in M
         /\ ~Waits(q, M) => Once(Sent(q, x, m), M)
         /\ m \notin M => PartOf(Sent(q, x, m), q, M)
<1> DEFINE r == Sent(q, x, m)
<1>1. DOMAIN r = X /\ DOMAIN q = X
  BY SentProperties
<1>2. \A y \in DOMAIN r : \A i \in DOMAIN r[y] :
        \/ i \in DOMAIN q[y] /\ r[y][i] = q[y][i]
        \/ y = x /\ i = Len(q[x]) + 1 /\ r[y][i] = m
  BY <1>1, SentMember
<1> HIDE DEF r
<1>3. Waits(r, M) => Waits(q, M) \/ m \in M
  BY <1>1, <1>2 DEF Waits
<1>4. ~Waits(q, M) => Once(r, M)
  BY <1>1, <1>2 DEF Waits, Once
<1>5. m \notin M => (Once(q, M) => Once(r, M))
  BY <1>1, <1>2 DEF Once
<1> QED
  BY <1>3, <1>4, <1>5 DEF r, PartOf

\* The messages of each queue from some place on.
LEMMA LaterPart ==
  ASSUME NEW X, NEW S, NEW q \in [X -> Seq(S)], NEW r \in [X -> Seq(S)], NEW M,
         NEW n \in [X -> Nat],
         \A x \in X : \A i \in DOMAIN r[x] :
           i + n[x] \in DOMAIN q[x] /\ r[x][i] = q[x][i + n[x]]
  PROVE  PartOf(r, q, M)
<1>1. \A x \in X : DOMAIN r[x] = 1..Len(r[x]) /\ Len(r[x]) \in Nat
  BY EmptyProperties
<1>2. \A x \in X : DOMAIN r[x] \subseteq Nat
  BY <1>1
<1>3. DOMAIN q = X /\ DOMAIN r = X
  OBVIOUS
<1>4. Waits(r, M) => Waits(q, M)
  BY <1>3 DEF Waits
<1>5. ASSUME Once(q, M), NEW x \in X, NEW y \in X, NEW i \in DOMAIN r[x], NEW j \in DOMAIN r[y],
             r[x][i] \in M, r[y][j] \in M
      PROVE  x = y /\ i = j
  <2>1. x = y /\ i + n[x] = j + n[y]
    BY <1>3, <1>5 DEF Once
  <2> QED
    BY <1>2, <2>1
<1> QED
  BY <1>3, <1>4, <1>5 DEF Once, PartOf

\* One queue is read, or loses messages of its front, or all.
LEMMA ReadPart ==
  ASSUME NEW X, NEW S, NEW q \in [X -> Seq(S)], NEW x \in X, NEW M
  PROVE  /\ PartOf(q, q, M)
         /\ q[x] # <<>> => PartOf(Read(q, x), q, M)
         /\ q[x] # <<>> /\ Once(q, M) /\ Head(q[x]) \in M => ~Waits(Read(q, x), M)
         /\ q[x] # <<>> /\ Head(q[x]) \in M => Waits(q, M)
         /\ \A p \in Remain(q[x]) \cup {<<>>} : PartOf([q EXCEPT ![x] = p], q, M)
<1>1. PartOf(q, q, M)
  BY DEF PartOf
<1>2. \A y \in X : DOMAIN q[y] = 1..Len(q[y]) /\ Len(q[y]) \in Nat
  BY EmptyProperties
<1>3. ASSUME q[x] # <<>>
      PROVE  /\ PartOf(Read(q, x), q, M)
             /\ Once(q, M) /\ Head(q[x]) \in M => ~Waits(Read(q, x), M)
             /\ Head(q[x]) \in M => Waits(q, M)
  <2> DEFINE r == Read(q, x)
             n == [y \in X |-> IF y = x THEN 1 ELSE 0]
  <2>1. /\ r \in [X -> Seq(S)]
        /\ Len(q[x]) \in Nat \ {0}
        /\ DOMAIN q[x] = 1..Len(q[x])
        /\ Head(q[x]) = q[x][1]
        /\ DOMAIN r[x] = 1..(Len(q[x]) - 1)
        /\ \A i \in 1..(Len(q[x]) - 1) : r[x][i] = q[x][i + 1]
        /\ \A y \in X : y # x => r[y] = q[y]
    BY <1>3, ReadProperties
  <2> HIDE DEF r
  <2>2. \A i \in DOMAIN r[x] : i + 1 \in DOMAIN q[x] /\ r[x][i] = q[x][i + 1] /\ i + 1 # 1
    BY <2>1
  <2>3. \A y \in X : y # x => \A i \in DOMAIN r[y] : i + 0 \in DOMAIN q[y] /\ r[y][i] = q[y][i + 0]
    BY <1>2, <2>1
  <2>4. n \in [X -> Nat] /\ n[x] = 1 /\ \A y \in X : y # x => n[y] = 0
    OBVIOUS
  <2> HIDE DEF n
  <2>5. PartOf(r, q, M)
    <3>1. \A y \in X : \A i \in DOMAIN r[y] :
            i + n[y] \in DOMAIN q[y] /\ r[y][i] = q[y][i + n[y]]
      BY <2>2, <2>3, <2>4
    <3>2. r \in [X -> Seq(S)]
      BY <2>1
    <3> HIDE DEF n
    <3> QED
      BY <2>4, <3>1, <3>2, LaterPart
  <2>6. 1 \in DOMAIN q[x] /\ DOMAIN q = X /\ DOMAIN r = X
    BY <2>1
  <2>7. Head(q[x]) \in M => Waits(q, M)
    BY <2>1, <2>6 DEF Waits
  <2>8. ASSUME Once(q, M), Head(q[x]) \in M, NEW y \in X, NEW i \in DOMAIN r[y], r[y][i] \in M
        PROVE  FALSE
    <3>1. q[x][1] \in M
      BY <2>1, <2>8
    <3>2. CASE y = x
      <4>1. i + 1 \in DOMAIN q[x] /\ q[x][i + 1] \in M /\ i + 1 # 1
        BY <2>2, <2>8, <3>2
      <4> QED
        BY <2>6, <2>8, <3>1, <4>1 DEF Once
    <3>3. CASE y # x
      <4>1. i + 0 \in DOMAIN q[y] /\ q[y][i + 0] \in M /\ y \in DOMAIN q
        BY <2>3, <2>6, <2>8, <3>3
      <4> QED
        BY <2>6, <2>8, <3>1, <3>3, <4>1 DEF Once
    <3> QED
      BY <3>2, <3>3
  <2> QED
    BY <2>5, <2>6, <2>7, <2>8 DEF Waits, r
<1>4. ASSUME NEW p \in Remain(q[x]) \cup {<<>>}
      PROVE  PartOf([q EXCEPT ![x] = p], q, M)
  <2> DEFINE r == [q EXCEPT ![x] = p]
  <2>1. PICK k \in Nat : /\ p \in Seq(S)
                         /\ \A i \in DOMAIN p : i + k \in DOMAIN q[x] /\ p[i] = q[x][i + k]
    <3>1. CASE p = <<>>
      <4>1. p \in Seq(S) /\ DOMAIN p = {}
        BY <3>1
      <4> QED
        BY <4>1
    <3>2. CASE p \in Remain(q[x])
      BY <3>2, RemainProperties
    <3> QED
      BY <3>1, <3>2
  <2> DEFINE n == [y \in X |-> IF y = x THEN k ELSE 0]
  <2>2. r \in [X -> Seq(S)] /\ r[x] = p /\ \A y \in X : y # x => r[y] = q[y]
    BY <2>1
  <2> HIDE DEF r
  <2>3. \A y \in X : y # x => \A i \in DOMAIN r[y] : i + 0 \in DOMAIN q[y] /\ r[y][i] = q[y][i + 0]
    BY <1>2, <2>2
  <2>4. n \in [X -> Nat] /\ n[x] = k /\ \A y \in X : y # x => n[y] = 0
    OBVIOUS
  <2> HIDE DEF n
  <2>5. \A y \in X : \A i \in DOMAIN r[y] :
          i + n[y] \in DOMAIN q[y] /\ r[y][i] = q[y][i + n[y]]
    BY <2>1, <2>2, <2>3, <2>4, ZenonT(40)
  <2>6. PartOf(r, q, M)
    BY <2>2, <2>4, <2>5, LaterPart
  <2> QED
    BY <2>6 DEF r
<1> QED
  BY <1>1, <1>3, <1>4

\* What is sent stays sent.
LEMMA IssuedStays ==
  ASSUME TypeOK, Shape, NEW k \in Call
  PROVE  /\ UNCHANGED client => (Issued(k) <=> Issued(k)')
         /\ \A c \in Clients : ClientRuns(c) => (Issued(k) => Issued(k)')
<1>1. k.step \in 1..4 /\ k.client \in Clients
  BY ScriptProperties DEF Call
<1>2. \A c \in Clients : client[c].step \in 1..5 /\ client[c].at \in {"ready", "waiting"}
  BY ScriptProperties DEF TypeOK
<1>3. ASSUME UNCHANGED client PROVE Issued(k) <=> Issued(k)'
  BY <1>3 DEF Issued
<1>4. ASSUME NEW c \in Clients, ClientRuns(c), Issued(k) PROVE Issued(k)'
  <2>1. CASE SendOrder(c)
    <3>1. /\ client'[c].step = client[c].step /\ client'[c].at = "waiting"
          /\ \A d \in Clients : d # c => client'[d] = client[d]
      BY <2>1 DEF SendOrder, TypeOK
    <3> QED
      BY <1>1, <1>2, <1>4, <3>1 DEF Issued
  <2>2. CASE Display(c)
    <3>1. /\ client'[c].step = client[c].step + 1
          /\ \A d \in Clients : d # c => client'[d] = client[d]
      BY <2>2 DEF Display, TypeOK
    <3> QED
      BY <1>1, <1>2, <1>4, <3>1 DEF Issued
  <2> QED
    BY <1>4, <2>1, <2>2 DEF ClientRuns, TakeReply, NoReply
<1> QED
  BY <1>3, <1>4

\* The queues of calls, as functions.
LEMMA CallQueues ==
  ASSUME TypeOK
  PROVE  /\ orders \in [Engines -> Seq(Call)] /\ jobs \in [Stores -> Seq(Job)]
         /\ \A j \in Job : j \in JobsOf(j.call) /\ \A k : j \in JobsOf(k) => k = j.call
BY DEF TypeOK, Job, JobsOf

\* A step that at most loses the messages of call k.
LEMMA CallFewer ==
  ASSUME NEW k \in Call, CallOnce(k), PartOf(orders', orders, {k}),
         PartOf(jobs', jobs, JobsOf(k)), outcome'[k] = outcome[k], Issued(k) => Issued(k)'
  PROVE  CallOnce(k)'
BY DEF CallOnce, PartOf, Ordered, Asked

\* Steps of an mm_client.
LEMMA CallClient ==
  ASSUME TypeOK, Shape, NEW c \in Clients, ClientRuns(c), NEW k \in Call, CallOnce(k)
  PROVE  CallOnce(k)'
<1>1. UNCHANGED <<jobs, outcome>> /\ JobsOf(k)' = JobsOf(k)
  BY DEF ClientRuns, JobsOf
<1>2. PartOf(jobs', jobs, JobsOf(k))
  BY <1>1 DEF PartOf
<1>3. Issued(k) => Issued(k)'
  BY IssuedStays
<1>4. CASE SendOrder(c)
  <2> DEFINE h == [client |-> c, step |-> client[c].step]
  <2>1. h \in Call /\ h.client = c /\ h.step = client[c].step
    BY <1>4 DEF SendOrder, Call
  <2>2. PICK e \in Engines : orders' = Sent(orders, e, h)
    BY <1>4 DEF SendOrder
  <2>3. client[c].at = "ready" /\ client'[c].at = "waiting" /\ client'[c].step = client[c].step
    BY <1>4 DEF SendOrder, TypeOK
  <2>4. client[c].step \in Int
    <3>1. client \in [Clients -> [at : {"ready", "waiting"}, step : 1..(Len(Script) + 1)]]
      BY DEF TypeOK
    <3>2. Len(Script) = 4 /\ client[c].step \in 1..(Len(Script) + 1)
      BY <3>1, ScriptProperties
    <3> QED
      BY <3>2
  <2>5. ~Issued(h) /\ (k = h => Issued(k)')
    BY <2>1, <2>3, <2>4 DEF Issued
  <2> HIDE DEF h
  <2>6. CASE k = h
    <3>1. ~Ordered(k) /\ ~Asked(k) /\ outcome[k].how = "none"
      BY <2>5, <2>6 DEF CallOnce
    <3>2. Once(orders', {k})
      BY <2>1, <2>2, <3>1, CallQueues, SentWaits DEF Ordered
    <3> QED
      BY <1>1, <2>5, <2>6, <3>1, <3>2 DEF CallOnce, Asked
  <2>7. CASE k # h
    <3>1. PartOf(orders', orders, {k})
      BY <2>1, <2>2, <2>7, CallQueues, SentWaits
    <3> QED
      BY <1>1, <1>2, <1>3, <3>1, CallFewer
  <2> QED
    BY <2>6, <2>7
<1>5. CASE UNCHANGED orders
  <2>1. PartOf(orders', orders, {k})
    BY <1>5 DEF PartOf
  <2> QED
    BY <1>1, <1>2, <1>3, <2>1, CallFewer
<1> QED
  BY <1>4, <1>5 DEF ClientRuns, TakeReply, NoReply, Display

\* An order that is taken becomes a job.
LEMMA CallTakeOrder ==
  ASSUME TypeOK, NEW e \in Engines, TakeOrder(e), UNCHANGED <<client, outcome>>,
         NEW k \in Call, CallOnce(k)
  PROVE  CallOnce(k)'
<1> DEFINE h == Head(orders[e])
           job == [from |-> e, call |-> h]
<1>1. orders[e] # <<>> /\ orders' = Read(orders, e)
  BY DEF TakeOrder
<1>2. h \in Call /\ job \in Job /\ job.call = h
  BY <1>1, CallQueues, ReadProperties DEF Job
<1>3. PICK s \in Stores : jobs' = Sent(jobs, s, job)
  BY DEF TakeOrder
<1>4. Issued(k) <=> Issued(k)'
  BY DEF Issued
<1> HIDE DEF h
<1>5. CASE k = h
  <2>1. Ordered(k)
    BY <1>1, <1>5, CallQueues, ReadPart DEF Ordered, h
  <2>2. ~Asked(k) /\ Issued(k) /\ outcome[k].how = "none" /\ Once(orders, {k})
    BY <2>1 DEF CallOnce
  <2>3. ~Ordered(k)'
    BY <1>1, <1>5, <2>2, CallQueues, ReadPart DEF Ordered, h
  <2>4. Once(orders', {k})
    BY <2>3 DEF Ordered, Waits, Once
  <2>5. Once(jobs', JobsOf(k))
    <3> HIDE DEF job
    <3> QED
      BY <1>2, <1>3, <2>2, CallQueues, SentWaits DEF Asked
  <2> QED
    BY <1>4, <2>2, <2>3, <2>4, <2>5 DEF CallOnce, JobsOf
<1>6. CASE k # h
  <2>1. PartOf(orders', orders, {k})
    BY <1>1, CallQueues, ReadPart
  <2>2. PartOf(jobs', jobs, JobsOf(k))
    <3> HIDE DEF job
    <3>1. job \notin JobsOf(k)
      BY <1>2, <1>6, CallQueues
    <3> QED
      BY <1>2, <1>3, <3>1, CallQueues, SentWaits
  <2> QED
    BY <1>4, <2>1, <2>2, CallFewer
<1> QED
  BY <1>5, <1>6

\* The end of an mm_worker loses its orders; its jobs go on.
LEMMA CallAbort ==
  ASSUME TypeOK, Shape, NEW e \in Engines, Abort(e), UNCHANGED <<client, outcome>>,
         NEW k \in Call, CallOnce(k)
  PROVE  CallOnce(k)'
<1>1. orders' = [orders EXCEPT ![e] = <<>>]
  BY DEF Abort
<1>2. PartOf(orders', orders, {k})
  BY <1>1, CallQueues, ReadPart
<1>3. /\ DOMAIN jobs' = Stores /\ DOMAIN jobs = Stores
      /\ \A s \in Stores : /\ DOMAIN jobs'[s] = DOMAIN jobs[s]
                           /\ \A i \in DOMAIN jobs[s] : /\ jobs'[s][i].call = jobs[s][i].call
                                                        /\ jobs[s][i] \in Job
                                                        /\ jobs'[s][i] \in Job
  <2>1. jobs' \in [Stores -> Seq(Job)]
    BY AbortProperties
  <2>2. \A s \in Stores : \A i \in DOMAIN jobs'[s] : jobs'[s][i] \in Job
    BY <2>1, EmptyProperties
  <2>3. jobs \in [Stores -> Seq(Job)]
    BY DEF TypeOK
  <2>4. \A s \in Stores : \A i \in DOMAIN jobs[s] : jobs[s][i] \in Job
    BY Queues
  <2>5. \A s \in Stores : /\ DOMAIN jobs'[s] = DOMAIN jobs[s]
                          /\ \A i \in DOMAIN jobs[s] : jobs'[s][i].call = jobs[s][i].call
    BY AbortProperties
  <2> QED
    BY <2>1, <2>2, <2>3, <2>4, <2>5
<1>4. \A s \in Stores : \A i \in DOMAIN jobs[s] :
        jobs'[s][i] \in JobsOf(k) => jobs[s][i] \in JobsOf(k)
  BY <1>3 DEF JobsOf, Job
<1>5. PartOf(jobs', jobs, JobsOf(k))
  BY <1>3, <1>4 DEF PartOf, Waits, Once
<1> QED
  BY <1>2, <1>5, CallFewer DEF Issued

\* What an operation does to the collection, its report and the call.
LEMMA ExecuteTells ==
  ASSUME TypeOK, NEW s \in Stores, Execute(s)
  PROVE  LET h == Head(jobs[s]) IN
         /\ h \in Job /\ jobs[s] # <<>> /\ jobs' = Read(jobs, s) /\ answers' = answers
         /\ \E frames, o :
              /\ store' = [store EXCEPT ![s] = [at |-> "answering", job |-> h, frames |-> frames]]
              /\ outcome' = [outcome EXCEPT ![h.call] = o]
              /\ o.how \in {"done", "error"}
              /\ Says(frames, h.call, o)
<1> DEFINE h     == Head(jobs[s])
           op    == Op(h.call)
           after == Crud(op, docs)
           parts == FailedReports(op, after.frames)
           o(how) == [how |-> how, there |-> docs["cpu"]]
           Ends(d, frames, how) ==
             /\ docs' = d
             /\ store' = [store EXCEPT ![s] = [at |-> "answering", job |-> h,
                                               frames |-> frames]]
             /\ outcome' = [outcome EXCEPT ![h.call] = o(how)]
<1>1. jobs[s] # <<>> /\ h \in Job /\ jobs' = Read(jobs, s) /\ answers' = answers
  BY ReadProperties DEF Execute, TypeOK
<1>2. op \in {"POSave", "POSelect", "POUpdate", "PODelete"}
  BY <1>1 DEF Job, Call, Op, Script
<1>3. Says(after.frames, h.call, o("done")) /\ \A r \in parts : Says(r, h.call, o("error"))
  <2>1. CASE op = "POSelect"
    <3>1. docs["cpu"] \in Nat /\ after.frames = [i \in 1..docs["cpu"] |-> "cpu"]
      BY <2>1 DEF TypeOK, Crud, Retrieve
    <3>2. after.frames \in Seq({"cpu"}) /\ Len(after.frames) = docs["cpu"]
      BY <3>1
    <3>3. ASSUME NEW r \in parts
          PROVE  Len(r) <= docs["cpu"]
      <4>1. PICK n \in 0..Len(after.frames) : r = SubSeq(after.frames, 1, n)
        BY <2>1, <3>3 DEF FailedReports
      <4> HIDE DEF after
      <4>2. n \in 0..docs["cpu"] /\ Len(r) = n
        BY <3>1, <3>2, <4>1
      <4> QED
        BY <3>1, <4>2
    <3> HIDE DEF after, parts
    <3> QED
      BY <2>1, <3>1, <3>2, <3>3 DEF Says
  <2>2. CASE op # "POSelect"
    <3>1. after.frames = <<"200">> /\ parts = {<<"error">>}
      BY <1>2, <2>2 DEF Crud, Create, Update, Delete, FailedReports
    <3>2. \A f, x : f = <<x>> => f # <<>> /\ f[1] = x
      OBVIOUS
    <3> HIDE DEF after, parts
    <3>3. after.frames # <<>> /\ after.frames[1] = "200"
      BY <3>1, <3>2
    <3>4. \A r \in parts : r # <<>> /\ r[1] = "error"
      BY <3>1, <3>2
    <3> QED
      BY <2>2, <3>3, <3>4 DEF Says
  <2> QED
    BY <2>1, <2>2
<1>4. \/ Ends(after.docs, after.frames, "done")
      \/ \E d, r : r \in parts /\ Ends(d, r, "error")
  BY DEF Execute
<1>5. \E frames, x :
        /\ store' = [store EXCEPT ![s] = [at |-> "answering", job |-> h, frames |-> frames]]
        /\ outcome' = [outcome EXCEPT ![h.call] = x]
        /\ x.how \in {"done", "error"}
        /\ Says(frames, h.call, x)
  <2>1. o("done").how = "done" /\ o("error").how = "error"
    OBVIOUS
  <2> HIDE DEF after, parts, h, o
  <2> QED
    BY <1>3, <1>4, <2>1
<1> QED
  BY <1>1, <1>5

\* A call that is executed was in one queue, and is in none any more.
LEMMA CallExecute ==
  ASSUME TypeOK, NEW s \in Stores, Execute(s), UNCHANGED <<client, orders>>,
         NEW k \in Call, CallOnce(k)
  PROVE  CallOnce(k)' /\ (outcome[k].how # "none" => outcome'[k] = outcome[k])
<1> DEFINE h == Head(jobs[s])
<1>1. /\ h \in Job /\ jobs[s] # <<>> /\ jobs' = Read(jobs, s)
      /\ \E o : o.how \in {"done", "error"} /\ outcome' = [outcome EXCEPT ![h.call] = o]
  BY ExecuteTells
<1>2. PICK o : o.how \in {"done", "error"} /\ outcome' = [outcome EXCEPT ![h.call] = o]
  BY <1>1
<1>3. h.call \in Call
  BY <1>1 DEF Job
<1>4. /\ outcome'[h.call] = o
      /\ \A x \in Call : x # h.call => outcome'[x] = outcome[x]
  BY <1>2, <1>3 DEF TypeOK
<1>5. Issued(k) <=> Issued(k)'
  BY DEF Issued
<1>6. h \in JobsOf(h.call)
  BY <1>1, CallQueues
<1> HIDE DEF h
<1>7. CASE k = h.call
  <2>1. Asked(k)
    BY <1>1, <1>6, <1>7, CallQueues, ReadPart DEF Asked, h
  <2>2. ~Ordered(k) /\ Issued(k) /\ outcome[k].how = "none" /\ Once(jobs, JobsOf(k)) /\ Once(orders, {k})
    BY <2>1 DEF CallOnce
  <2>3. ~Asked(k)'
    <3>1. Head(jobs[s]) \in JobsOf(k) /\ jobs \in [Stores -> Seq(Job)]
      BY <1>6, <1>7, CallQueues DEF h
    <3>2. ~Waits(jobs', JobsOf(k))
      BY <1>1, <2>2, <3>1, ReadPart
    <3> QED
      BY <3>2 DEF Asked, JobsOf
  <2>4. Once(jobs', JobsOf(k))
    BY <2>3 DEF Asked, Waits, Once, JobsOf
  <2> QED
    BY <1>5, <2>2, <2>3, <2>4 DEF CallOnce, Ordered, JobsOf
<1>8. CASE k # h.call
  <2>1. PartOf(jobs', jobs, JobsOf(k))
    BY <1>1, CallQueues, ReadPart
  <2>2. PartOf(orders', orders, {k})
    BY DEF PartOf
  <2> QED
    BY <1>4, <1>5, <1>8, <2>1, <2>2, CallFewer
<1> QED
  BY <1>7, <1>8

\* What was sent to a process that was down is lost in part.
LEMMA CallLoses ==
  ASSUME TypeOK, UNCHANGED <<client, outcome>>, NEW k \in Call, CallOnce(k),
         \/ UNCHANGED jobs /\ \E e \in Engines : StartEngine(e)
         \/ UNCHANGED orders /\ \E s \in Stores : CrashStore(s)
         \/ UNCHANGED <<orders, jobs>>
  PROVE  CallOnce(k)'
<1>1. PartOf(orders', orders, {k})
  <2>1. CASE \E e \in Engines : StartEngine(e)
    <3>1. PICK e \in Engines : \E p \in Remain(orders[e]) :
            orders' = [orders EXCEPT ![e] = p]
      BY <2>1 DEF StartEngine
    <3>2. PICK p \in Remain(orders[e]) \cup {<<>>} : orders' = [orders EXCEPT ![e] = p]
      BY <3>1
    <3>3. orders \in [Engines -> Seq(Call)]
      BY CallQueues
    <3> QED
      BY <3>2, <3>3, ReadPart
  <2>2. CASE UNCHANGED orders
    BY <2>2 DEF PartOf
  <2> QED
    BY <2>1, <2>2
<1>2. PartOf(jobs', jobs, JobsOf(k))
  <2>1. CASE \E s \in Stores : CrashStore(s)
    <3>1. PICK s \in Stores : \E p \in Remain(jobs[s]) :
            jobs' = [jobs EXCEPT ![s] = p]
      BY <2>1 DEF CrashStore
    <3>2. PICK p \in Remain(jobs[s]) \cup {<<>>} : jobs' = [jobs EXCEPT ![s] = p]
      BY <3>1
    <3>3. jobs \in [Stores -> Seq(Job)]
      BY CallQueues
    <3> QED
      BY <3>2, <3>3, ReadPart
  <2>2. CASE UNCHANGED jobs
    BY <2>2 DEF PartOf
  <2> QED
    BY <2>1, <2>2
<1> QED
  BY <1>1, <1>2, CallFewer DEF Issued

\* Answers that are read or lost, and jobs that are given up, leave the others true.
LEMMA ToldFewer ==
  ASSUME TypeOK, Told, UNCHANGED outcome,
         \A s \in Stores :
           store'[s].at = "answering" =>
             /\ store[s].at = "answering" /\ store'[s].frames = store[s].frames
             /\ store'[s].job.call = store[s].job.call,
         \A e \in Engines : \/ answers'[e] \in {answers[e], <<>>}
                            \/ answers[e] # <<>> /\ answers' = Read(answers, e)
  PROVE  Told'
<1>1. ASSUME NEW e \in Engines, NEW i \in DOMAIN answers'[e]
      PROVE  \E j \in DOMAIN answers[e] : answers'[e][i] = answers[e][j]
  <2>1. CASE answers'[e] \in {answers[e], <<>>}
    BY <1>1, <2>1
  <2>2. CASE answers[e] # <<>> /\ answers' = Read(answers, e)
    <3>1. answers \in [Engines -> Seq(Answer)]
      BY DEF TypeOK
    <3>2. /\ Len(answers[e]) \in Nat \ {0} /\ DOMAIN answers[e] = 1..Len(answers[e])
          /\ DOMAIN answers'[e] = 1..(Len(answers[e]) - 1)
          /\ \A n \in 1..(Len(answers[e]) - 1) : answers'[e][n] = answers[e][n + 1]
      BY <2>2, <3>1, ReadProperties
    <3>3. i + 1 \in DOMAIN answers[e] /\ answers'[e][i] = answers[e][i + 1]
      BY <1>1, <3>2
    <3> QED
      BY <3>3
  <2> QED
    BY <2>1, <2>2
<1>2. \A frames, k : Fits(frames, k) => Fits(frames, k)'
  BY DEF Fits, Says, Op
<1>3. \A e \in Engines : \A i \in DOMAIN answers'[e] :
        Fits(answers'[e][i].frames, answers'[e][i].call)
  BY <1>1 DEF Told
<1> QED
  BY <1>2, <1>3 DEF Told, Fits, Says, Op

\* What is reported of an operation is what became of it; other calls are not touched.
LEMMA ToldExecute ==
  ASSUME TypeOK, Shape, Told, NEW s \in Stores, Execute(s),
         \A k \in Call : outcome[k].how # "none" => outcome'[k] = outcome[k]
  PROVE  Told'
<1> DEFINE h == Head(jobs[s])
<1>1. h \in Job /\ answers' = answers
  BY ExecuteTells
<1>2. PICK frames, o :
        /\ store' = [store EXCEPT ![s] = [at |-> "answering", job |-> h, frames |-> frames]]
        /\ outcome' = [outcome EXCEPT ![h.call] = o]
        /\ o.how \in {"done", "error"}
        /\ Says(frames, h.call, o)
  BY ExecuteTells
<1>3. h.call \in Call
  BY <1>1 DEF Job
<1>4. outcome'[h.call] = o
  BY <1>2, <1>3 DEF TypeOK
<1> HIDE DEF h
<1>5. ASSUME NEW k \in Call, NEW f, Fits(f, k)
      PROVE  Fits(f, k)'
  BY <1>5 DEF Fits, Says, Op
<1>6. ASSUME NEW t \in Stores, store'[t].at = "answering"
      PROVE  Fits(store[t].frames, store[t].job.call)'
  <2>1. CASE t = s
    <3>1. store'[s].job = h /\ store'[s].frames = frames
      BY <1>2 DEF TypeOK
    <3> QED
      BY <1>2, <1>4, <2>1, <3>1 DEF Fits, Says, Op
  <2>2. CASE t # s
    <3>1. store'[t] = store[t]
      BY <1>2, <2>2 DEF TypeOK
    <3>2. store[t].job.call \in Call /\ Fits(store[t].frames, store[t].job.call)
      BY <1>6, <3>1 DEF Told, Shape, Job
    <3> QED
      BY <1>5, <3>1, <3>2
  <2> QED
    BY <2>1, <2>2
<1>7. ASSUME NEW e \in Engines, NEW i \in DOMAIN answers'[e]
      PROVE  Fits(answers[e][i].frames, answers[e][i].call)'
  <2>1. answers[e][i].call \in Call
    BY <1>1, <1>7, Queues DEF Answer, Message
  <2> QED
    BY <1>1, <1>5, <1>7, <2>1 DEF Told
<1> QED
  BY <1>6, <1>7 DEF Told

\* An answer says what its mongodb_worker found.
LEMMA ToldSendAnswer ==
  ASSUME TypeOK, Shape, Told, NEW s \in Stores, SendAnswer(s)
  PROVE  Told'
<1> DEFINE job == store[s].job
           m == [call |-> job.call, frames |-> store[s].frames]
<1>1. /\ store[s].at = "answering" /\ UNCHANGED outcome /\ store'[s].at = "idle"
      /\ \A t \in Stores : t # s => store'[t] = store[t]
  BY DEF SendAnswer, TypeOK
<1>2. job \in Job /\ Fits(store[s].frames, job.call)
  BY <1>1 DEF Shape, Told
<1>3. m \in Answer /\ m.call = job.call /\ m.frames = store[s].frames
  BY <1>2 DEF Answer, Message, Job, TypeOK
<1>4. ASSUME NEW e \in Engines, NEW i \in DOMAIN answers'[e]
      PROVE  \/ i \in DOMAIN answers[e] /\ answers'[e][i] = answers[e][i]
             \/ answers'[e][i] = m
  <2>1. CASE job.from = Nobody
    BY <1>4, <2>1 DEF SendAnswer
  <2>2. CASE job.from # Nobody
    <3>1. PICK a \in Engines : answers' = Sent(answers, a, m)
      BY <1>2, <2>2 DEF SendAnswer, Job
    <3>2. answers \in [Engines -> Seq(Answer)]
      BY DEF TypeOK
    <3> HIDE DEF m, job
    <3>3. m \in Answer
      BY <1>3
    <3>4. \A f \in Engines : \A n \in DOMAIN Sent(answers, a, m)[f] :
            \/ n \in DOMAIN answers[f] /\ Sent(answers, a, m)[f][n] = answers[f][n]
            \/ Sent(answers, a, m)[f][n] = m
      BY <3>2, <3>3, SentMember
    <3> QED
      BY <1>4, <3>1, <3>4
  <2> QED
    BY <2>1, <2>2
<1> HIDE DEF m, job
<1>5. \A e \in Engines : \A i \in DOMAIN answers'[e] :
        Fits(answers'[e][i].frames, answers'[e][i].call)
  BY <1>2, <1>3, <1>4 DEF Told
<1> QED
  BY <1>1, <1>5 DEF Told, Fits, Says, Op

\* A step may add a reply to a call that has been executed, and take one.
LEMMA HeededStep ==
  ASSUME TypeOK, TypeOK', Heeded, late \subseteq late',
         \A e \in Engines : engine'[e].behind => engine[e].behind \/ e \in late',
         \A k \in Call : outcome[k].how # "none" => outcome'[k].how # "none",
         \A c \in Clients : \A i \in DOMAIN replies'[c] :
           \/ \E j \in DOMAIN replies[c] : replies'[c][i] = replies[c][j]
           \/ late' \cap Engines = {} => outcome'[replies'[c][i].call].how # "none",
         \A c \in Clients \ late' :
           \/ client'[c].step = client[c].step
           \/ /\ client'[c].step = client[c].step + 1
              /\ late' \cap Engines = {} =>
                   outcome'[[client |-> c, step |-> client[c].step]].how # "none"
  PROVE  Heeded'
<1>1. \A e \in Engines : engine'[e].behind => e \in late'
  BY DEF Heeded
<1>2. ASSUME late' \cap Engines = {}, NEW c \in Clients, NEW i \in DOMAIN replies'[c]
      PROVE  outcome'[replies'[c][i].call].how # "none"
  <2>1. CASE \E j \in DOMAIN replies[c] : replies'[c][i] = replies[c][j]
    <3>1. PICK j \in DOMAIN replies[c] : replies'[c][i] = replies[c][j]
      BY <2>1
    <3>2. replies[c][j].call \in Call
      BY Queues DEF Reply, Message
    <3>3. outcome[replies[c][j].call].how # "none"
      BY <1>2 DEF Heeded
    <3> QED
      BY <3>1, <3>2, <3>3
  <2> QED
    BY <1>2, <2>1
<1>3. ASSUME late' \cap Engines = {}, NEW c \in Clients \ late',
             NEW i \in 1..(client'[c].step - 1)
      PROVE  outcome'[[client |-> c, step |-> i]].how # "none"
  <2>1. client[c].step \in 1..5 /\ client'[c].step \in 1..5
    BY ScriptProperties DEF TypeOK
  <2>2. CASE i \in 1..(client[c].step - 1)
    <3>1. [client |-> c, step |-> i] \in Call
      BY <2>1, <2>2, ScriptProperties DEF Call
    <3>2. outcome[[client |-> c, step |-> i]].how # "none"
      BY <1>3, <2>2 DEF Heeded
    <3> QED
      BY <3>1, <3>2
  <2>3. CASE i = client[c].step /\ client'[c].step = client[c].step + 1
    <3>1. client'[c].step # client[c].step
      BY <2>1, <2>3
    <3>2. outcome'[[client |-> c, step |-> client[c].step]].how # "none"
      BY <1>3, <3>1
    <3> QED
      BY <2>3, <3>2
  <2>4. client'[c].step \in {client[c].step, client[c].step + 1}
    BY <1>3
  <2>5. i \in 1..(client[c].step - 1) \/ (i = client[c].step /\ client'[c].step = client[c].step + 1)
    BY <1>3, <2>1, <2>4
  <2> QED
    BY <2>2, <2>3, <2>5
<1> QED
  BY <1>1, <1>2, <1>3 DEF Heeded

\* A client that takes a reply takes the one to its latest order.
LEMMA HeededClient ==
  ASSUME TypeOK, TypeOK', Heeded, NEW c \in Clients, Order(c), ClientRuns(c)
  PROVE  Heeded'
<1>1. UNCHANGED <<engine, outcome>> /\ late \subseteq late'
  BY DEF ClientRuns, SendOrder, TakeReply, NoReply
<1>2. CASE SendOrder(c)
  <2>1. UNCHANGED <<replies, late>> /\ \A d \in Clients : client'[d].step = client[d].step
    BY <1>2 DEF SendOrder, TypeOK
  <2> QED
    BY <1>1, <2>1, HeededStep
<1>3. CASE NoReply(c)
  <2>1. UNCHANGED replies /\ c \in late' /\ \A d \in Clients : d # c => client'[d] = client[d]
    BY <1>3 DEF NoReply, Display, TypeOK
  <2> QED
    BY <1>1, <2>1, HeededStep
<1>4. CASE TakeReply(c)
  <2>1. /\ replies[c] # <<>> /\ replies' = Read(replies, c) /\ late' = late
        /\ client'[c].step = client[c].step + 1
        /\ \A d \in Clients : d # c => client'[d] = client[d]
    BY <1>4 DEF TakeReply, Display, TypeOK
  <2>2. replies \in [Clients -> Seq(Reply)]
    BY DEF TypeOK
  <2>3. /\ Len(replies[c]) \in Nat \ {0} /\ DOMAIN replies[c] = 1..Len(replies[c])
        /\ DOMAIN replies'[c] = 1..(Len(replies[c]) - 1)
        /\ \A i \in 1..(Len(replies[c]) - 1) : replies'[c][i] = replies[c][i + 1]
        /\ \A d \in Clients : d # c => replies'[d] = replies[d]
    <3>1. replies[c] # <<>> /\ replies' = Read(replies, c)
      BY <2>1
    <3>2. /\ Len(replies[c]) \in Nat \ {0} /\ DOMAIN replies[c] = 1..Len(replies[c])
          /\ DOMAIN Read(replies, c)[c] = 1..(Len(replies[c]) - 1)
          /\ \A i \in 1..(Len(replies[c]) - 1) : Read(replies, c)[c][i] = replies[c][i + 1]
          /\ \A d \in Clients : d # c => Read(replies, c)[d] = replies[d]
      BY <2>2, <3>1, ReadProperties
    <3> QED
      BY <3>1, <3>2
  <2>4. \A i \in DOMAIN replies'[c] : i + 1 \in DOMAIN replies[c] /\ replies'[c][i] = replies[c][i + 1]
    BY <2>3
  <2>5. 1 \in DOMAIN replies[c]
    BY <2>3
  <2>6. c \notin late => replies[c][1].call = [client |-> c, step |-> client[c].step]
    BY <2>1, <2>5 DEF Order, OrderIs, Replied
  <2>7. late \cap Engines = {} => outcome[replies[c][1].call].how # "none"
    BY <2>5 DEF Heeded
  <2>8. \A d \in Clients : \A i \in DOMAIN replies'[d] :
          \E j \in DOMAIN replies[d] : replies'[d][i] = replies[d][j]
    BY <2>3, <2>4
  <2> QED
    BY <1>1, <2>1, <2>6, <2>7, <2>8, HeededStep
<1> QED
  BY <1>2, <1>3, <1>4 DEF ClientRuns

\* A report names the call of its mm_worker, which has been executed if no one is late.
LEMMA HeededReport ==
  ASSUME TypeOK, Shape, TypeOK', Heeded, NEW e \in Engines, engine[e].at = "calling",
         NEW frames, NEW behind, Report(e, frames, behind),
         [call |-> engine[e].call, frames |-> frames] \in Reply,
         late \subseteq late', UNCHANGED <<client, outcome>>,
         behind => engine[e].behind \/ e \in late',
         late' \cap Engines = {} => outcome[engine[e].call].how # "none"
  PROVE  Heeded'
<1> DEFINE k == engine[e].call
           m == [call |-> k, frames |-> frames]
<1>1. k.client \in Clients /\ m.call = k
  BY DEF Shape, Call
<1>2. PICK c \in Clients : replies' = Sent(replies, c, m)
  BY <1>1 DEF Report
<1>3. \A f \in Engines : engine'[f].behind => engine[f].behind \/ f \in late'
  BY DEF Report, Idle, TypeOK
<1>4. replies \in [Clients -> Seq(Reply)]
  BY DEF TypeOK
<1>5. m \in Reply
  OBVIOUS
<1> HIDE DEF m
<1>6. \A d \in Clients : \A i \in DOMAIN replies'[d] :
        \/ i \in DOMAIN replies[d] /\ replies'[d][i] = replies[d][i]
        \/ replies'[d][i] = m
  BY <1>2, <1>4, <1>5, SentMember
<1>7. \A d \in Clients : \A i \in DOMAIN replies'[d] :
        \/ \E j \in DOMAIN replies[d] : replies'[d][i] = replies[d][j]
        \/ late' \cap Engines = {} => outcome'[replies'[d][i].call].how # "none"
  BY <1>1, <1>6
<1> QED
  BY <1>3, <1>7, HeededStep

\* The answer that an mm_worker in step reads is to its call, and true.
LEMMA AnswerFits ==
  ASSUME TypeOK, Told, NEW e \in Engines, Nested(e), TakeAnswer(e), ~engine[e].behind
  PROVE  Fits(Head(answers[e]).frames, engine[e].call) /\ Head(answers[e]).frames # <<>>
<1>1. engine[e].at = "calling" /\ answers[e] # <<>> /\ Head(answers[e]).frames # <<>>
  BY DEF TakeAnswer
<1>2. 1 \in DOMAIN answers[e] /\ Head(answers[e]) = answers[e][1]
  <2>1. answers[e] \in Seq(Answer)
    BY DEF TypeOK
  <2> QED
    BY <1>1, <2>1, EmptyProperties
<1>3. answers[e][1].call = engine[e].call
  BY <1>1, <1>2 DEF Nested, NestedIs
<1> QED
  BY <1>1, <1>2, <1>3 DEF Told

\* At first nothing has been sent, and nothing has been executed.
LEMMA InitTruth == Init => TruthInv
<1> SUFFICES ASSUME Init PROVE TruthInv
  OBVIOUS
<1>1. MMInv
  BY InitMMInv
<1>2. /\ orders = [e \in Engines |-> <<>>] /\ jobs = [s \in Stores |-> <<>>]
      /\ \A k \in Call : outcome[k].how = "none"
  BY DEF Init
<1>3. \A k \in Call : CallOnce(k)
  BY <1>2 DEF CallOnce, Once, Waits, Ordered, Asked
<1>4. Told
  BY DEF Init, Told
<1>5. Heeded
  BY DEF Init, Heeded, Idle
<1> QED
  BY <1>1, <1>3, <1>4, <1>5 DEF TruthInv

\* A process that ends takes no answer and no report with it but its own.
LEMMA AbortTruth ==
  ASSUME TruthInv, MMInv', NEW e \in Engines, Abort(e), UNCHANGED <<client, outcome>>
  PROVE  TruthInv'
<1>1. TypeOK /\ Shape /\ TypeOK' /\ Told /\ Heeded
  BY DEF TruthInv, MMInv
<1>2. \A k \in Call : CallOnce(k)'
  BY <1>1, CallAbort DEF TruthInv
<1>3. \A s \in Stores : /\ store'[s].at = store[s].at /\ store'[s].frames = store[s].frames
                        /\ store'[s].job.call = store[s].job.call
  <2>1. \A s \in Stores : store'[s].job.call = store[s].job.call
    BY <1>1, AbortProperties
  <2>2. \A s \in Stores : store'[s].at = store[s].at /\ store'[s].frames = store[s].frames
    BY <1>1 DEF Abort, TypeOK
  <2> QED
    BY <2>1, <2>2
<1>4. \A f \in Engines : answers'[f] \in {answers[f], <<>>}
  BY <1>1 DEF Abort, TypeOK
<1>5. Told'
  BY <1>1, <1>3, <1>4, ToldFewer
<1>6. UNCHANGED <<replies, late>> /\ \A f \in Engines : engine'[f].behind => engine[f].behind
  BY <1>1 DEF Abort, Idle, TypeOK
<1>7. Heeded'
  BY <1>1, <1>6, HeededStep
<1> QED
  BY <1>2, <1>5, <1>7 DEF TruthInv

\* Steps of an mm_worker.
LEMMA EngineTruth ==
  ASSUME TruthInv, MMInv', NEW e \in Engines, EngineRuns(e)
  PROVE  TruthInv'
<1>1. /\ TypeOK /\ Shape /\ TypeOK' /\ Told /\ Heeded /\ Nested(e)
      /\ UNCHANGED <<client, outcome>>
  BY DEF TruthInv, MMInv, EngineRuns
<1>2. CASE TakeOrder(e)
  <2>1. \A k \in Call : CallOnce(k)'
    BY <1>1, <1>2, CallTakeOrder DEF TruthInv
  <2>2. /\ UNCHANGED <<answers, replies, store, late>>
        /\ \A f \in Engines : engine'[f].behind = engine[f].behind
    BY <1>1, <1>2, ZenonT(40) DEF TakeOrder, TypeOK
  <2>3. Told'
    BY <1>1, <2>2, ToldFewer
  <2>4. Heeded'
    BY <1>1, <2>2, HeededStep
  <2> QED
    BY <2>1, <2>3, <2>4 DEF TruthInv
<1>3. ASSUME UNCHANGED <<orders, jobs, store>>,
             \/ UNCHANGED answers
             \/ answers[e] # <<>> /\ answers' = Read(answers, e)
      PROVE  Told' /\ \A k \in Call : CallOnce(k)'
  <2>1. \A k \in Call : CallOnce(k)'
    BY <1>1, <1>3, CallLoses DEF TruthInv
  <2>2. \A f \in Engines : \/ answers'[f] \in {answers[f], <<>>}
                           \/ answers[f] # <<>> /\ answers' = Read(answers, f)
    BY <1>1, <1>3 DEF Read, TypeOK
  <2>3. Told'
    BY <1>1, <1>3, <2>2, ToldFewer
  <2> QED
    BY <2>1, <2>3
<1>4. CASE TakeAnswer(e)
  <2> DEFINE frames == ReportOf(Op(engine[e].call), Head(answers[e]).frames)
  <2>1. /\ engine[e].at = "calling" /\ Report(e, frames, engine[e].behind) /\ late' = late
        /\ answers[e] # <<>> /\ answers' = Read(answers, e)
        /\ UNCHANGED <<orders, jobs, store>>
    BY <1>4 DEF TakeAnswer, Report
  <2>2. [call |-> engine[e].call, frames |-> frames] \in Reply
    <3>1. answers \in [Engines -> Seq(Answer)]
      BY <1>1 DEF TypeOK
    <3>2. Head(answers[e]) \in Answer
      BY <2>1, <3>1, ReadProperties
    <3> QED
      BY <1>1, <1>4, <3>2, ReportType DEF TakeAnswer, Answer, Message, Shape
  <2> HIDE DEF frames
  <2>3. ASSUME late \cap Engines = {}
        PROVE  outcome[engine[e].call].how # "none"
    <3>1. ~engine[e].behind
      BY <1>1, <2>3 DEF Heeded
    <3> QED
      BY <1>1, <1>4, <3>1, AnswerFits DEF Fits
  <2>4. Heeded'
    BY <1>1, <2>1, <2>2, <2>3, HeededReport
  <2> QED
    BY <1>3, <2>1, <2>4 DEF TruthInv
<1>5. CASE NothingCame(e) /\ NothingSelected(e)
  <2>1. /\ engine[e].at = "calling" /\ Report(e, <<"Nothing selected">>, TRUE)
        /\ late' = late \cup {e} /\ UNCHANGED <<answers, orders, jobs, store>>
    BY <1>5 DEF NothingCame, NothingSelected, Report
  <2>2. [call |-> engine[e].call, frames |-> <<"Nothing selected">>] \in Reply
    <3>1. <<"200">> \in Seq({"200", "error", "cpu"}) /\ <<"200">> # <<>>
      OBVIOUS
    <3> QED
      BY <1>1, <2>1, <3>1, ReportType DEF Shape
  <2>3. late \subseteq late' /\ e \in late' /\ ~(late' \cap Engines = {})
    BY <2>1
  <2>4. Heeded'
    BY <1>1, <2>1, <2>2, <2>3, HeededReport
  <2> QED
    BY <1>3, <2>1, <2>4 DEF TruthInv
<1>6. CASE Abort(e)
  BY <1>1, <1>6, AbortTruth
<1> QED
  BY <1>2, <1>4, <1>5, <1>6 DEF EngineRuns, NoAnswer, AnswerTooShort

\* Steps of a mongodb_worker.
LEMMA StoreTruth ==
  ASSUME TruthInv, MMInv', NEW s \in Stores, StoreRuns(s)
  PROVE  TruthInv'
<1>1. /\ TypeOK /\ Shape /\ TypeOK' /\ Told /\ Heeded
      /\ UNCHANGED <<client, replies, engine, orders, late>>
  BY DEF TruthInv, MMInv, StoreRuns
<1>2. ASSUME \A k \in Call : outcome[k].how # "none" => outcome'[k] = outcome[k]
      PROVE  Heeded'
  BY <1>1, <1>2, HeededStep
<1>3. CASE Execute(s)
  <2>1. \A k \in Call : CallOnce(k)' /\ (outcome[k].how # "none" => outcome'[k] = outcome[k])
    BY <1>1, <1>3, CallExecute DEF TruthInv
  <2> QED
    BY <1>1, <1>2, <1>3, <2>1, ToldExecute DEF TruthInv
<1>4. CASE SendAnswer(s)
  <2>1. UNCHANGED <<jobs, outcome>>
    BY <1>4 DEF SendAnswer
  <2>2. \A k \in Call : CallOnce(k)'
    BY <1>1, <2>1, CallLoses DEF TruthInv
  <2> QED
    BY <1>1, <1>2, <1>4, <2>1, <2>2, ToldSendAnswer DEF TruthInv
<1> QED
  BY <1>3, <1>4 DEF StoreRuns

\* Every step keeps the calls single and the reports true.
LEMMA NextTruth == TruthInv /\ [Next]_vars => TruthInv'
<1> SUFFICES ASSUME TruthInv, [Next]_vars PROVE TruthInv'
  OBVIOUS
<1>1. MMInv'
  BY NextMMInv DEF TruthInv
<1>2. /\ TypeOK /\ Shape /\ TypeOK' /\ Told /\ Heeded /\ \A c \in Clients : Order(c)
  BY <1>1 DEF TruthInv, MMInv
<1>3. ASSUME NEW c \in Clients, ClientRuns(c)
      PROVE  TruthInv'
  <2>1. \A k \in Call : CallOnce(k)'
    BY <1>2, <1>3, CallClient DEF TruthInv
  <2>2. UNCHANGED <<answers, store, outcome>>
    BY <1>3 DEF ClientRuns
  <2>3. Told'
    BY <1>2, <2>2, ToldFewer
  <2>4. Heeded'
    BY <1>2, <1>3, HeededClient
  <2> QED
    BY <1>1, <2>1, <2>3, <2>4 DEF TruthInv
<1>4. CASE Crash
  <2>1. ASSUME NEW e \in Engines, CrashEngine(e)
        PROVE  TruthInv'
    BY <1>1, <2>1, AbortTruth DEF CrashEngine
  <2>2. ASSUME NEW s \in Stores, CrashStore(s)
        PROVE  TruthInv'
    <3>1. UNCHANGED <<client, replies, engine, orders, answers, outcome, late>>
      BY <2>2 DEF CrashStore
    <3>2. \A k \in Call : CallOnce(k)'
      BY <1>2, <2>2, <3>1, CallLoses DEF TruthInv
    <3>3. /\ store'[s].at = "idle"
          /\ \A t \in Stores : t # s => store'[t] = store[t]
      BY <1>2, <2>2 DEF CrashStore, TypeOK
    <3>4. Told'
      BY <1>2, <3>1, <3>3, ToldFewer
    <3>5. Heeded'
      BY <1>2, <3>1, HeededStep
    <3> QED
      BY <1>1, <3>2, <3>4, <3>5 DEF TruthInv
  <2> QED
    BY <1>4, <2>1, <2>2 DEF Crash
<1>5. ASSUME NEW e \in Engines, StartEngine(e)
      PROVE  TruthInv'
  <2>1. UNCHANGED <<client, replies, answers, store, jobs, outcome, late>>
    BY <1>5 DEF StartEngine
  <2>2. \A f \in Engines : engine'[f].behind => engine[f].behind
    BY <1>2, <1>5 DEF StartEngine, Idle, TypeOK
  <2>3. \A k \in Call : CallOnce(k)'
    BY <1>2, <1>5, <2>1, CallLoses DEF TruthInv
  <2>4. Told'
    BY <1>2, <2>1, ToldFewer
  <2>5. Heeded'
    BY <1>2, <2>1, <2>2, HeededStep
  <2> QED
    BY <1>1, <2>3, <2>4, <2>5 DEF TruthInv
<1>6. CASE UNCHANGED vars
  <2>1. UNCHANGED <<client, replies, engine, orders, answers, store, jobs, outcome, late>>
    BY <1>6 DEF vars
  <2>2. \A k \in Call : CallOnce(k)'
    BY <1>2, <2>1, CallLoses DEF TruthInv
  <2>3. Told'
    BY <1>2, <2>1, ToldFewer
  <2>4. Heeded'
    BY <1>2, <2>1, HeededStep
  <2> QED
    BY <1>1, <2>2, <2>3, <2>4 DEF TruthInv
<1> QED
  BY <1>1, <1>3, <1>4, <1>5, <1>6, EngineTruth, StoreTruth DEF Next

\* In every reachable state a call waits in one queue at most and is executed once, and
\* the answers on their way say what became of it.
THEOREM TruthInvariant == Spec => []TruthInv
BY InitTruth, NextTruth, PTL DEF Spec

\* The report of an mm_worker that is in step is about its own call: a POSelect lists
\* what the find has read, all of it if the find did not fail, and the others say
\* whether the driver called the operation a success.
THEOREM ReportsTrue == Spec => ReportsAreTrue
<1> DEFINE TrueReport(e) ==
      Reports(e) /\ ~engine'[e].behind =>
        LET k == engine[e].call
            r == NewReport(e)
        IN  /\ outcome[k].how # "none"
            /\ IF Op(k) = "POSelect"
               THEN /\ Len(r) <= outcome[k].there
                    /\ outcome[k].how = "done" => Len(r) = outcome[k].there
               ELSE outcome[k].how = (IF r = <<Done[Op(k)]>> THEN "done" ELSE "error")
<1>1. ASSUME TruthInv, [Next]_vars, NEW e \in Engines, Reports(e), ~engine'[e].behind
      PROVE  TrueReport(e)
  <2> DEFINE k == engine[e].call
             f == Head(answers[e]).frames
  <2>1. /\ TypeOK /\ Shape /\ Told /\ Nested(e)
        /\ engine[e].at = "calling" /\ engine'[e].at = "idle"
    BY <1>1 DEF TruthInv, MMInv, Reports
  <2>2. TakeAnswer(e)
    <3>1. \A x : Abort(x) => engine'[x].at = "down" \/ x \notin Engines
      BY <2>1 DEF Abort, Idle, TypeOK
    <3>2. \A x \in Engines : Abort(x) => x # e /\ engine'[e] = engine[e]
      BY <2>1, <3>1 DEF Abort, TypeOK
    <3>3. \A x \in Engines : TakeOrder(x) \/ StartEngine(x) => engine'[e] = engine[e] \/ x = e
      BY <2>1 DEF TakeOrder, StartEngine, TypeOK
    <3>4. ~TakeOrder(e) /\ ~StartEngine(e)
      BY <2>1 DEF TakeOrder, StartEngine
    <3>5. \A x \in Engines : \A fr, b : Report(x, fr, b) =>
            /\ x # e => engine'[e] = engine[e]
            /\ x = e => engine'[e].behind = b
      BY <2>1 DEF Report, Idle, TypeOK
    <3>6. engine'[e] # engine[e]
      BY <2>1
    <3>7. \A x \in Engines : NothingSelected(x) => engine'[e] = engine[e]
      BY <1>1, <3>5 DEF NothingSelected
    <3>8. \A x \in Engines : TakeAnswer(x) => x = e
      BY <3>5, <3>6 DEF TakeAnswer
    <3>9. \A x \in Engines : EngineRuns(x) => TakeAnswer(x) /\ x = e
      BY <3>2, <3>3, <3>4, <3>6, <3>7, <3>8 DEF EngineRuns, AnswerTooShort, NoAnswer
    <3>10. ~(\E c \in Clients : ClientRuns(c)) /\ ~(\E s \in Stores : StoreRuns(s))
      BY <3>6 DEF ClientRuns, StoreRuns
    <3>11. ~Crash
      BY <3>2, <3>6 DEF Crash, CrashEngine, CrashStore
    <3> QED
      BY <1>1, <3>3, <3>4, <3>6, <3>9, <3>10, <3>11 DEF Next, vars
  <2>3. ~engine[e].behind
    BY <1>1, <2>1, <2>2 DEF TakeAnswer, Report, Idle, TypeOK
  <2>4. Fits(f, k) /\ f # <<>>
    BY <2>1, <2>2, <2>3, AnswerFits
  <2>5. k \in Call /\ k.client \in Clients
    BY <2>1 DEF Shape, Call
  <2>6. NewReport(e) = ReportOf(Op(k), f)
    <3>1. replies[k.client] \in Seq(Reply)
      BY <2>1, <2>5 DEF TypeOK
    <3>2. replies'[k.client] = Append(replies[k.client], [call |-> k, frames |-> ReportOf(Op(k), f)])
      BY <2>1, <2>2, <2>5 DEF TakeAnswer, Report, Sent, TypeOK
    <3>3. NewReport(e) = replies'[k.client][Len(replies'[k.client])].frames
      BY DEF NewReport
    <3> HIDE DEF k, f
    <3> QED
      BY <3>1, <3>2, <3>3, AppendProperties, LenProperties
  <2>7. outcome[k].how \in {"none", "done", "error"}
    BY <2>1, <2>5 DEF TypeOK
  <2>8. Op(k) \in {"POSave", "POSelect", "POUpdate", "PODelete"}
    BY <2>5 DEF Call, Op, Script
  <2>9. CASE Op(k) = "POSelect"
    <3>1. NewReport(e) = f
      BY <2>6, <2>9 DEF ReportOf
    <3>2. /\ outcome[k].how # "none" /\ Len(f) <= outcome[k].there
          /\ outcome[k].how = "done" => Len(f) = outcome[k].there
      BY <2>4, <2>9 DEF Fits, Says
    <3> HIDE DEF k, f
    <3> QED
      BY <2>9, <3>1, <3>2 DEF k
  <2>10. CASE Op(k) # "POSelect"
    <3>1. outcome[k].how = IF f[1] = "200" THEN "done" ELSE "error"
      BY <2>4, <2>7, <2>10 DEF Fits, Says
    <3>2. Done[Op(k)] # Failed[Op(k)]
      <4>1. /\ Done["POSave"] # Failed["POSave"] /\ Done["POUpdate"] # Failed["POUpdate"]
            /\ Done["PODelete"] # Failed["PODelete"]
        BY DEF Done, Failed
      <4> HIDE DEF k
      <4> QED
        BY <2>8, <2>10, <4>1
    <3>3. <<Failed[Op(k)]>> # <<Done[Op(k)]>>
      BY <3>2
    <3>4. ReportOf(Op(k), f) = IF f[1] = "200" THEN <<Done[Op(k)]>> ELSE <<Failed[Op(k)]>>
      BY <2>10 DEF ReportOf
    <3> HIDE DEF k, f
    <3>5. CASE f[1] = "200"
      BY <2>6, <2>10, <3>1, <3>4, <3>5 DEF k
    <3>6. CASE f[1] # "200"
      BY <2>6, <2>10, <3>1, <3>3, <3>4, <3>6 DEF k
    <3> QED
      BY <3>5, <3>6
  <2> QED
    BY <2>9, <2>10
<1>2. TruthInv /\ [Next]_vars => [\A e \in Engines : TrueReport(e)]_vars
  BY <1>1
<1> QED
  BY <1>2, TruthInvariant, PTL DEF Spec, ReportsAreTrue

\* MongoDB gets the operations of a client that waits in the order of its calls, through
\* whichever workers they go, as long as no mm_worker has timed out either.
THEOREM OrderKept == Spec => OrderIsKept
<1> DEFINE InOrder(k) ==
      outcome'[k] # outcome[k] /\ k.client \notin late /\ late \cap Engines = {} =>
        \A i \in 1..(k.step - 1) : outcome[[k EXCEPT !.step = i]].how # "none"
<1>1. ASSUME TruthInv, [Next]_vars, NEW k \in Call, outcome'[k] # outcome[k],
             k.client \notin late, late \cap Engines = {}, NEW i \in 1..(k.step - 1)
      PROVE  outcome[[k EXCEPT !.step = i]].how # "none"
  <2>1. TypeOK /\ CallOnce(k) /\ Heeded
    BY <1>1 DEF TruthInv, MMInv
  <2>2. PICK s \in Stores : Execute(s)
    BY <1>1 DEF Next, ClientRuns, EngineRuns, StoreRuns, SendAnswer, Crash, CrashEngine,
                CrashStore, StartEngine, vars
  <2>3. Head(jobs[s]) \in Job /\ jobs[s] # <<>> /\ k = Head(jobs[s]).call
    BY <1>1, <2>1, <2>2, ExecuteTells DEF TypeOK
  <2>4. Asked(k)
    BY <2>1, <2>3, CallQueues, ReadPart DEF Asked
  <2>5. Issued(k)
    BY <2>1, <2>4 DEF CallOnce
  <2>6. k = [client |-> k.client, step |-> k.step] /\ k.client \in Clients /\ k.step \in 1..4
    BY ScriptProperties DEF Call
  <2>7. client[k.client].step \in 1..5
    BY <2>1, <2>6, ScriptProperties DEF TypeOK
  <2>8. i \in 1..(client[k.client].step - 1)
    BY <2>5, <2>6, <2>7 DEF Issued
  <2>9. [k EXCEPT !.step = i] = [client |-> k.client, step |-> i]
    BY <2>6
  <2> QED
    BY <1>1, <2>1, <2>6, <2>8, <2>9 DEF Heeded
<1>2. TruthInv /\ [Next]_vars => [\A k \in Call : InOrder(k)]_vars
  BY <1>1
<1> QED
  BY <1>2, TruthInvariant, PTL DEF Spec, OrderIsKept

=============================================================================
