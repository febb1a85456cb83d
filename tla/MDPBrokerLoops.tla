--------------------------- MODULE MDPBrokerLoops ---------------------------
(***************************************************************************)
(* The two loops on the critical path of the broker, s_broker_purge and    *)
(* s_service_dispatch, one round at a time and with the list operations of *)
(* the code, from any well-formed tables.  They compute what Purge and     *)
(* Dispatch of MDPBroker say in closed form.                               *)
(***************************************************************************)
EXTENDS MDPBroker, SequencesExt

\* The tables of a process are finite.
ASSUME FiniteAssumption == IsFiniteSet(Workers)

VARIABLES
  was,   \* the tables when s_service_dispatch is called
  self,  \* the service it is called for
  b,     \* the tables
  work,  \* the REQUESTs sent so far
  pc     \* "purge", "dispatch", "done"

loopVars == <<was, self, b, work, pc>>

\* Every list of the members of S in some order.
Orders(S) == {q \in [1..Cardinality(S) -> S] : IsInjective(q)}

\* The tables of workers that serve as given, with expiry times and lists as given.
\* A worker that never said READY is known without a service once the broker has
\* ignored a command of its, and it is in waiting once it has sent a HEARTBEAT.
InService(service) == {w \in Workers : service[w] # NoService}

Table(service, known, expiry, waiting, queue) ==
  [NewBroker EXCEPT !.known = known, !.service = service, !.expiry = expiry,
                    !.waiting = waiting,
                    !.queue = [s \in Names |-> queue[s]],
                    !.count = [s \in Names |-> Len(queue[s])]]

\* The oldest worker can be anywhere in waiting, and each list in any order.
Expiries(known) == {e \in [Workers -> 0..1] : \A w \in Workers \ known : e[w] = 0}

Lists(service, known) ==
  UNION {Orders(S) : S \in {T \in SUBSET known : InService(service) \subseteq T}}

Queues(service) ==
  {f \in [Names -> UNION {Orders(T) : T \in SUBSET InService(service)}] :
     \A s \in Names : f[s] \in Orders({w \in InService(service) : service[w] = s})}

TablesOf(service, known) ==
  {Table(service, known, expiry, waiting, queue) :
     expiry \in Expiries(known), waiting \in Lists(service, known), queue \in Queues(service)}

Tables ==
  UNION {UNION {TablesOf(service, known) :
                  known \in {K \in SUBSET Workers : InService(service) \subseteq K}} :
           service \in [Workers -> Names \cup {NoService}]}

InitLoops ==
  /\ self \in Names
  /\ \E t \in Tables, r \in BoundedSeq(Request, MaxRequests) :
       was = [t EXCEPT !.requests[self] = r]
  /\ b = was
  /\ work = <<>>
  /\ pc = "purge"
  /\ Init

\* if (self->service) ... of s_worker_delete
Detach(t, w) ==
  LET s == t.service[w]
  IN  IF s = NoService
      THEN t
      ELSE [t EXCEPT !.queue[s] = RemoveFirst(@, w), !.count[s] = @ - 1]

\* while (worker) ... s_worker_delete(worker, 0)
DeleteFirst ==
  LET w == Head(b.waiting)
  IN  /\ pc = "purge"
      /\ b.waiting # <<>>
      /\ b.expiry[w] = 0
      /\ b' = [Detach(b, w) EXCEPT !.waiting = RemoveFirst(@, w),
                                   !.known = @ \ {w},
                                   !.service[w] = NoService]
      /\ UNCHANGED <<was, self, work, pc>>

PurgeDone ==
  /\ pc = "purge"
  /\ b.waiting # <<>> => b.expiry[Head(b.waiting)] > 0
  /\ pc' = IF b.queue[self] = <<>> THEN "done" ELSE "dispatch"
  /\ UNCHANGED <<was, self, b, work>>

\* while (zlist_size(self->requests) > 0) ...
SendFirst ==
  LET w == Head(b.queue[self])
      r == b.requests[self]
  IN  /\ pc = "dispatch"
      /\ r # <<>>
      /\ b' = [b EXCEPT !.queue[self] = Append(RemoveFirst(Tail(@), w), w),
                        !.requests[self] = Tail(@)]
      /\ work' = Append(work, [to |-> w, kind |-> "REQUEST", request |-> Head(r)])
      /\ UNCHANGED <<was, self, pc>>

DispatchDone ==
  /\ pc = "dispatch"
  /\ b.requests[self] = <<>>
  /\ pc' = "done"
  /\ UNCHANGED <<was, self, b, work>>

NextLoops ==
  /\ DeleteFirst \/ PurgeDone \/ SendFirst \/ DispatchDone
  /\ UNCHANGED vars

SpecLoops == InitLoops /\ [][NextLoops]_<<loopVars, vars>>

\* When s_service_dispatch returns, the tables and the REQUESTs sent are those
\* of Dispatch: the purge took exactly the expired head of the list, each
\* request went to the next worker of the queue, and the queue was left rotated.
LoopsComputeDispatch ==
  pc = "done" => [broker |-> b, work |-> work] = Dispatch(was, self)
=============================================================================
