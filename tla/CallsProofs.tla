----------------------------- MODULE CallsProofs -----------------------------
(***************************************************************************)
(* The proofs about single calls in Majordomo: that a call is never in two *)
(* places, is executed once at most, and is answered to the one who made   *)
(* it.  A call is carried from the client to the broker, to a worker and   *)
(* back; each step takes it out of one queue and puts it into another, or  *)
(* drops it.  The proofs say this once for a queue, then for the places in *)
(* the system, and then for each action.                                   *)
(***************************************************************************)
EXTENDS MajordomoProofs

-----------------------------------------------------------------------------
(* Queues *)

\* A member of M stands in q; one at most does.
Has(q, M)  == \E i \in DOMAIN q : q[i] \in M
Lone(q, M) == \A i, j \in DOMAIN q : q[i] \in M /\ q[j] \in M => i = j

\* Of the members of M, r has none that q has not, and none more often.
Thinner(r, q, M) ==
  \A N \in SUBSET M : /\ Has(r, N) => Has(q, N)
                      /\ Lone(q, N) => Lone(r, N)

\* A message more.
LEMMA HasAppend ==
  ASSUME NEW S, NEW q \in Seq(S), NEW m, NEW M
  PROVE  /\ Has(Append(q, m), M) => Has(q, M) \/ m \in M
         /\ Lone(q, M) /\ ~(m \in M /\ Has(q, M)) => Lone(Append(q, m), M)
         /\ m \notin M => (Lone(q, M) => Lone(Append(q, m), M))
<1> DEFINE r == Append(q, m)
<1>1. /\ Len(q) \in Nat /\ DOMAIN q = 1..Len(q)
      /\ DOMAIN r = 1..(Len(q) + 1)
      /\ \A i \in 1..Len(q) : r[i] = q[i]
      /\ r[Len(q) + 1] = m
  BY LenProperties
<1> HIDE DEF r
<1>2. \A i \in DOMAIN r : i \in DOMAIN q \/ i = Len(q) + 1
  BY <1>1
<1>3. Has(r, M) => Has(q, M) \/ m \in M
  BY <1>1, <1>2 DEF Has
<1>4. ASSUME Lone(q, M), ~(m \in M /\ Has(q, M)) PROVE Lone(r, M)
  BY <1>1, <1>2, <1>4 DEF Has, Lone
<1> QED
  BY <1>3, <1>4 DEF r

\* The first message less.
LEMMA HasTail ==
  ASSUME NEW S, NEW q \in Seq(S), q # <<>>, NEW M
  PROVE  /\ Has(Tail(q), M) => Has(q, M)
         /\ Lone(q, M) => Lone(Tail(q), M)
         /\ Lone(q, M) /\ Head(q) \in M => ~Has(Tail(q), M)
         /\ Head(q) \in M => Has(q, M)
<1> DEFINE r == Tail(q)
<1>1. /\ Len(q) \in Nat \ {0} /\ DOMAIN q = 1..Len(q)
      /\ DOMAIN r = 1..(Len(q) - 1)
      /\ \A i \in 1..(Len(q) - 1) : r[i] = q[i + 1]
      /\ Head(q) = q[1]
  BY LenProperties, HeadTailProperties, EmptySeq
<1> HIDE DEF r
<1>2. \A i \in DOMAIN r : i + 1 \in DOMAIN q /\ r[i] = q[i + 1] /\ i + 1 # 1 /\ i \in Int
  BY <1>1
<1>3. 1 \in DOMAIN q
  BY <1>1
<1>4. Has(r, M) => Has(q, M)
  BY <1>2 DEF Has
<1>5. ASSUME Lone(q, M) PROVE Lone(r, M)
  <2> SUFFICES ASSUME NEW i \in DOMAIN r, NEW j \in DOMAIN r, r[i] \in M, r[j] \in M
               PROVE  i = j
    BY DEF Lone
  <2>1. i + 1 = j + 1
    BY <1>2, <1>5 DEF Lone
  <2> QED
    BY <1>2, <2>1
<1>6. ASSUME Lone(q, M), Head(q) \in M PROVE ~Has(r, M)
  BY <1>1, <1>2, <1>3, <1>6 DEF Has, Lone
<1>7. Head(q) \in M => Has(q, M)
  BY <1>1, <1>3 DEF Has
<1> QED
  BY <1>4, <1>5, <1>6, <1>7 DEF r

\* A part of the queue.
LEMMA HasPart ==
  ASSUME NEW S, NEW q \in Seq(S), NEW m \in Nat \ {0}, NEW n \in Int, n <= Len(q), NEW M
  PROVE  /\ Has(SubSeq(q, m, n), M) => Has(q, M)
         /\ Lone(q, M) => Lone(SubSeq(q, m, n), M)
<1> DEFINE r == SubSeq(q, m, n)
<1>1. Len(q) \in Nat /\ DOMAIN q = 1..Len(q)
  BY LenProperties
<1>2. /\ DOMAIN r = 1..(IF m <= n THEN n - m + 1 ELSE 0)
      /\ \A i \in DOMAIN r : r[i] = q[m + i - 1]
  OBVIOUS
<1> HIDE DEF r
<1>3. \A i \in DOMAIN r : m + i - 1 \in DOMAIN q /\ r[i] = q[m + i - 1] /\ i \in Int
  BY <1>1, <1>2
<1>4. Has(r, M) => Has(q, M)
  BY <1>3 DEF Has
<1>5. ASSUME Lone(q, M) PROVE Lone(r, M)
  <2> SUFFICES ASSUME NEW i \in DOMAIN r, NEW j \in DOMAIN r, r[i] \in M, r[j] \in M
               PROVE  i = j
    BY DEF Lone
  <2>1. m + i - 1 = m + j - 1
    BY <1>3, <1>5 DEF Lone
  <2> QED
    BY <1>3, <2>1
<1> QED
  BY <1>4, <1>5 DEF r

\* Two queues one behind the other.
LEMMA HasBoth ==
  ASSUME NEW S, NEW q \in Seq(S), NEW r \in Seq(S), NEW M
  PROVE  /\ Has(q \o r, M) => Has(q, M) \/ Has(r, M)
         /\ Lone(q, M) /\ Lone(r, M) /\ ~(Has(q, M) /\ Has(r, M)) => Lone(q \o r, M)
<1> DEFINE t == q \o r
<1>1. /\ Len(q) \in Nat /\ DOMAIN q = 1..Len(q)
      /\ Len(r) \in Nat /\ DOMAIN r = 1..Len(r)
      /\ DOMAIN t = 1..(Len(q) + Len(r))
      /\ \A i \in 1..(Len(q) + Len(r)) : t[i] = IF i <= Len(q) THEN q[i] ELSE r[i - Len(q)]
  BY LenProperties, ConcatProperties
<1> HIDE DEF t
<1>2. \A i \in DOMAIN t : \/ i \in DOMAIN q /\ t[i] = q[i] /\ i \in Int
                          \/ i - Len(q) \in DOMAIN r /\ t[i] = r[i - Len(q)] /\ i \in Int
  BY <1>1
<1>3. Has(t, M) => Has(q, M) \/ Has(r, M)
  BY <1>2 DEF Has
<1>4. ASSUME Lone(q, M), Lone(r, M), ~(Has(q, M) /\ Has(r, M)) PROVE Lone(t, M)
  <2> SUFFICES ASSUME NEW i \in DOMAIN t, NEW j \in DOMAIN t, t[i] \in M, t[j] \in M
               PROVE  i = j
    BY DEF Lone
  <2>1. CASE i \in DOMAIN q /\ t[i] = q[i] /\ j \in DOMAIN q /\ t[j] = q[j]
    BY <1>4, <2>1 DEF Lone
  <2>2. CASE /\ i - Len(q) \in DOMAIN r /\ t[i] = r[i - Len(q)] /\ i \in Int
             /\ j - Len(q) \in DOMAIN r /\ t[j] = r[j - Len(q)] /\ j \in Int
    <3>1. i - Len(q) = j - Len(q)
      BY <1>4, <2>2 DEF Lone
    <3> QED
      BY <1>1, <2>2, <3>1
  <2> QED
    BY <1>2, <1>4, <2>1, <2>2 DEF Has
<1> QED
  BY <1>3, <1>4 DEF t

\* What is picked out for one receiver.
LEMMA HasTo ==
  ASSUME NEW S, NEW msgs \in Seq(S), NEW a, NEW M
  PROVE  /\ Has(To(a, msgs), M) => \E i \in DOMAIN msgs : msgs[i] \in M /\ msgs[i].to = a
         /\ Lone(msgs, M) => Lone(To(a, msgs), M)
<1> DEFINE D == {m \in Range(msgs) : m.to # a}
<1>0. \A i \in DOMAIN msgs : msgs[i] \notin D => msgs[i].to = a
  BY DEF Range
<1> HIDE DEF D
<1> DEFINE r == Without(msgs, D)
           e == [i \in 1..Len(r) |-> Nth(Kept(msgs, D), i)]
<1>1. /\ Len(r) \in Nat /\ r \in Seq(S)
      /\ e \in [1..Len(r) -> Kept(msgs, D)]
      /\ \A i \in 1..Len(r) : r[i] = msgs[e[i]]
      /\ \A i, j \in 1..Len(r) : i < j => e[i] < e[j]
  BY WithoutProperties
<1>2. DOMAIN r = 1..Len(r)
  BY <1>1, LenProperties
<1>3. DOMAIN msgs = 1..Len(msgs) /\ Len(msgs) \in Nat
  BY LenProperties
<1> HIDE DEF e, r
<1>4. \A i \in DOMAIN r : /\ e[i] \in DOMAIN msgs /\ e[i] \in Int /\ i \in Int
                          /\ r[i] = msgs[e[i]] /\ msgs[e[i]] \notin D
  BY <1>1, <1>2, <1>3 DEF Kept
<1>6. Has(r, M) => \E i \in DOMAIN msgs : msgs[i] \in M /\ msgs[i].to = a
  BY <1>0, <1>4 DEF Has
<1>7. ASSUME Lone(msgs, M) PROVE Lone(r, M)
  <2> SUFFICES ASSUME NEW i \in DOMAIN r, NEW j \in DOMAIN r, r[i] \in M, r[j] \in M, i # j
               PROVE  FALSE
    BY DEF Lone
  <2>1. e[i] = e[j]
    BY <1>4, <1>7 DEF Lone
  <2>2. e[i] < e[j] \/ e[j] < e[i]
    BY <1>1, <1>2, <1>4
  <2> QED
    BY <1>4, <2>1, <2>2
<1> QED
  BY <1>6, <1>7 DEF r, D, To

\* Each of these leaves a part of the queue.
LEMMA ThinnerSame ==
  ASSUME NEW q, NEW M
  PROVE  Thinner(q, q, M) /\ Thinner(<<>>, q, M)
BY DEF Thinner, Has, Lone

LEMMA ThinnerTail ==
  ASSUME NEW S, NEW q \in Seq(S), q # <<>>, NEW M
  PROVE  Thinner(Tail(q), q, M)
BY HasTail DEF Thinner

LEMMA ThinnerCut ==
  ASSUME NEW S, NEW q \in Seq(S), NEW n \in Nat, NEW M
  PROVE  /\ Thinner(SubSeq(q, n + 1, Len(q)), q, M)
         /\ Thinner(SubSeq(q, 1, Len(q) - n), q, M)
<1>1. Len(q) \in Nat
  BY LenProperties
<1>2. \A N : /\ Has(SubSeq(q, n + 1, Len(q)), N) => Has(q, N)
             /\ Lone(q, N) => Lone(SubSeq(q, n + 1, Len(q)), N)
  BY <1>1, HasPart
<1>3. \A N : /\ Has(SubSeq(q, 1, Len(q) - n), N) => Has(q, N)
             /\ Lone(q, N) => Lone(SubSeq(q, 1, Len(q) - n), N)
  BY <1>1, HasPart
<1> QED
  BY <1>2, <1>3 DEF Thinner

\* A message that is none of M.
LEMMA ThinnerOther ==
  ASSUME NEW S, NEW q \in Seq(S), NEW m, NEW M, m \notin M
  PROVE  Thinner(Append(q, m), q, M)
BY HasAppend DEF Thinner

LEMMA ThinnerBoth ==
  ASSUME NEW S, NEW q \in Seq(S), NEW r \in Seq(S), NEW M, ~Has(r, M)
  PROVE  Thinner(q \o r, q, M)
<1>1. ASSUME NEW N \in SUBSET M PROVE ~Has(r, N) /\ Lone(r, N)
  BY DEF Has, Lone
<1> QED
  BY <1>1, HasBoth DEF Thinner

-----------------------------------------------------------------------------
(* The places where a call can be *)

ToBe  == {"new", "waiting", "timeout"}
Tasks == [to : Workers, kind : {"REQUEST"}, request : Request]
Results == [kind : {"REPORT"}, request : Request]

Ask(c, k)    == [client |-> c, command |-> k]
AskOf(c, k)  == {Ask(c, k)}
AnswerOf(k)  == {k}
CallOf(k)    == [service : Services, command : {k}]
TaskOf(c, k) == [to : Workers, kind : {"REQUEST"}, request : {Ask(c, k)}]
ResultOf(c, k) == [kind : {"REPORT"}, request : {Ask(c, k)}]

\* What carries calls, in any state, reached or not.
Load ==
  [calls    : [Clients -> Seq(Asked)],
   requests : [Names -> Seq(Request)],
   toWorker : [Workers -> Seq(ToWorker)],
   hands    : [Processes -> Request \cup {Idle}],
   toBroker : [Workers -> Seq(ToBroker)],
   answers  : [Clients -> Seq(Commands)],
   outcome  : [Commands -> ToBe \cup Commands]]

Now == [calls |-> calls, requests |-> broker.requests, toWorker |-> toWorker,
        hands |-> [p \in Processes |-> worker[p].request],
        toBroker |-> toBroker, answers |-> answers, outcome |-> outcome]

Kinds  == {"calls", "requests", "toWorker", "hands", "toBroker", "answers", "outcome"}
Owners == Clients \cup Names \cup Workers \cup Processes \cup Commands

\* Is call k of client c in this queue, these hands or this result?
In(g, c, k, kind, x) ==
  \/ kind = "calls" /\ x = c /\ Has(g.calls[x], CallOf(k))
  \/ kind = "requests" /\ x \in Names /\ Has(g.requests[x], AskOf(c, k))
  \/ kind = "toWorker" /\ x \in Workers /\ Has(g.toWorker[x], TaskOf(c, k))
  \/ kind = "hands" /\ x \in Processes /\ g.hands[x] = Ask(c, k)
  \/ kind = "toBroker" /\ x \in Workers /\ Has(g.toBroker[x], ResultOf(c, k))
  \/ kind = "answers" /\ x = c /\ Has(g.answers[x], AnswerOf(k))
  \/ kind = "outcome" /\ x \in Commands /\ Asker[x] = c /\ g.outcome[x] = k

Carriers(g, c, k) == {z \in Kinds \X Owners : In(g, c, k, z[1], z[2])}

\* In each queue it is once at most.
LoneIn(g, c, k) ==
  /\ Lone(g.calls[c], CallOf(k))
  /\ \A s \in Names : Lone(g.requests[s], AskOf(c, k))
  /\ \A a \in Workers : /\ Lone(g.toWorker[a], TaskOf(c, k))
                        /\ Lone(g.toBroker[a], ResultOf(c, k))
  /\ Lone(g.answers[c], AnswerOf(k))

\* Before a worker takes the call.
Early == {"calls", "requests", "toWorker"}

(***************************************************************************)
(* A call is carried by one thing at most, which carries it once; only     *)
(* calls that have been made are carried, each for the client that made    *)
(* it; and one that a worker has yet to take has not been taken.           *)
(***************************************************************************)
Single(g, c, k) ==
  /\ \A x, y \in Carriers(g, c, k) : x = y
  /\ LoneIn(g, c, k)

Carried(g, done) ==
  \A c \in Clients, k \in Commands :
    /\ Single(g, c, k)
    /\ Carriers(g, c, k) # {} => c = Asker[k] /\ g.outcome[k] # "new"
    /\ \A x \in Carriers(g, c, k) : x[1] \in Early => k \notin done
    /\ g.outcome[k] = "new" => k \notin done

-----------------------------------------------------------------------------
(* Steps between loads *)

\* h is left of g when things get lost; a client may begin or stop to wait.
Shrinks(h, g) ==
  /\ \A c \in Clients : /\ Thinner(h.calls[c], g.calls[c], Asked)
                        /\ Thinner(h.answers[c], g.answers[c], Commands)
  /\ \A s \in Names : Thinner(h.requests[s], g.requests[s], Request)
  /\ \A a \in Workers : /\ Thinner(h.toWorker[a], g.toWorker[a], Tasks)
                        /\ Thinner(h.toBroker[a], g.toBroker[a], Results)
  /\ \A p \in Processes : h.hands[p] \in {g.hands[p], Idle}
  /\ \A k \in Commands : \/ h.outcome[k] = g.outcome[k]
                         \/ h.outcome[k] \in {"waiting", "timeout"}

\* The messages that a call can be are messages.
LEMMA Sorts ==
  ASSUME NEW c \in Clients, NEW k \in Commands
  PROVE  /\ CallOf(k) \in SUBSET Asked
         /\ Ask(c, k) \in Request /\ AskOf(c, k) \in SUBSET Request
         /\ TaskOf(c, k) \in SUBSET Tasks
         /\ ResultOf(c, k) \in SUBSET Results
         /\ AnswerOf(k) \in SUBSET Commands
         /\ Ask(c, k) # Idle
         /\ k \notin ToBe
<1>1. Ask(c, k) \in Request
  BY DEF Ask, Request
<1>2. TaskOf(c, k) \in SUBSET Tasks /\ ResultOf(c, k) \in SUBSET Results
  BY <1>1 DEF TaskOf, ResultOf, Tasks, Results
<1>3. CallOf(k) \in SUBSET Asked
  BY DEF CallOf, Asked
<1> QED
  BY <1>1, <1>2, <1>3, CompositionAssumption DEF ToBe, AskOf, AnswerOf

\* What is lost is not doubled.
LEMMA ShrinkKeeps ==
  ASSUME NEW g, NEW h, NEW done, Carried(g, done), Shrinks(h, g)
  PROVE  /\ Carried(h, done)
         /\ \A c \in Clients, k \in Commands : Carriers(h, c, k) \subseteq Carriers(g, c, k)
<1>1. ASSUME NEW c \in Clients, NEW k \in Commands
      PROVE  /\ Carriers(h, c, k) \subseteq Carriers(g, c, k)
             /\ LoneIn(g, c, k) => LoneIn(h, c, k)
  <2>1. /\ Has(h.calls[c], CallOf(k)) => Has(g.calls[c], CallOf(k))
        /\ Lone(g.calls[c], CallOf(k)) => Lone(h.calls[c], CallOf(k))
        /\ Has(h.answers[c], AnswerOf(k)) => Has(g.answers[c], AnswerOf(k))
        /\ Lone(g.answers[c], AnswerOf(k)) => Lone(h.answers[c], AnswerOf(k))
    BY Sorts DEF Shrinks, Thinner
  <2>2. \A s \in Names :
          /\ Has(h.requests[s], AskOf(c, k)) => Has(g.requests[s], AskOf(c, k))
          /\ Lone(g.requests[s], AskOf(c, k)) => Lone(h.requests[s], AskOf(c, k))
    BY Sorts DEF Shrinks, Thinner
  <2>3. \A a \in Workers :
          /\ Has(h.toWorker[a], TaskOf(c, k)) => Has(g.toWorker[a], TaskOf(c, k))
          /\ Lone(g.toWorker[a], TaskOf(c, k)) => Lone(h.toWorker[a], TaskOf(c, k))
          /\ Has(h.toBroker[a], ResultOf(c, k)) => Has(g.toBroker[a], ResultOf(c, k))
          /\ Lone(g.toBroker[a], ResultOf(c, k)) => Lone(h.toBroker[a], ResultOf(c, k))
    BY Sorts DEF Shrinks, Thinner
  <2>4. \A p \in Processes : h.hands[p] = Ask(c, k) => g.hands[p] = Ask(c, k)
    BY Sorts DEF Shrinks
  <2>5. \A x \in Commands : h.outcome[x] = k => g.outcome[x] = k
    BY Sorts DEF Shrinks, ToBe
  <2>6. Carriers(h, c, k) \subseteq Carriers(g, c, k)
    BY <2>1, <2>2, <2>3, <2>4, <2>5 DEF Carriers, In
  <2>7. LoneIn(g, c, k) => LoneIn(h, c, k)
    BY <2>1, <2>2, <2>3 DEF LoneIn
  <2> QED
    BY <2>6, <2>7
<1>2. \A k \in Commands : h.outcome[k] = "new" => g.outcome[k] = "new"
  BY DEF Shrinks
<1> QED
  BY <1>1, <1>2 DEF Carried, Single

\* A call that nothing carries, and that has been made, is put somewhere.
LEMMA PutKeeps ==
  ASSUME NEW h, NEW f, NEW done, Carried(h, done),
         NEW c \in Clients, NEW k \in Commands, c = Asker[k], Carriers(h, c, k) = {},
         h.outcome[k] # "new", NEW place, place[1] \in Early => k \notin done,
         Carriers(f, c, k) \subseteq {place},
         \A d \in Clients, x \in Commands :
           /\ ~(d = c /\ x = k) => Carriers(f, d, x) \subseteq Carriers(h, d, x)
           /\ LoneIn(f, d, x),
         \A x \in Commands : f.outcome[x] = "new" => h.outcome[x] = "new"
  PROVE  Carried(f, done)
BY DEF Carried, Single

\* A message at the end of a queue.
LEMMA EnqueueHas ==
  ASSUME NEW ch, NEW S, NEW x \in DOMAIN ch, NEW m, NEW y \in DOMAIN ch, ch[y] \in Seq(S),
         NEW M
  PROVE  /\ Has(Enqueue(ch, x, m)[y], M) => Has(ch[y], M) \/ (y = x /\ m \in M)
         /\ Lone(ch[y], M) /\ ~(m \in M /\ Has(ch[x], M)) => Lone(Enqueue(ch, x, m)[y], M)
<1>1. Enqueue(ch, x, m)[y] = IF y = x THEN Append(ch[y], m) ELSE ch[y]
  BY DEF Enqueue
<1> QED
  BY <1>1, HasAppend

-----------------------------------------------------------------------------
(* A call is put into each kind of place *)

\* Load f is load h but for one part, which has call k of client c more.
AllBut(f, h, part) == \A x \in Kinds \ {part} : f[x] = h[x]

AddCall(f, h, c, k, s) ==
  f.calls = Enqueue(h.calls, c, [service |-> s, command |-> k]) /\ AllBut(f, h, "calls")
AddRequest(f, h, c, k, s) ==
  f.requests = Enqueue(h.requests, s, Ask(c, k)) /\ AllBut(f, h, "requests")
AddResult(f, h, c, k, a) ==
  /\ f.toBroker = Enqueue(h.toBroker, a, [kind |-> "REPORT", request |-> Ask(c, k)])
  /\ AllBut(f, h, "toBroker")
AddAnswer(f, h, c, k) ==
  f.answers = Enqueue(h.answers, c, k) /\ AllBut(f, h, "answers")
AddToHands(f, h, c, k, p) ==
  f.hands = [h.hands EXCEPT ![p] = Ask(c, k)] /\ AllBut(f, h, "hands")
AddOutcome(f, h, c, k, x) ==
  f.outcome = [h.outcome EXCEPT ![x] = k] /\ AllBut(f, h, "outcome")

\* mdp_client_send puts a new call on the connection of its client.
LEMMA PutIntoCalls ==
  ASSUME NEW h \in Load, NEW done, Carried(h, done), NEW c \in Clients, NEW k \in Commands,
         c = Asker[k], Carriers(h, c, k) = {}, h.outcome[k] # "new", k \notin done,
         NEW s \in Services,
         NEW f, AddCall(f, h, c, k, s)
  PROVE  Carried(f, done)
<1> DEFINE m == [service |-> s, command |-> k]
           place == <<"calls", c>>
<1>1. /\ f.calls = Enqueue(h.calls, c, m)
      /\ f.requests = h.requests /\ f.toWorker = h.toWorker /\ f.hands = h.hands
      /\ f.toBroker = h.toBroker /\ f.answers = h.answers /\ f.outcome = h.outcome
      /\ DOMAIN h.calls = Clients /\ \A z \in Clients : h.calls[z] \in Seq(Asked)
  BY DEF Load, AddCall, AllBut, Kinds
<1>2. \A y : m \in CallOf(y) => y = k
  BY DEF CallOf
<1>3. ~Has(h.calls[c], CallOf(k))
  <2>1. <<"calls", c>> \in Kinds \X Owners
    BY DEF Kinds, Owners
  <2> QED
    BY <2>1 DEF Carriers, In
<1>4. place[1] \in Early => k \notin done
  BY DEF Early
<1>5. \A z \in Kinds \X Owners : z[1] = "calls" /\ z[2] = c => z \in {place}
  OBVIOUS
<1> HIDE DEF m, place
<1>6. ASSUME NEW d \in Clients, NEW y \in Commands
      PROVE  /\ Carriers(f, d, y) \subseteq Carriers(h, d, y) \cup {z \in {place} : d = c /\ y = k}
             /\ LoneIn(f, d, y)
  <2>1. Has(f.calls[d], CallOf(y)) =>
          Has(h.calls[d], CallOf(y)) \/ (d = c /\ y = k)
    <3>1. Has(Enqueue(h.calls, c, m)[d], CallOf(y)) =>
            Has(h.calls[d], CallOf(y)) \/ (d = c /\ m \in CallOf(y))
      BY <1>1, EnqueueHas
    <3> QED
      BY <1>1, <1>2, <3>1
  <2>2. Lone(h.calls[d], CallOf(y)) => Lone(f.calls[d], CallOf(y))
    <3>1. Lone(h.calls[d], CallOf(y)) /\ ~(m \in CallOf(y) /\ Has(h.calls[c], CallOf(y))) =>
            Lone(Enqueue(h.calls, c, m)[d], CallOf(y))
      BY <1>1, EnqueueHas
    <3> QED
      BY <1>1, <1>2, <1>3, <3>1
  <2>3. Carriers(f, d, y) \subseteq Carriers(h, d, y) \cup {z \in {place} : d = c /\ y = k}
    BY <1>1, <1>5, <2>1 DEF Carriers, In
  <2>4. LoneIn(h, d, y)
    BY DEF Carried, Single
  <2>5. LoneIn(f, d, y)
    BY <1>1, <2>2, <2>4 DEF LoneIn
  <2> QED
    BY <2>3, <2>5
<1>7. Carriers(f, c, k) \subseteq {place}
  BY <1>6
<1>8. \A d \in Clients, y \in Commands :
        /\ ~(d = c /\ y = k) => Carriers(f, d, y) \subseteq Carriers(h, d, y)
        /\ LoneIn(f, d, y)
  BY <1>6
<1> QED
  BY <1>1, <1>4, <1>7, <1>8, PutKeeps, ZenonT(40)

\* The broker queues it.
LEMMA PutIntoRequests ==
  ASSUME NEW h \in Load, NEW done, Carried(h, done), NEW c \in Clients, NEW k \in Commands,
         c = Asker[k], Carriers(h, c, k) = {}, h.outcome[k] # "new", k \notin done,
         NEW s \in Names,
         NEW f, AddRequest(f, h, c, k, s)
  PROVE  Carried(f, done)
<1> DEFINE m == Ask(c, k)
           place == <<"requests", s>>
<1>1. /\ f.requests = Enqueue(h.requests, s, m)
      /\ f.calls = h.calls /\ f.toWorker = h.toWorker /\ f.hands = h.hands
      /\ f.toBroker = h.toBroker /\ f.answers = h.answers /\ f.outcome = h.outcome
      /\ DOMAIN h.requests = Names /\ \A z \in Names : h.requests[z] \in Seq(Request)
  BY DEF Load, AddRequest, AllBut, Kinds
<1>2. \A d, y : m \in AskOf(d, y) => d = c /\ y = k
  BY DEF AskOf, Ask
<1>3. ~Has(h.requests[s], AskOf(c, k))
  <2>1. <<"requests", s>> \in Kinds \X Owners
    BY DEF Kinds, Owners
  <2> QED
    BY <2>1 DEF Carriers, In
<1>4. place[1] \in Early => k \notin done
  BY DEF Early
<1>5. \A z \in Kinds \X Owners : z[1] = "requests" /\ z[2] = s => z \in {place}
  OBVIOUS
<1> HIDE DEF m, place
<1>6. ASSUME NEW d \in Clients, NEW y \in Commands
      PROVE  /\ Carriers(f, d, y) \subseteq Carriers(h, d, y) \cup {z \in {place} : d = c /\ y = k}
             /\ LoneIn(f, d, y)
  <2>1. ASSUME NEW z \in Names
        PROVE  /\ Has(f.requests[z], AskOf(d, y)) =>
                    Has(h.requests[z], AskOf(d, y)) \/ (z = s /\ d = c /\ y = k)
               /\ Lone(h.requests[z], AskOf(d, y)) => Lone(f.requests[z], AskOf(d, y))
    <3>1. Has(Enqueue(h.requests, s, m)[z], AskOf(d, y)) =>
            Has(h.requests[z], AskOf(d, y)) \/ (z = s /\ m \in AskOf(d, y))
      BY <1>1, EnqueueHas
    <3>2. Lone(h.requests[z], AskOf(d, y)) /\ ~(m \in AskOf(d, y) /\ Has(h.requests[s], AskOf(d, y))) =>
            Lone(Enqueue(h.requests, s, m)[z], AskOf(d, y))
      BY <1>1, EnqueueHas
    <3> QED
      BY <1>1, <1>2, <1>3, <3>1, <3>2
  <2>2. Carriers(f, d, y) \subseteq Carriers(h, d, y) \cup {z \in {place} : d = c /\ y = k}
    BY <1>1, <1>5, <2>1 DEF Carriers, In
  <2>3. LoneIn(h, d, y)
    BY DEF Carried, Single
  <2>4. LoneIn(f, d, y)
    BY <1>1, <2>1, <2>3 DEF LoneIn
  <2> QED
    BY <2>2, <2>4
<1>7. Carriers(f, c, k) \subseteq {place}
  BY <1>6
<1>8. \A d \in Clients, y \in Commands :
        /\ ~(d = c /\ y = k) => Carriers(f, d, y) \subseteq Carriers(h, d, y)
        /\ LoneIn(f, d, y)
  BY <1>6
<1> QED
  BY <1>1, <1>4, <1>7, <1>8, PutKeeps

\* A worker reports it.
LEMMA PutIntoResults ==
  ASSUME NEW h \in Load, NEW done, Carried(h, done), NEW c \in Clients, NEW k \in Commands,
         c = Asker[k], Carriers(h, c, k) = {}, h.outcome[k] # "new", NEW a \in Workers,
         NEW f, AddResult(f, h, c, k, a)
  PROVE  Carried(f, done)
<1> DEFINE m == [kind |-> "REPORT", request |-> Ask(c, k)]
           place == <<"toBroker", a>>
<1>1. /\ f.toBroker = Enqueue(h.toBroker, a, m)
      /\ f.calls = h.calls /\ f.requests = h.requests /\ f.toWorker = h.toWorker
      /\ f.hands = h.hands /\ f.answers = h.answers /\ f.outcome = h.outcome
      /\ DOMAIN h.toBroker = Workers /\ \A z \in Workers : h.toBroker[z] \in Seq(ToBroker)
  BY DEF Load, AddResult, AllBut, Kinds
<1>2. \A d, y : m \in ResultOf(d, y) => d = c /\ y = k
  BY DEF ResultOf, Ask
<1>3. ~Has(h.toBroker[a], ResultOf(c, k))
  <2>1. <<"toBroker", a>> \in Kinds \X Owners
    BY DEF Kinds, Owners
  <2> QED
    BY <2>1 DEF Carriers, In
<1>4. place[1] \in Early => k \notin done
  BY DEF Early
<1>5. \A z \in Kinds \X Owners : z[1] = "toBroker" /\ z[2] = a => z \in {place}
  OBVIOUS
<1> HIDE DEF m, place
<1>6. ASSUME NEW d \in Clients, NEW y \in Commands
      PROVE  /\ Carriers(f, d, y) \subseteq Carriers(h, d, y) \cup {z \in {place} : d = c /\ y = k}
             /\ LoneIn(f, d, y)
  <2>1. ASSUME NEW z \in Workers
        PROVE  /\ Has(f.toBroker[z], ResultOf(d, y)) =>
                    Has(h.toBroker[z], ResultOf(d, y)) \/ (z = a /\ d = c /\ y = k)
               /\ Lone(h.toBroker[z], ResultOf(d, y)) => Lone(f.toBroker[z], ResultOf(d, y))
    <3>1. Has(Enqueue(h.toBroker, a, m)[z], ResultOf(d, y)) =>
            Has(h.toBroker[z], ResultOf(d, y)) \/ (z = a /\ m \in ResultOf(d, y))
      BY <1>1, EnqueueHas
    <3>2. Lone(h.toBroker[z], ResultOf(d, y)) /\ ~(m \in ResultOf(d, y) /\ Has(h.toBroker[a], ResultOf(d, y))) =>
            Lone(Enqueue(h.toBroker, a, m)[z], ResultOf(d, y))
      BY <1>1, EnqueueHas
    <3> QED
      BY <1>1, <1>2, <1>3, <3>1, <3>2
  <2>2. Carriers(f, d, y) \subseteq Carriers(h, d, y) \cup {z \in {place} : d = c /\ y = k}
    BY <1>1, <1>5, <2>1 DEF Carriers, In
  <2>3. LoneIn(h, d, y)
    BY DEF Carried, Single
  <2>4. LoneIn(f, d, y)
    BY <1>1, <2>1, <2>3 DEF LoneIn
  <2> QED
    BY <2>2, <2>4
<1>7. Carriers(f, c, k) \subseteq {place}
  BY <1>6
<1>8. \A d \in Clients, y \in Commands :
        /\ ~(d = c /\ y = k) => Carriers(f, d, y) \subseteq Carriers(h, d, y)
        /\ LoneIn(f, d, y)
  BY <1>6
<1> QED
  BY <1>1, <1>4, <1>7, <1>8, PutKeeps

\* The broker passes the report on.
LEMMA PutIntoAnswers ==
  ASSUME NEW h \in Load, NEW done, Carried(h, done), NEW c \in Clients, NEW k \in Commands,
         c = Asker[k], Carriers(h, c, k) = {}, h.outcome[k] # "new",
         NEW f, AddAnswer(f, h, c, k)
  PROVE  Carried(f, done)
<1> DEFINE m == k
           place == <<"answers", c>>
<1>1. /\ f.answers = Enqueue(h.answers, c, m)
      /\ f.calls = h.calls /\ f.requests = h.requests /\ f.toWorker = h.toWorker
      /\ f.hands = h.hands /\ f.toBroker = h.toBroker /\ f.outcome = h.outcome
      /\ DOMAIN h.answers = Clients /\ \A z \in Clients : h.answers[z] \in Seq(Commands)
  BY DEF Load, AddAnswer, AllBut, Kinds
<1>2. \A y : m \in AnswerOf(y) => y = k
  BY DEF AnswerOf
<1>3. ~Has(h.answers[c], AnswerOf(k))
  <2>1. <<"answers", c>> \in Kinds \X Owners
    BY DEF Kinds, Owners
  <2> QED
    BY <2>1 DEF Carriers, In
<1>4. place[1] \in Early => k \notin done
  BY DEF Early
<1>5. \A z \in Kinds \X Owners : z[1] = "answers" /\ z[2] = c => z \in {place}
  OBVIOUS
<1> HIDE DEF m, place
<1>6. ASSUME NEW d \in Clients, NEW y \in Commands
      PROVE  /\ Carriers(f, d, y) \subseteq Carriers(h, d, y) \cup {z \in {place} : d = c /\ y = k}
             /\ LoneIn(f, d, y)
  <2>1. Has(f.answers[d], AnswerOf(y)) =>
          Has(h.answers[d], AnswerOf(y)) \/ (d = c /\ y = k)
    <3>1. Has(Enqueue(h.answers, c, m)[d], AnswerOf(y)) =>
            Has(h.answers[d], AnswerOf(y)) \/ (d = c /\ m \in AnswerOf(y))
      BY <1>1, EnqueueHas
    <3> QED
      BY <1>1, <1>2, <3>1
  <2>2. Lone(h.answers[d], AnswerOf(y)) => Lone(f.answers[d], AnswerOf(y))
    <3>1. Lone(h.answers[d], AnswerOf(y)) /\ ~(m \in AnswerOf(y) /\ Has(h.answers[c], AnswerOf(y))) =>
            Lone(Enqueue(h.answers, c, m)[d], AnswerOf(y))
      BY <1>1, EnqueueHas
    <3> QED
      BY <1>1, <1>2, <1>3, <3>1
  <2>3. Carriers(f, d, y) \subseteq Carriers(h, d, y) \cup {z \in {place} : d = c /\ y = k}
    BY <1>1, <1>5, <2>1 DEF Carriers, In
  <2>4. LoneIn(h, d, y)
    BY DEF Carried, Single
  <2>5. LoneIn(f, d, y)
    BY <1>1, <2>2, <2>4 DEF LoneIn
  <2> QED
    BY <2>3, <2>5
<1>7. Carriers(f, c, k) \subseteq {place}
  BY <1>6
<1>8. \A d \in Clients, y \in Commands :
        /\ ~(d = c /\ y = k) => Carriers(f, d, y) \subseteq Carriers(h, d, y)
        /\ LoneIn(f, d, y)
  BY <1>6
<1> QED
  BY <1>1, <1>4, <1>7, <1>8, PutKeeps, ZenonT(40)

\* A worker takes it.
LEMMA PutIntoHands ==
  ASSUME NEW h \in Load, NEW done, Carried(h, done), NEW c \in Clients, NEW k \in Commands,
         c = Asker[k], Carriers(h, c, k) = {}, h.outcome[k] # "new", NEW p \in Processes,
         NEW f, AddToHands(f, h, c, k, p)
  PROVE  Carried(f, done)
<1> DEFINE place == <<"hands", p>>
<1>1. /\ \A z \in Processes : f.hands[z] = IF z = p THEN Ask(c, k) ELSE h.hands[z]
      /\ f.calls = h.calls /\ f.requests = h.requests /\ f.toWorker = h.toWorker
      /\ f.toBroker = h.toBroker /\ f.answers = h.answers /\ f.outcome = h.outcome
  BY DEF Load, AddToHands, AllBut, Kinds
<1>2. \A d, y : Ask(c, k) = Ask(d, y) => d = c /\ y = k
  BY Sorts DEF Ask, ToBe
<1>3. place[1] \in Early => k \notin done
  BY DEF Early
<1>4. \A z \in Kinds \X Owners : z[1] = "hands" /\ z[2] = p => z \in {place}
  OBVIOUS
<1> HIDE DEF place
<1>5. ASSUME NEW d \in Clients, NEW y \in Commands
      PROVE  /\ Carriers(f, d, y) \subseteq Carriers(h, d, y) \cup {z \in {place} : d = c /\ y = k}
             /\ LoneIn(f, d, y)
  <2>1. Carriers(f, d, y) \subseteq Carriers(h, d, y) \cup {z \in {place} : d = c /\ y = k}
    BY <1>1, <1>2, <1>4 DEF Carriers, In
  <2>2. LoneIn(f, d, y)
    BY <1>1 DEF Carried, Single, LoneIn
  <2> QED
    BY <2>1, <2>2
<1>6. Carriers(f, c, k) \subseteq {place}
  BY <1>5
<1>7. \A d \in Clients, y \in Commands :
        /\ ~(d = c /\ y = k) => Carriers(f, d, y) \subseteq Carriers(h, d, y)
        /\ LoneIn(f, d, y)
  BY <1>5
<1>8. \A y \in Commands : f.outcome[y] = "new" => h.outcome[y] = "new"
  BY <1>1, <1>2
<1> QED
  BY <1>3, <1>6, <1>7, <1>8, PutKeeps

\* mdp_client_recv returns it.
LEMMA PutIntoOutcome ==
  ASSUME NEW h \in Load, NEW done, Carried(h, done), NEW c \in Clients, NEW k \in Commands,
         c = Asker[k], Carriers(h, c, k) = {}, h.outcome[k] # "new", NEW x \in Commands, Asker[x] = c,
         NEW f, AddOutcome(f, h, c, k, x)
  PROVE  Carried(f, done)
<1> DEFINE place == <<"outcome", x>>
<1>1. /\ \A z \in Commands : f.outcome[z] = IF z = x THEN k ELSE h.outcome[z]
      /\ f.calls = h.calls /\ f.requests = h.requests /\ f.toWorker = h.toWorker
      /\ f.hands = h.hands /\ f.toBroker = h.toBroker /\ f.answers = h.answers
  BY DEF Load, AddOutcome, AllBut, Kinds
<1>2. k # "new" /\ k \in Commands
  BY Sorts DEF Ask, ToBe
<1>3. place[1] \in Early => k \notin done
  BY DEF Early
<1>4. \A z \in Kinds \X Owners : z[1] = "outcome" /\ z[2] = x => z \in {place}
  OBVIOUS
<1> HIDE DEF place
<1>5. ASSUME NEW d \in Clients, NEW y \in Commands
      PROVE  /\ Carriers(f, d, y) \subseteq Carriers(h, d, y) \cup {z \in {place} : d = c /\ y = k}
             /\ LoneIn(f, d, y)
  <2>1. Carriers(f, d, y) \subseteq Carriers(h, d, y) \cup {z \in {place} : d = c /\ y = k}
    BY <1>1, <1>2, <1>4 DEF Carriers, In
  <2>2. LoneIn(f, d, y)
    BY <1>1 DEF Carried, Single, LoneIn
  <2> QED
    BY <2>1, <2>2
<1>6. Carriers(f, c, k) \subseteq {place}
  BY <1>5
<1>7. \A d \in Clients, y \in Commands :
        /\ ~(d = c /\ y = k) => Carriers(f, d, y) \subseteq Carriers(h, d, y)
        /\ LoneIn(f, d, y)
  BY <1>5
<1>8. \A y \in Commands : f.outcome[y] = "new" => h.outcome[y] = "new"
  BY <1>1, <1>2
<1> QED
  BY <1>3, <1>6, <1>7, <1>8, PutKeeps

-----------------------------------------------------------------------------
(* A call is taken out of its place, or moves from the broker to a worker *)

\* What has lost the call it carried leaves nothing that carries it.
LEMMA TakeOut ==
  ASSUME NEW g, NEW h, NEW done, Carried(g, done), Shrinks(h, g),
         NEW c \in Clients, NEW k \in Commands,
         NEW z \in Carriers(g, c, k), z \notin Carriers(h, c, k)
  PROVE  /\ Carried(h, done)
         /\ Carriers(h, c, k) = {}
         /\ c = Asker[k] /\ h.outcome[k] # "new"
         /\ z[1] \in Early => k \notin done
<1>1. Carried(h, done) /\ Carriers(h, c, k) \subseteq Carriers(g, c, k)
  BY ShrinkKeeps
<1>2. Carriers(h, c, k) = {}
  BY <1>1 DEF Carried, Single
<1>3. c = Asker[k] /\ g.outcome[k] # "new" /\ (z[1] \in Early => k \notin done)
  BY DEF Carried
<1>4. h.outcome[k] # "new"
  BY <1>3 DEF Shrinks
<1> QED
  BY <1>1, <1>2, <1>3, <1>4

\* What a worker gets from an iteration: the tasks for it among those sent.
LEMMA DeliveredTasks ==
  ASSUME toWorker \in [Workers -> Seq(ToWorker)], IInv', Delivered, NEW a \in Workers,
         NEW M \in SUBSET Tasks
  PROVE  /\ Has(toWorker'[a], M) =>
              \/ Has(toWorker[a], M)
              \/ \E i \in DOMAIN sent'.work : sent'.work[i] \in M /\ sent'.work[i].to = a
         /\ Lone(toWorker[a], M) /\ Lone(sent'.work, M)
              /\ ~(Has(toWorker[a], M) /\ Has(sent'.work, M)) => Lone(toWorker'[a], M)
<1> DEFINE q == toWorker[a]
           w == To(a, sent'.work)
           o == To(a, sent'.other)
<1>1. sent'.work \in Seq(RequestMsg) /\ sent'.other \in Seq(WorkerMsg \cup ClientMsg)
  BY DEF IInv, TypeOK, Output
<1>2. q \in Seq(ToWorker) /\ w \in Seq(ToWorker) /\ o \in Seq(WorkerMsg)
  <2>1. \A m \in RequestMsg : m.to = a => m \in ToWorker
    BY DEF ToWorker
  <2>2. \A m \in WorkerMsg \cup ClientMsg : m.to = a => m \in WorkerMsg
    BY NamesAssumption DEF WorkerMsg, ClientMsg
  <2> QED
    BY <1>1, <2>1, <2>2, ToType
<1>3. o \in Seq(ToWorker) /\ ~Has(o, M) /\ Lone(o, M)
  <2>1. \A i \in DOMAIN o : o[i] \in WorkerMsg
    BY <1>2, LenProperties, ElementOfSeq
  <2>2. \A m \in WorkerMsg : m \notin M
    BY DEF WorkerMsg, Tasks
  <2>3. o \in Seq(ToWorker)
    BY <1>2 DEF ToWorker
  <2> QED
    BY <2>1, <2>2, <2>3 DEF Has, Lone
<1>4. toWorker'[a] = q \o w \o o \/ toWorker'[a] = <<>>
  BY DEF Delivered
<1>5. /\ Has(w, M) => \E i \in DOMAIN sent'.work : sent'.work[i] \in M /\ sent'.work[i].to = a
      /\ Lone(sent'.work, M) => Lone(w, M)
  BY <1>1, HasTo
<1> HIDE DEF q, w, o
<1>6. /\ Has(q \o w, M) => Has(q, M) \/ Has(w, M)
      /\ Lone(q, M) /\ Lone(w, M) /\ ~(Has(q, M) /\ Has(w, M)) => Lone(q \o w, M)
      /\ q \o w \in Seq(ToWorker)
  BY <1>2, HasBoth, ConcatProperties
<1>7. /\ Has(q \o w \o o, M) => Has(q \o w, M) \/ Has(o, M)
      /\ Lone(q \o w, M) /\ Lone(o, M) /\ ~(Has(q \o w, M) /\ Has(o, M)) => Lone(q \o w \o o, M)
  BY <1>3, <1>6, HasBoth
<1>8. ~Has(<<>>, M) /\ Lone(<<>>, M)
  BY DEF Has, Lone
<1>9. Has(w, M) => Has(sent'.work, M)
  BY <1>5 DEF Has
<1>10. Has(toWorker'[a], M) => Has(q, M) \/ Has(w, M)
  BY <1>3, <1>4, <1>6, <1>7, <1>8
<1>11. ASSUME Lone(q, M), Lone(sent'.work, M), ~(Has(q, M) /\ Has(sent'.work, M))
       PROVE  Lone(toWorker'[a], M)
  BY <1>3, <1>4, <1>5, <1>6, <1>7, <1>8, <1>9, <1>11
<1> QED
  BY <1>5, <1>10, <1>11 DEF q

\* An iteration that hands over no request adds no task.
LEMMA QuietDelivery ==
  ASSUME toWorker \in [Workers -> Seq(ToWorker)], IInv', Delivered, sent'.work = <<>>,
         NEW a \in Workers
  PROVE  Thinner(toWorker'[a], toWorker[a], Tasks)
<1>1. ASSUME NEW M \in SUBSET Tasks
      PROVE  /\ Has(toWorker'[a], M) => Has(toWorker[a], M)
             /\ Lone(toWorker[a], M) => Lone(toWorker'[a], M)
  <2>1. ~Has(sent'.work, M) /\ Lone(sent'.work, M) /\ DOMAIN sent'.work = {}
    BY DEF Has, Lone
  <2>2. Has(toWorker'[a], M) =>
          \/ Has(toWorker[a], M)
          \/ \E i \in DOMAIN sent'.work : sent'.work[i] \in M /\ sent'.work[i].to = a
    BY DeliveredTasks
  <2>3. Lone(toWorker[a], M) /\ Lone(sent'.work, M)
          /\ ~(Has(toWorker[a], M) /\ Has(sent'.work, M)) => Lone(toWorker'[a], M)
    BY DeliveredTasks
  <2> QED
    BY <2>1, <2>2, <2>3
<1> QED
  BY <1>1 DEF Thinner

\* The broker hands all requests of a service to its workers: each of them is now
\* on its way to one of these.
AfterHandOver(f, g) ==
  /\ f.requests = broker'.requests /\ f.toWorker = toWorker'
  /\ f.calls = g.calls /\ f.hands = g.hands /\ f.toBroker = g.toBroker
  /\ f.answers = g.answers /\ f.outcome = g.outcome

LEMMA HandOver ==
  ASSUME NEW g \in Load, NEW done, Carried(g, done), g.toWorker = toWorker,
         IInv', Delivered, NEW s \in Names,
         \A t \in Names : t # s => broker'.requests[t] = g.requests[t],
         broker'.requests[s] = <<>>, Len(sent'.work) = Len(g.requests[s]),
         \A i \in 1..Len(g.requests[s]) : sent'.work[i].request = g.requests[s][i],
         NEW f, AfterHandOver(f, g)
  PROVE  Carried(f, done)
<1> DEFINE q == g.requests[s]
           w == sent'.work
<1>1. /\ f.requests = broker'.requests /\ f.toWorker = toWorker'
      /\ f.calls = g.calls /\ f.hands = g.hands /\ f.toBroker = g.toBroker
      /\ f.answers = g.answers /\ f.outcome = g.outcome
      /\ q \in Seq(Request) /\ toWorker \in [Workers -> Seq(ToWorker)]
  BY DEF Load, AfterHandOver
<1>2. /\ DOMAIN w = DOMAIN q /\ \A i \in DOMAIN w : w[i].request = q[i]
      /\ broker'.requests[s] = <<>>
  <2>1. w \in Seq(RequestMsg)
    BY DEF IInv, TypeOK, Output
  <2> QED
    BY <1>1, <2>1, LenProperties
<1> HIDE DEF q, w
<1>3. ASSUME NEW d \in Clients, NEW y \in Commands
      PROVE  /\ Single(f, d, y)
             /\ Carriers(f, d, y) # {} => Carriers(g, d, y) # {}
             /\ \A x \in Carriers(f, d, y) :
                  x[1] \in Early => \E z \in Carriers(g, d, y) : z[1] \in Early
  <2> DEFINE T == TaskOf(d, y)
             R == AskOf(d, y)
  <2>1. \A m : m \in T => m.request \in R
    BY DEF TaskOf, AskOf
  <2>2. T \in SUBSET Tasks
    BY Sorts
  <2> HIDE DEF T, R
  <2>3. Has(w, T) => Has(q, R)
    BY <1>2, <2>1 DEF Has
  <2>4. Lone(q, R) => Lone(w, T)
    BY <1>2, <2>1 DEF Lone
  <2>5. ~Has(broker'.requests[s], R) /\ Lone(broker'.requests[s], R)
    BY <1>2 DEF Has, Lone
  <2>6. Has(q, R) => <<"requests", s>> \in Carriers(g, d, y)
    <3>1. <<"requests", s>> \in Kinds \X Owners
      BY DEF Kinds, Owners
    <3> QED
      BY <3>1 DEF Carriers, In, R, q
  <2>7. ASSUME NEW a \in Workers
        PROVE  Has(toWorker'[a], T) =>
                 Has(toWorker[a], T) \/ \E i \in DOMAIN w : w[i] \in T /\ w[i].to = a
    BY <1>1, <2>2, DeliveredTasks DEF w
  <2>8. ASSUME NEW a \in Workers
        PROVE  Lone(toWorker[a], T) /\ Lone(w, T) /\ ~(Has(toWorker[a], T) /\ Has(w, T))
                 => Lone(toWorker'[a], T)
    BY <1>1, <2>2, DeliveredTasks DEF w
  <2>9. Single(g, d, y) /\ Lone(w, T)
    BY <2>4 DEF Carried, Single, LoneIn, q, R
  <2>10. ASSUME Has(q, R)
         PROVE  \A a \in Workers : ~Has(toWorker[a], T)
    <3>1. ASSUME NEW a \in Workers, Has(toWorker[a], T)
          PROVE  <<"toWorker", a>> \in Carriers(g, d, y)
      <4>1. <<"toWorker", a>> \in Kinds \X Owners
        BY DEF Kinds, Owners
      <4> QED
        BY <3>1, <4>1 DEF Carriers, In, T
    <3>2. \A a : <<"toWorker", a>> # <<"requests", s>>
      OBVIOUS
    <3> QED
      BY <2>6, <2>9, <2>10, <3>1, <3>2 DEF Single
  <2>11. LoneIn(f, d, y)
    <3>1. \A a \in Workers : Lone(toWorker'[a], T)
      BY <1>1, <2>3, <2>8, <2>9, <2>10 DEF Single, LoneIn, T
    <3>2. \A t \in Names : Lone(broker'.requests[t], R)
      BY <2>5, <2>9 DEF Single, LoneIn, R
    <3> QED
      BY <1>1, <2>9, <3>1, <3>2 DEF Single, LoneIn, T, R
  <2>12. CASE ~Has(q, R)
    <3>1. \A a \in Workers : Has(toWorker'[a], T) => Has(toWorker[a], T)
      BY <2>3, <2>7, <2>12 DEF Has
    <3>2. \A t \in Names : Has(broker'.requests[t], R) => Has(g.requests[t], R)
      BY <2>5
    <3>3. Carriers(f, d, y) \subseteq Carriers(g, d, y)
      BY <1>1, <3>1, <3>2 DEF Carriers, In, T, R
    <3> QED
      BY <2>9, <2>11, <3>3 DEF Single
  <2>13. CASE Has(q, R)
    <3>1. ASSUME NEW x \in Carriers(f, d, y)
          PROVE  x[1] = "toWorker" /\ \E i \in DOMAIN w : w[i] \in T /\ w[i].to = x[2]
      <4>1. x \in Kinds \X Owners /\ x = <<x[1], x[2]>> /\ In(f, d, y, x[1], x[2])
        BY DEF Carriers
      <4>2. CASE x[1] = "toWorker"
        BY <1>1, <2>7, <2>10, <2>13, <4>1, <4>2 DEF In, T
      <4>3. CASE x[1] # "toWorker"
        <5>1. In(g, d, y, x[1], x[2])
          <6>1. \A t \in Names : Has(broker'.requests[t], R) => Has(g.requests[t], R)
            BY <2>5
          <6> QED
            BY <1>1, <4>1, <4>3, <6>1 DEF In, R
        <5>2. x \in Carriers(g, d, y)
          BY <4>1, <5>1 DEF Carriers
        <5>3. x = <<"requests", s>>
          BY <2>6, <2>9, <2>13, <5>2 DEF Single
        <5>4. Has(broker'.requests[s], R)
          BY <1>1, <4>1, <5>3 DEF In, R
        <5> QED
          BY <2>5, <5>4
      <4> QED
        BY <4>2, <4>3
    <3>2. \A x \in Carriers(f, d, y) : x = <<x[1], x[2]>>
      BY DEF Carriers
    <3>3. \A x, z \in Carriers(f, d, y) : x = z
      BY <2>9, <3>1, <3>2 DEF Lone
    <3>4. Single(f, d, y)
      BY <2>11, <3>3 DEF Single
    <3>5. <<"requests", s>>[1] \in Early
      BY DEF Early
    <3> QED
      BY <2>6, <2>13, <3>4, <3>5
  <2> QED
    BY <2>12, <2>13
<1> QED
  BY <1>1, <1>3 DEF Carried

\* A step that is a shrinking only.
LEMMA OnlyShrinks ==
  ASSUME Carried(Now, taken), Shrinks(Now', Now), UNCHANGED taken
  PROVE  Carried(Now', taken')
BY ShrinkKeeps

LEMMA NowIsLoad ==
  ASSUME SysInv
  PROVE  Now \in Load
<1>1. broker.requests \in [Names -> Seq(Request)]
  BY DEF SysInv, IInv, TypeOK, BrokerType
<1>2. \A p \in Processes : worker[p].request \in Request \cup {Idle}
  BY DEF SysInv, ProgramsOK, WorkerType
<1>3. [p \in Processes |-> worker[p].request] \in [Processes -> Request \cup {Idle}]
  BY <1>2
<1> QED
  BY <1>1, <1>3 DEF Now, Load, SysInv, ChannelsOK, ProgramsOK, ToBe

\* After s_service_dispatch the requests of the service wait as before, or are on
\* their way.
LEMMA DispatchCarries ==
  ASSUME NEW g \in Load, NEW done, Carried(g, done), g.toWorker = toWorker,
         IInv', Delivered, NEW b, Base(b), NEW s \in Names, Stranded(b) \subseteq {s},
         DispatchFrom(b, s), b.requests = g.requests, NEW f, AfterHandOver(f, g)
  PROVE  Carried(f, done)
<1>1. /\ \A t \in Names : t # s => broker'.requests[t] = g.requests[t]
      /\ \/ broker'.requests[s] = g.requests[s] /\ sent'.work = <<>>
         \/ /\ broker'.requests[s] = <<>>
            /\ Len(sent'.work) = Len(g.requests[s])
            /\ \A i \in 1..Len(sent'.work) : sent'.work[i].request = g.requests[s][i]
  BY DispatchIteration
<1>2. CASE broker'.requests[s] = g.requests[s] /\ sent'.work = <<>>
  <2>1. toWorker \in [Workers -> Seq(ToWorker)]
    BY DEF Load
  <2>2. \A a \in Workers : Thinner(toWorker'[a], toWorker[a], Tasks)
    BY <1>2, <2>1, QuietDelivery
  <2>3. /\ f.requests = broker'.requests /\ f.toWorker = toWorker'
        /\ f.calls = g.calls /\ f.hands = g.hands /\ f.toBroker = g.toBroker
        /\ f.answers = g.answers /\ f.outcome = g.outcome
    BY DEF Load, AfterHandOver
  <2>4. Shrinks(f, g)
    BY <1>1, <1>2, <2>2, <2>3, ThinnerSame DEF Shrinks
  <2> QED
    BY <2>4, ShrinkKeeps
<1>3. CASE /\ broker'.requests[s] = <<>>
           /\ Len(sent'.work) = Len(g.requests[s])
           /\ \A i \in 1..Len(sent'.work) : sent'.work[i].request = g.requests[s][i]
  BY <1>1, <1>3, HandOver
<1> QED
  BY <1>1, <1>2, <1>3

\* The iterations that send no request.
LEMMA QuietIterations ==
  ASSUME IInv, NEW a \in Workers,
         \/ ReadyAgain(a) \/ Heartbeat(a) \/ Unknown(a) \/ Disconnect(a) \/ NoMessage
         \/ \E c \in Clients : Report(a, c)
  PROVE  broker'.requests = broker.requests /\ sent'.work = <<>>
<1>1. Base(broker) /\ broker \in BrokerType /\ broker.known \in SUBSET Workers
  BY BaseFacts DEF IInv, Good
<1>2. CASE ReadyAgain(a) \/ Disconnect(a)
  <2>1. PICK D, other : /\ D \in SUBSET broker.known
                          /\ Finish(DeleteWorkers(broker, D), <<>>, other)
    BY <1>2 DEF ReadyAgain, Disconnect
  <2>2. Base(DeleteWorkers(broker, D)) /\ DeleteWorkers(broker, D).requests = broker.requests
    BY <1>1, <2>1, DeleteBase, DeleteFields
  <2> QED
    BY <2>1, <2>2, FinishFacts
<1>3. CASE Heartbeat(a)
  <2>1. Base(Refresh(broker, a)) /\ Refresh(broker, a).requests = broker.requests
    BY <1>1, <1>3, RefreshBase DEF Heartbeat, Refresh, BrokerType
  <2> QED
    BY <1>3, <2>1, FinishFacts DEF Heartbeat
<1>4. CASE Unknown(a) \/ NoMessage \/ \E c \in Clients : Report(a, c)
  <2>1. PICK other : Finish(broker, <<>>, other)
    BY <1>4 DEF Unknown, NoMessage, Report, Answer
  <2> QED
    BY <1>1, <2>1, FinishFacts
<1> QED
  BY <1>2, <1>3, <1>4

-----------------------------------------------------------------------------
(* The iterations of the broker *)

\* A client's request goes from the connection to the broker, and on to a worker.
LEMMA ClientMessageCarries ==
  ASSUME SysInv, IInv', Carried(Now, taken), NEW c \in Clients, HandleClient(c)
  PROVE  Carried(Now', taken')
<1> DEFINE m == Head(calls[c])
           s == m.service
           k == m.command
           z == <<"calls", c>>
           g == [Now EXCEPT !.calls = Dequeue(calls, c)]
           h == [g EXCEPT !.requests = Enqueue(broker.requests, s, Ask(c, k))]
           b == [broker EXCEPT !.requests[s] = Append(@, [client |-> c, command |-> k])]
<1>1. /\ calls \in [Clients -> Seq(Asked)] /\ calls[c] \in Seq(Asked) /\ calls[c] # <<>>
      /\ calls' = Dequeue(calls, c) /\ DispatchFrom(b, s) /\ Delivered
      /\ UNCHANGED <<toBroker, answers, worker, outcome, taken>>
  BY DEF SysInv, ChannelsOK, HandleClient, Submit, clients, history
<1>2. m \in Asked /\ Dequeue(calls, c) \in [Clients -> Seq(Asked)]
  BY <1>1, DequeueType
<1>3. s \in Services /\ s \in Names /\ k \in Commands /\ m \in CallOf(k)
  BY <1>2 DEF Asked, CallOf, Names
<1>4. Now \in Load /\ g \in Load
  BY <1>2, NowIsLoad DEF Load
<1> HIDE DEF m
<1>5. /\ g.calls = Dequeue(calls, c) /\ g.requests = broker.requests
      /\ g.toWorker = toWorker /\ g.hands = Now.hands /\ g.toBroker = toBroker
      /\ g.answers = answers /\ g.outcome = outcome
      /\ \A d \in Clients : g.calls[d] = IF d = c THEN Tail(calls[d]) ELSE calls[d]
  BY <1>1 DEF Now, Dequeue
<1>6. Shrinks(g, Now)
  <2>1. Thinner(Tail(calls[c]), calls[c], Asked)
    BY <1>1, ThinnerTail
  <2> QED
    BY <1>5, <2>1, ThinnerSame DEF Shrinks, Now
<1> HIDE DEF g
<1>7. z \in Carriers(Now, c, k) /\ z \notin Carriers(g, c, k)
  <2>1. Lone(calls[c], CallOf(k))
    BY <1>3 DEF Carried, Single, LoneIn, Now
  <2>2. Has(calls[c], CallOf(k)) /\ ~Has(Tail(calls[c]), CallOf(k))
    BY <1>1, <1>3, <2>1, HasTail DEF m
  <2>3. z \in Kinds \X Owners
    BY DEF Kinds, Owners
  <2> QED
    BY <1>5, <2>2, <2>3 DEF Carriers, In, Now
<1>8. /\ Carried(g, taken) /\ Carriers(g, c, k) = {}
      /\ c = Asker[k] /\ g.outcome[k] # "new" /\ k \notin taken
  BY <1>3, <1>6, <1>7, TakeOut DEF Early
<1>9. h \in Load /\ AddRequest(h, g, c, k, s)
  <2>1. Ask(c, k) \in Request
    BY <1>3, Sorts
  <2>2. broker.requests \in [Names -> Seq(Request)]
    BY <1>4 DEF Load, Now
  <2>3. Enqueue(broker.requests, s, Ask(c, k)) \in [Names -> Seq(Request)]
    BY <2>1, <2>2, EnqueueType
  <2> QED
    BY <1>4, <1>5, <2>3 DEF Load, AddRequest, AllBut, Kinds
<1>10. Carried(h, taken)
  BY <1>3, <1>4, <1>8, <1>9, PutIntoRequests
<1>11. /\ Base(b) /\ Stranded(b) \subseteq {s} /\ b.requests = h.requests
  <2>1. Base(broker) /\ Stranded(broker) = {} /\ broker \in BrokerType
    BY BaseFacts DEF SysInv, IInv, Good
  <2>2. PICK r \in Request : r = [client |-> c, command |-> k] /\ r = Ask(c, k)
    BY <1>3, Sorts DEF Ask
  <2>3. Base([broker EXCEPT !.requests[s] = Append(@, r)])
        /\ Stranded([broker EXCEPT !.requests[s] = Append(@, r)]) \subseteq {s}
    BY <1>3, <2>1, EnqueueBase
  <2>4. b.requests = Enqueue(broker.requests, s, r)
    BY <2>1, <2>2 DEF BrokerType, Enqueue
  <2>5. h.requests = Enqueue(broker.requests, s, r)
    BY <1>4, <2>2 DEF Load
  <2> QED
    BY <2>2, <2>3, <2>4, <2>5
<1>12. h.toWorker = toWorker /\ AfterHandOver(Now', h)
  <2>1. /\ h.calls = g.calls /\ h.toWorker = g.toWorker /\ h.hands = g.hands
        /\ h.toBroker = g.toBroker /\ h.answers = g.answers /\ h.outcome = g.outcome
    BY <1>4 DEF Load
  <2>2. AfterHandOver(Now', h)
    BY <1>1, <1>5, <2>1 DEF Now, AfterHandOver
  <2> QED
    BY <1>5, <2>1, <2>2
<1> HIDE DEF h, b
<1> QED
  BY <1>1, <1>3, <1>9, <1>10, <1>11, <1>12, DispatchCarries

\* A worker's READY may be followed by what has waited for it.
LEMMA ReadyCarries ==
  ASSUME SysInv, IInv', Carried(Now, taken), NEW a \in Workers, NEW s \in Offered,
         toBroker[a] # <<>>, toBroker' = Dequeue(toBroker, a), ReadyNew(a, s), Delivered,
         UNCHANGED <<calls, answers, worker, outcome, taken>>
  PROVE  Carried(Now', taken')
<1> DEFINE g == [Now EXCEPT !.toBroker = Dequeue(toBroker, a)]
           b == Attach(broker, a, s)
<1>1. /\ toBroker \in [Workers -> Seq(ToBroker)]
      /\ Dequeue(toBroker, a) \in [Workers -> Seq(ToBroker)]
  BY DequeueType DEF SysInv, ChannelsOK
<1>2. g \in Load
  BY <1>1, NowIsLoad DEF Load
<1>3. /\ g.calls = calls /\ g.requests = broker.requests /\ g.toWorker = toWorker
      /\ g.hands = Now.hands /\ g.toBroker = Dequeue(toBroker, a)
      /\ g.answers = answers /\ g.outcome = outcome
  BY DEF Now
<1> HIDE DEF g
<1>4. Shrinks(g, Now)
  <2>1. Thinner(Tail(toBroker[a]), toBroker[a], Results)
    BY <1>1, ThinnerTail
  <2>2. \A v \in Workers : Thinner(g.toBroker[v], toBroker[v], Results)
    BY <1>1, <1>3, <2>1, ThinnerSame DEF Dequeue
  <2> QED
    BY <1>3, <2>2, ThinnerSame DEF Shrinks, Now
<1>5. Carried(g, taken)
  BY <1>4, ShrinkKeeps
<1>6. s \in Names /\ a \in Workers \ broker.known
  BY NamesAssumption DEF ReadyNew
<1>7. Base(b) /\ Stranded(b) \subseteq {s} /\ b.requests = g.requests
  <2>1. Base(broker) /\ Stranded(broker) = {} /\ broker \in BrokerType
    BY BaseFacts DEF SysInv, IInv, Good
  <2>2. Base(b) /\ Stranded(b) \subseteq {s}
    BY <1>6, <2>1, AttachBase
  <2>3. b.requests = broker.requests
    BY <2>1 DEF Attach, BrokerType
  <2> QED
    BY <1>3, <2>2, <2>3
<1>8. AfterHandOver(Now', g)
  BY <1>3 DEF AfterHandOver, Now
<1>9. DispatchFrom(b, s)
  BY DEF ReadyNew
<1> HIDE DEF b
<1> QED
  BY <1>2, <1>3, <1>5, <1>6, <1>7, <1>8, <1>9, DispatchCarries

\* A REPORT goes from the worker to the client that it names.
LEMMA ReportCarries ==
  ASSUME SysInv, IInv', Carried(Now, taken), NEW a \in Workers, toBroker[a] # <<>>,
         toBroker' = Dequeue(toBroker, a), Delivered,
         NEW m, m = Head(toBroker[a]), m.kind = "REPORT", Report(a, m.request.client),
         answers' = Enqueue(answers, m.request.client, m.request.command),
         UNCHANGED <<calls, worker, outcome, taken>>
  PROVE  Carried(Now', taken')
<1> DEFINE c == m.request.client
           k == m.request.command
           z == <<"toBroker", a>>
           g == [Now EXCEPT !.toBroker = Dequeue(toBroker, a), !.toWorker = toWorker']
<1>1. /\ toBroker \in [Workers -> Seq(ToBroker)] /\ toBroker[a] \in Seq(ToBroker)
      /\ Dequeue(toBroker, a) \in [Workers -> Seq(ToBroker)]
      /\ m \in ToBroker /\ toWorker \in [Workers -> Seq(ToWorker)]
  BY DequeueType DEF SysInv, ChannelsOK
<1>2. m.request \in Request /\ m \in [kind : {"REPORT"}, request : Request]
  BY <1>1 DEF ToBroker
<1>3. c \in Clients /\ k \in Commands /\ m \in ResultOf(c, k)
  <2>1. c \in Clients /\ k \in Commands /\ m.request = Ask(c, k)
    BY <1>2 DEF Request, Ask
  <2> QED
    BY <1>2, <2>1 DEF ResultOf
<1>4. broker'.requests = broker.requests /\ sent'.work = <<>>
  BY <1>3, QuietIterations DEF SysInv
<1>5. g \in Load
  BY <1>1, NowIsLoad, DeliveredType DEF Load
<1>6. /\ g.calls = calls /\ g.requests = broker.requests /\ g.toWorker = toWorker'
      /\ g.hands = Now.hands /\ g.toBroker = Dequeue(toBroker, a)
      /\ g.answers = answers /\ g.outcome = outcome
      /\ \A v \in Workers : g.toBroker[v] = IF v = a THEN Tail(toBroker[v]) ELSE toBroker[v]
  BY <1>1 DEF Now, Dequeue
<1> HIDE DEF g, c, k
<1>7. Shrinks(g, Now)
  <2>1. Thinner(Tail(toBroker[a]), toBroker[a], Results)
    BY <1>1, ThinnerTail
  <2>2. \A v \in Workers : Thinner(g.toBroker[v], toBroker[v], Results)
    BY <1>6, <2>1, ThinnerSame
  <2>3. \A v \in Workers : Thinner(g.toWorker[v], toWorker[v], Tasks)
    BY <1>1, <1>4, <1>6, QuietDelivery
  <2> QED
    BY <1>6, <2>2, <2>3, ThinnerSame DEF Shrinks, Now
<1>8. z \in Carriers(Now, c, k) /\ z \notin Carriers(g, c, k)
  <2>1. Lone(toBroker[a], ResultOf(c, k))
    BY <1>3 DEF Carried, Single, LoneIn, Now
  <2>2. Has(toBroker[a], ResultOf(c, k)) /\ ~Has(Tail(toBroker[a]), ResultOf(c, k))
    BY <1>1, <1>3, <2>1, HasTail
  <2>3. z \in Kinds \X Owners
    BY DEF Kinds, Owners
  <2> QED
    BY <1>6, <2>2, <2>3 DEF Carriers, In, Now
<1>9. /\ Carried(g, taken) /\ Carriers(g, c, k) = {}
      /\ c = Asker[k] /\ g.outcome[k] # "new"
  BY <1>3, <1>7, <1>8, TakeOut
<1>10. AddAnswer(Now', g, c, k)
  BY <1>4, <1>6 DEF AddAnswer, AllBut, Kinds, Now, c, k
<1> QED
  BY <1>3, <1>5, <1>9, <1>10, PutIntoAnswers

LEMMA WorkerMessageCarries ==
  ASSUME SysInv, IInv', Carried(Now, taken), NEW a \in Workers, HandleWorker(a)
  PROVE  Carried(Now', taken')
<1> DEFINE m == Head(toBroker[a])
<1>1. /\ toBroker[a] # <<>> /\ toBroker' = Dequeue(toBroker, a) /\ Delivered
      /\ UNCHANGED <<calls, worker, outcome, taken>>
  BY DEF HandleWorker, clients
<1>2. toBroker \in [Workers -> Seq(ToBroker)] /\ m \in ToBroker
      /\ toWorker \in [Workers -> Seq(ToWorker)]
  BY <1>1, DequeueType DEF SysInv, ChannelsOK
<1>3. CASE m.kind = "READY" /\ ReadyNew(a, m.service) /\ UNCHANGED answers
  <2>1. m.service \in Offered
    BY <1>2, <1>3 DEF ToBroker
  <2> QED
    BY <1>1, <1>3, <2>1, ReadyCarries
<1>4. CASE /\ m.kind = "REPORT" /\ Report(a, m.request.client)
           /\ answers' = Enqueue(answers, m.request.client, m.request.command)
  BY <1>1, <1>4, ReportCarries
<1>5. CASE (ReadyAgain(a) \/ Heartbeat(a) \/ Unknown(a) \/ Disconnect(a)) /\ UNCHANGED answers
  <2>1. broker'.requests = broker.requests /\ sent'.work = <<>>
    BY <1>5, QuietIterations DEF SysInv
  <2>2. \A v \in Workers : Thinner(toWorker'[v], toWorker[v], Tasks)
    BY <1>1, <1>2, <2>1, QuietDelivery
  <2>3. Thinner(Tail(toBroker[a]), toBroker[a], Results)
    BY <1>1, <1>2, ThinnerTail
  <2>4. \A v \in Workers : Thinner(toBroker'[v], toBroker[v], Results)
    BY <1>1, <1>2, <2>3, ThinnerSame DEF Dequeue
  <2>5. Shrinks(Now', Now)
    BY <1>1, <1>5, <2>1, <2>2, <2>4, ThinnerSame DEF Shrinks, Now
  <2> QED
    BY <1>1, <2>5, OnlyShrinks
<1> QED
  BY <1>3, <1>4, <1>5 DEF HandleWorker

\* A broker that ends loses what it has, and some of what is on its way.
LEMMA StopCarries ==
  ASSUME SysInv, Carried(Now, taken), StopBroker
  PROVE  Carried(Now', taken')
<1>1. PICK n \in 0..MaxLost :
        /\ toBroker' = [a \in Workers |->
             IF Open(a) THEN SubSeq(toBroker[a], n + 1, Len(toBroker[a])) ELSE <<>>]
        /\ calls' = [c \in Clients |-> SubSeq(calls[c], n + 1, Len(calls[c]))]
  BY DEF StopBroker
<1>2. PICK k \in 0..MaxLost :
        /\ toWorker' = [a \in Workers |-> SubSeq(toWorker[a], 1, Len(toWorker[a]) - k)]
        /\ answers' = [c \in Clients |-> SubSeq(answers[c], 1, Len(answers[c]) - k)]
  BY DEF StopBroker
<1>3. /\ n \in Nat /\ k \in Nat
      /\ \A a \in Workers : toBroker[a] \in Seq(ToBroker) /\ toWorker[a] \in Seq(ToWorker)
      /\ \A c \in Clients : calls[c] \in Seq(Asked) /\ answers[c] \in Seq(Commands)
  BY DEF SysInv, ChannelsOK
<1>4. \A a \in Workers : Thinner(toBroker'[a], toBroker[a], Results)
  BY <1>1, <1>3, ThinnerCut, ThinnerSame
<1>5. \A c \in Clients : Thinner(calls'[c], calls[c], Asked)
  BY <1>1, <1>3, ThinnerCut
<1>6. \A a \in Workers : Thinner(toWorker'[a], toWorker[a], Tasks)
  BY <1>2, <1>3, ThinnerCut
<1>7. \A c \in Clients : Thinner(answers'[c], answers[c], Commands)
  BY <1>2, <1>3, ThinnerCut
<1>8. \A s \in Names : broker'.requests[s] = <<>>
  BY DEF StopBroker, Shutdown, NewBroker
<1>9. UNCHANGED <<worker, outcome, taken>>
  BY DEF StopBroker, clients, history
<1>10. Shrinks(Now', Now)
  BY <1>4, <1>5, <1>6, <1>7, <1>8, <1>9, ThinnerSame DEF Shrinks, Now
<1> QED
  BY <1>9, <1>10, OnlyShrinks

\* Its heartbeat, its start and the clock carry no call.
LEMMA OthersCarry ==
  ASSUME SysInv, IInv', Carried(Now, taken), BrokerHeartbeat \/ StartBroker \/ TimePasses
  PROVE  /\ Carried(Now', taken')
         /\ \A p \in Processes : worker'[p].request = worker[p].request
<1>1. CASE BrokerHeartbeat
  <2>1. ASSUME Workers = {} PROVE Carried(Now', taken')
    <3>1. Shrinks(Now', Now)
      <4>1. broker'.requests = broker.requests
        <5>1. Base(broker)
          BY DEF SysInv, IInv, Good
        <5> QED
          BY <1>1, <5>1, FinishFacts DEF BrokerHeartbeat, NoMessage
      <4> QED
        BY <1>1, <2>1, <4>1, ThinnerSame DEF BrokerHeartbeat, Shrinks, Now, clients, history
    <3> QED
      BY <1>1, <3>1, OnlyShrinks DEF BrokerHeartbeat, history
  <2>2. ASSUME NEW a \in Workers PROVE Carried(Now', taken')
    <3>1. broker'.requests = broker.requests /\ sent'.work = <<>>
      BY <1>1, QuietIterations DEF BrokerHeartbeat, SysInv
    <3>2. \A v \in Workers : Thinner(toWorker'[v], toWorker[v], Tasks)
      BY <1>1, <3>1, QuietDelivery DEF BrokerHeartbeat, SysInv, ChannelsOK
    <3>3. UNCHANGED <<toBroker, calls, answers, worker, outcome, taken>>
      BY <1>1 DEF BrokerHeartbeat, clients, history
    <3>4. Shrinks(Now', Now)
      BY <3>1, <3>2, <3>3, ThinnerSame DEF Shrinks, Now
    <3> QED
      BY <3>3, <3>4, OnlyShrinks
  <2> QED
    BY <1>1, <2>1, <2>2 DEF BrokerHeartbeat
<1>2. CASE StartBroker
  <2>1. Now' = Now /\ UNCHANGED <<taken, worker>>
    BY <1>2 DEF StartBroker, Start, network, clients, history, Now
  <2> QED
    BY <2>1
<1>3. CASE TimePasses
  <2>1. UNCHANGED <<toBroker, toWorker, calls, answers, outcome, taken>>
    BY <1>3 DEF TimePasses, network, history
  <2>2. broker'.requests = broker.requests
    <3>1. broker \in BrokerType
      BY DEF SysInv, IInv, TypeOK
    <3> QED
      BY <1>3, <3>1 DEF TimePasses, Tick, BrokerRests, vars, BrokerType
  <2>3. \A p \in Processes : worker'[p].request = worker[p].request
    <3>1. \A p \in Processes : worker[p] \in WorkerType
      BY DEF SysInv, ProgramsOK
    <3> QED
      BY <1>3, <3>1 DEF TimePasses, WorkerType
  <2>4. Shrinks(Now', Now)
    BY <2>1, <2>2, <2>3, ThinnerSame DEF Shrinks, Now
  <2> QED
    BY <2>1, <2>3, <2>4, OnlyShrinks
<1> QED
  BY <1>1, <1>2, <1>3

-----------------------------------------------------------------------------
(* The steps of the worker library *)

\* The request that mdp_worker_recv returns has not been taken before.
LEMMA TakeCarries ==
  ASSUME SysInv, Carried(Now, taken), NEW p \in Processes, TakeRequest(p), BrokerRests,
         UNCHANGED <<calls, answers, outcome>>
  PROVE  /\ Carried(Now', taken')
         /\ worker'[p].request.command \notin taken
         /\ \A q \in Processes : q # p => worker'[q].request = worker[q].request
<1> DEFINE a == worker[p].address
           m == Head(toWorker[a])
           c == m.request.client
           k == m.request.command
           z == <<"toWorker", a>>
           g == [Now EXCEPT !.toWorker = Dequeue(toWorker, a),
                            !.hands = [q \in Processes |-> IF q = p THEN Idle
                                                           ELSE worker[q].request]]
<1>1. /\ worker[p].at = "recv" /\ worker[p] \in WorkerType /\ a \in Workers
      /\ worker \in [Processes -> WorkerType]
  BY DEF TakeRequest, Reads, Inbox, SysInv, ProgramsOK, Working
<1>2. /\ Inbox(p) = toWorker[a] /\ toWorker[a] # <<>>
      /\ m.kind = "REQUEST" /\ toWorker' = Dequeue(toWorker, a)
      /\ worker' = [worker EXCEPT ![p].at = "busy", ![p].request = m.request,
                                  ![p].liveness = LIVENESS, ![p].timer = 0]
      /\ taken' = taken \cup {k} /\ UNCHANGED toBroker
  BY <1>1 DEF TakeRequest, Reads, Inbox
<1>3. /\ toWorker \in [Workers -> Seq(ToWorker)] /\ toWorker[a] \in Seq(ToWorker)
      /\ Dequeue(toWorker, a) \in [Workers -> Seq(ToWorker)] /\ m \in ToWorker
  BY <1>1, <1>2, DequeueType DEF SysInv, ChannelsOK
<1>4. m.request \in Request /\ m \in RequestMsg
  BY <1>2, <1>3 DEF ToWorker, RequestMsg, WorkerMsg
<1>5. c \in Clients /\ k \in Commands /\ m.request = Ask(c, k) /\ m \in TaskOf(c, k)
  <2>1. c \in Clients /\ k \in Commands /\ m.request = Ask(c, k)
    BY <1>4 DEF Request, Ask
  <2> QED
    BY <1>4, <2>1 DEF TaskOf, RequestMsg
<1>6. /\ worker'[p].request = Ask(c, k)
      /\ \A q \in Processes : q # p => worker'[q].request = worker[q].request
  BY <1>1, <1>2, <1>5, ZenonT(40) DEF WorkerType
<1>7. g \in Load
  <2>1. \A q \in Processes : worker[q].request \in Request \cup {Idle}
    BY <1>1 DEF WorkerType
  <2> QED
    BY <1>3, <2>1, NowIsLoad DEF Load
<1>8. /\ g.calls = calls /\ g.requests = broker.requests
      /\ g.toWorker = Dequeue(toWorker, a) /\ g.toBroker = toBroker
      /\ g.answers = answers /\ g.outcome = outcome
      /\ g.hands = [q \in Processes |-> IF q = p THEN Idle ELSE worker[q].request]
      /\ \A v \in Workers : g.toWorker[v] = IF v = a THEN Tail(toWorker[v]) ELSE toWorker[v]
  BY <1>3 DEF Now, Dequeue
<1> HIDE DEF a, m, g
<1>9. Shrinks(g, Now)
  <2>1. Thinner(Tail(toWorker[a]), toWorker[a], Tasks)
    BY <1>2, <1>3, ThinnerTail
  <2>2. \A v \in Workers : Thinner(g.toWorker[v], toWorker[v], Tasks)
    BY <1>8, <2>1, ThinnerSame
  <2>3. \A q \in Processes : g.hands[q] \in {Now.hands[q], Idle}
    BY <1>8 DEF Now
  <2> QED
    BY <1>8, <2>2, <2>3, ThinnerSame DEF Shrinks, Now
<1>10. z \in Carriers(Now, c, k) /\ z \notin Carriers(g, c, k)
  <2>1. Lone(toWorker[a], TaskOf(c, k))
    BY <1>1, <1>5 DEF Carried, Single, LoneIn, Now, a
  <2>2. Has(toWorker[a], TaskOf(c, k)) /\ ~Has(Tail(toWorker[a]), TaskOf(c, k))
    BY <1>2, <1>3, <1>5, <2>1, HasTail DEF m
  <2>3. z \in Kinds \X Owners /\ a \in Workers
    BY <1>1 DEF Kinds, Owners, a
  <2> QED
    BY <1>8, <2>2, <2>3 DEF Carriers, In, Now
<1>11. /\ Carried(g, taken) /\ Carriers(g, c, k) = {}
       /\ c = Asker[k] /\ g.outcome[k] # "new" /\ k \notin taken
  BY <1>5, <1>9, <1>10, TakeOut DEF Early
<1>12. AddToHands(Now', g, c, k, p)
  <2>1. Now'.hands = [g.hands EXCEPT ![p] = Ask(c, k)]
    BY <1>6, <1>8 DEF Now
  <2>2. UNCHANGED broker
    BY DEF BrokerRests, vars
  <2> QED
    BY <1>2, <1>8, <2>1, <2>2 DEF AddToHands, AllBut, Kinds, Now
<1>13. Carried(Now', taken)
  BY <1>5, <1>7, <1>11, <1>12, PutIntoHands
<1>14. ASSUME NEW d \in Clients
       PROVE  /\ \A x \in Carriers(Now', d, k) : x[1] \notin Early
              /\ Now'.outcome[k] # "new"
  <2>1. Now'.hands[p] = Ask(c, k) /\ Now'.outcome = g.outcome
    BY <1>6, <1>8 DEF Now
  <2>2. <<"hands", p>> \in Carriers(Now', c, k)
    <3>1. <<"hands", p>> \in Kinds \X Owners
      BY DEF Kinds, Owners
    <3> QED
      BY <2>1, <3>1 DEF Carriers, In
  <2>3. ASSUME NEW x \in Carriers(Now', d, k) PROVE x = <<"hands", p>>
    <3>1. d = c
      BY <1>5, <1>11, <1>13 DEF Carried
    <3> QED
      BY <1>5, <1>13, <2>2, <3>1 DEF Carried, Single
  <2> QED
    BY <1>11, <2>1, <2>3 DEF Early
<1>15. Carried(Now', taken')
  <2> DEFINE f == Now'
  <2>1. /\ Carried(f, taken) /\ taken' = taken \cup {k}
        /\ \A d \in Clients : \A x \in Carriers(f, d, k) : x[1] \notin Early
        /\ f.outcome[k] # "new"
    BY <1>2, <1>5, <1>13, <1>14 DEF k, m
  <2> HIDE DEF f
  <2>2. ASSUME NEW d \in Clients, NEW y \in Commands
        PROVE  /\ Single(f, d, y)
               /\ Carriers(f, d, y) # {} => d = Asker[y] /\ f.outcome[y] # "new"
               /\ \A x \in Carriers(f, d, y) : x[1] \in Early => y \notin taken
               /\ f.outcome[y] = "new" => y \notin taken
    BY <2>1 DEF Carried
  <2>3. ASSUME NEW y \in Commands, y # k PROVE y \notin taken => y \notin taken'
    BY <2>1, <2>3
  <2>4. ASSUME NEW d \in Clients, NEW y \in Commands
        PROVE  /\ \A x \in Carriers(f, d, y) : x[1] \in Early => y \notin taken'
               /\ f.outcome[y] = "new" => y \notin taken'
    <3>1. CASE y = k
      BY <2>1, <3>1
    <3>2. CASE y # k
      BY <2>2, <2>3, <3>2
    <3> QED
      BY <3>1, <3>2
  <2>5. Carried(f, taken')
    BY <2>2, <2>4 DEF Carried
  <2> QED
    BY <2>5 DEF f
<1> QED
  BY <1>6, <1>11, <1>15 DEF Ask

\* The report of a worker is the request that it has in hands.
LEMMA SendCarries ==
  ASSUME SysInv, Carried(Now, taken), NEW p \in Processes, SendReport(p), BrokerRests,
         UNCHANGED <<calls, answers, outcome>>
  PROVE  Carried(Now', taken')
<1> DEFINE a == worker[p].address
           r == worker[p].request
           c == r.client
           k == r.command
           z == <<"hands", p>>
           g == [Now EXCEPT !.hands = [q \in Processes |-> IF q = p THEN Idle
                                                           ELSE worker[q].request]]
<1>1. /\ worker[p].at = "busy" /\ worker[p] \in WorkerType /\ a \in Workers
      /\ worker \in [Processes -> WorkerType] /\ r \in Request
  BY DEF SendReport, SysInv, ProgramsOK, Working
<1>2. /\ toBroker' = Enqueue(toBroker, a, [kind |-> "REPORT", request |-> r])
      /\ worker' = [worker EXCEPT ![p].at = "recv", ![p].timer = INTERVAL,
                                  ![p].request = Idle]
      /\ UNCHANGED <<broker, toWorker, taken>>
  BY DEF SendReport, BrokerRests, vars, history
<1>3. c \in Clients /\ k \in Commands /\ r = Ask(c, k)
  BY <1>1 DEF Request, Ask
<1>4. \A q \in Processes :
        worker'[q].request = IF q = p THEN Idle ELSE worker[q].request
  BY <1>1, <1>2 DEF WorkerType
<1>5. g \in Load
  <2>1. \A q \in Processes : worker[q].request \in Request \cup {Idle}
    BY <1>1 DEF WorkerType
  <2> QED
    BY <2>1, NowIsLoad DEF Load
<1>6. /\ g.calls = calls /\ g.requests = broker.requests
      /\ g.toWorker = toWorker /\ g.toBroker = toBroker
      /\ g.answers = answers /\ g.outcome = outcome
      /\ g.hands = [q \in Processes |-> IF q = p THEN Idle ELSE worker[q].request]
  BY DEF Now
<1> HIDE DEF a, r, g, c, k
<1>7. Shrinks(g, Now)
  <2>1. \A q \in Processes : g.hands[q] \in {Now.hands[q], Idle}
    BY <1>6 DEF Now
  <2> QED
    BY <1>6, <2>1, ThinnerSame DEF Shrinks, Now
<1>8. z \in Carriers(Now, c, k) /\ z \notin Carriers(g, c, k)
  <2>1. z \in Kinds \X Owners
    BY DEF Kinds, Owners
  <2>2. Now.hands[p] = Ask(c, k)
    BY <1>3 DEF Now, r
  <2>3. g.hands[p] # Ask(c, k)
    BY <1>3, <1>6, Sorts
  <2> QED
    BY <2>1, <2>2, <2>3 DEF Carriers, In
<1>9. /\ Carried(g, taken) /\ Carriers(g, c, k) = {}
      /\ c = Asker[k] /\ g.outcome[k] # "new"
  BY <1>3, <1>7, <1>8, TakeOut
<1>10. AddResult(Now', g, c, k, a)
  <2>1. Now'.hands = g.hands
    BY <1>4, <1>6 DEF Now
  <2>2. /\ Now'.calls = g.calls /\ Now'.requests = g.requests
        /\ Now'.toWorker = g.toWorker
        /\ Now'.answers = g.answers /\ Now'.outcome = g.outcome
    BY <1>2, <1>6 DEF Now
  <2>3. Now'.toBroker = Enqueue(g.toBroker, a, [kind |-> "REPORT", request |-> Ask(c, k)])
    BY <1>2, <1>3, <1>6 DEF Now
  <2> QED
    BY <2>1, <2>2, <2>3 DEF AddResult, AllBut, Kinds
<1> QED
  BY <1>1, <1>2, <1>3, <1>5, <1>9, <1>10, PutIntoResults DEF a

\* A new connection carries nothing yet, and what was on the old one is lost.
LEMMA ConnectCarries ==
  ASSUME SysInv, Carried(Now, taken), NEW p \in Processes, Connect(p), BrokerRests,
         UNCHANGED <<calls, answers, outcome>>
  PROVE  /\ Carried(Now', taken')
         /\ \A q \in Processes : worker'[q].request \in {worker[q].request, Idle}
<1>1. PICK old \in {worker[p].address}, new \in {CHOOSE a \in Unused : TRUE},
           flushed \in BOOLEAN :
        /\ Unused # {}
        /\ flushed => status = "up" /\ old # NoAddress
        /\ worker' = [worker EXCEPT ![p] =
             [at |-> "recv", address |-> new, liveness |-> LIVENESS,
              timer |-> INTERVAL, heartbeatIn |-> INTERVAL, request |-> Idle]]
        /\ toWorker' = [a \in Workers |-> IF a = old THEN <<>> ELSE toWorker[a]]
        /\ toBroker' = [a \in Workers |->
             CASE a = new -> <<[kind |-> "READY", service |-> Serves[p]]>>
               [] a = old /\ ~flushed -> <<>>
               [] OTHER -> toBroker[a]]
        /\ UNCHANGED history
  BY DEF Connect
<1>2. UNCHANGED <<broker, calls, answers, outcome, taken>>
  BY <1>1 DEF BrokerRests, vars, history
<1>3. \A q \in Processes : worker'[q].request \in {worker[q].request, Idle}
  BY <1>1 DEF SysInv, ProgramsOK
<1>4. \A a \in Workers : Thinner(toWorker'[a], toWorker[a], Tasks)
  BY <1>1, ThinnerSame
<1>5. \A a \in Workers : Thinner(toBroker'[a], toBroker[a], Results)
  <2> DEFINE ready == <<[kind |-> "READY", service |-> Serves[p]]>>
  <2>1. DOMAIN ready = {1} /\ ready[1] \notin Results
    BY DEF Results
  <2>2. \A a \in Workers : Thinner(ready, toBroker[a], Results)
    <3> HIDE DEF ready
    <3> QED
      BY <2>1 DEF Thinner, Has, Lone
  <2>3. \A a \in Workers : toBroker'[a] \in {ready, <<>>, toBroker[a]}
    BY <1>1
  <2> QED
    BY <2>2, <2>3, ThinnerSame
<1>6. Shrinks(Now', Now)
  BY <1>2, <1>3, <1>4, <1>5, ThinnerSame DEF Shrinks, Now
<1> QED
  BY <1>2, <1>3, <1>6, OnlyShrinks

\* The other turns of mdp_worker_recv send a HEARTBEAT at most.
LEMMA PollCarries ==
  ASSUME SysInv, Carried(Now, taken), NEW p \in Processes,
         TakeHeartbeat(p) \/ PollTimesOut(p) \/ GiveUpOnBroker(p), BrokerRests,
         UNCHANGED <<calls, answers, outcome>>
  PROVE  /\ Carried(Now', taken')
         /\ \A q \in Processes : worker'[q].request = worker[q].request
<1> DEFINE a == worker[p].address
<1>1. /\ worker[p] \in WorkerType /\ worker \in [Processes -> WorkerType]
      /\ worker[p].at = "recv" /\ a \in Workers
  BY DEF TakeHeartbeat, Reads, Inbox, PollTimesOut, GiveUpOnBroker, NothingCame,
         SysInv, ProgramsOK, Working
<1>2. UNCHANGED <<broker, calls, answers, outcome, taken>>
  BY DEF BrokerRests, vars, history, TakeHeartbeat, PollTimesOut, GiveUpOnBroker
<1>3. \A q \in Processes : worker'[q].request = worker[q].request
  BY <1>1 DEF TakeHeartbeat, PollTimesOut, GiveUpOnBroker, PollAgain, WorkerType
<1>4. /\ toWorker \in [Workers -> Seq(ToWorker)] /\ toBroker \in [Workers -> Seq(ToBroker)]
      /\ \/ toWorker' = toWorker
         \/ toWorker[a] # <<>> /\ toWorker' = Dequeue(toWorker, a)
      /\ \/ toBroker' = toBroker
         \/ toBroker' = Enqueue(toBroker, a, [kind |-> "HEARTBEAT"])
  BY <1>1 DEF SysInv, ChannelsOK, TakeHeartbeat, Reads, Inbox, PollTimesOut, GiveUpOnBroker,
              PollAgain
<1> HIDE DEF a
<1>5. \A v \in Workers : Thinner(toWorker'[v], toWorker[v], Tasks)
  <2>1. toWorker[a] # <<>> => Thinner(Tail(toWorker[a]), toWorker[a], Tasks)
    BY <1>1, <1>4, ThinnerTail DEF a
  <2> QED
    BY <1>4, <2>1, ThinnerSame DEF Dequeue
<1>6. \A v \in Workers : Thinner(toBroker'[v], toBroker[v], Results)
  <2>1. [kind |-> "HEARTBEAT"] \notin Results
    BY DEF Results
  <2>2. \A v \in Workers : Thinner(Append(toBroker[v], [kind |-> "HEARTBEAT"]), toBroker[v], Results)
    BY <1>4, <2>1, ThinnerOther
  <2>3. \A v \in Workers : toBroker'[v] \in {toBroker[v], Append(toBroker[v], [kind |-> "HEARTBEAT"])}
    BY <1>4 DEF Enqueue
  <2> QED
    BY <2>2, <2>3, ThinnerSame
<1>7. Shrinks(Now', Now)
  BY <1>2, <1>3, <1>5, <1>6, ThinnerSame DEF Shrinks, Now
<1> QED
  BY <1>2, <1>3, <1>7, OnlyShrinks

\* A process that ends loses what it has, and its connection what it carries.
LEMMA EndCarries ==
  ASSUME SysInv, Carried(Now, taken), NEW p \in Processes, WorkerEnds(p)
  PROVE  /\ Carried(Now', taken')
         /\ \A q \in Processes : worker'[q].request \in {worker[q].request, Idle}
<1> DEFINE a == worker[p].address
<1>1. PICK last : /\ last \in Seq(ToBroker) /\ ~Has(last, Results)
                  /\ Ends(p, last)
  <2>1. [kind |-> "DISCONNECT"] \in ToBroker /\ [kind |-> "DISCONNECT"] \notin Results
    BY DEF ToBroker, Results
  <2>2. <<[kind |-> "DISCONNECT"]>> \in Seq(ToBroker) /\ <<>> \in Seq(ToBroker)
    BY <2>1, EmptySeq
  <2>3. ~Has(<<>>, Results) /\ ~Has(<<[kind |-> "DISCONNECT"]>>, Results)
    BY <2>1 DEF Has
  <2> QED
    BY <2>2, <2>3 DEF WorkerEnds, Interrupt, Crash
<1>2. PICK flushed \in BOOLEAN :
        /\ toBroker' = [toBroker EXCEPT ![a] = IF flushed THEN @ \o last ELSE <<>>]
        /\ toWorker' = [toWorker EXCEPT ![a] = <<>>]
        /\ worker' = [worker EXCEPT ![p] = Down]
  BY <1>1 DEF Ends
<1>3. UNCHANGED <<broker, calls, answers, outcome, taken>>
  BY DEF WorkerEnds, BrokerRests, vars, clients, history
<1>4. /\ toWorker \in [Workers -> Seq(ToWorker)] /\ toBroker \in [Workers -> Seq(ToBroker)]
      /\ worker \in [Processes -> WorkerType]
  BY DEF SysInv, ChannelsOK, ProgramsOK
<1>5. \A q \in Processes : worker'[q].request \in {worker[q].request, Idle}
  BY <1>2, <1>4 DEF Down
<1> HIDE DEF a
<1>6. \A v \in Workers : Thinner(toWorker'[v], toWorker[v], Tasks)
  <2>1. \A v \in Workers : toWorker'[v] \in {toWorker[v], <<>>}
    BY <1>2, <1>4
  <2> QED
    BY <2>1, ThinnerSame
<1>7. \A v \in Workers : Thinner(toBroker'[v], toBroker[v], Results)
  <2>1. \A v \in Workers : toBroker'[v] \in {toBroker[v], toBroker[v] \o last, <<>>}
    BY <1>2, <1>4
  <2>2. \A v \in Workers : Thinner(toBroker[v] \o last, toBroker[v], Results)
    BY <1>1, <1>4, ThinnerBoth
  <2> QED
    BY <2>1, <2>2, ThinnerSame
<1>8. Shrinks(Now', Now)
  BY <1>3, <1>5, <1>6, <1>7, ThinnerSame DEF Shrinks, Now
<1> QED
  BY <1>3, <1>5, <1>8, OnlyShrinks

-----------------------------------------------------------------------------
(* The steps of the client library *)

LEMMA CallCarries ==
  ASSUME SysInv, Carried(Now, taken), NEW k \in Commands, NEW s \in Services, Call(k, s),
         BrokerRests, UNCHANGED <<toBroker, toWorker, worker, taken>>
  PROVE  Carried(Now', taken')
<1> DEFINE c == Asker[k]
           g == [Now EXCEPT !.outcome = outcome']
<1>1. /\ outcome[k] = "new" /\ outcome' = [outcome EXCEPT ![k] = "waiting"]
      /\ calls' = Enqueue(calls, c, [service |-> s, command |-> k])
      /\ UNCHANGED <<broker, answers>>
      /\ outcome \in [Commands -> ToBe \cup Commands] /\ c \in Clients
  BY CompositionAssumption
     DEF Call, BrokerRests, vars, SysInv, ProgramsOK, ToBe
<1>2. g \in Load
  <2>1. outcome' \in [Commands -> ToBe \cup Commands]
    BY <1>1 DEF ToBe
  <2> QED
    BY <2>1, NowIsLoad DEF Load
<1>3. /\ g.calls = calls /\ g.requests = broker.requests /\ g.toWorker = toWorker
      /\ g.hands = Now.hands /\ g.toBroker = toBroker /\ g.answers = answers
      /\ g.outcome = outcome'
  BY DEF Now
<1> HIDE DEF g, c
<1>4. Shrinks(g, Now)
  <2>1. \A x \in Commands : g.outcome[x] = outcome[x] \/ g.outcome[x] = "waiting"
    BY <1>1, <1>3
  <2> QED
    BY <1>3, <2>1, ThinnerSame DEF Shrinks, Now
<1>5. Carriers(Now, c, k) = {} /\ k \notin taken
  BY <1>1 DEF Carried, Now
<1>6. Carried(g, taken) /\ Carriers(g, c, k) = {} /\ g.outcome[k] # "new"
  BY <1>1, <1>3, <1>4, <1>5, ShrinkKeeps
<1>7. AddCall(Now', g, c, k, s)
  <2>1. /\ Now'.requests = g.requests /\ Now'.toWorker = g.toWorker /\ Now'.hands = g.hands
        /\ Now'.toBroker = g.toBroker /\ Now'.answers = g.answers /\ Now'.outcome = g.outcome
    BY <1>1, <1>3 DEF Now
  <2>2. Now'.calls = Enqueue(g.calls, c, [service |-> s, command |-> k])
    BY <1>1, <1>3 DEF Now
  <2> QED
    BY <2>1, <2>2 DEF AddCall, AllBut, Kinds
<1> QED
  BY <1>1, <1>2, <1>5, <1>6, <1>7, PutIntoCalls DEF c

\* Call k returns the answer to call j, which nothing else carries.
LEMMA ReturnCarries ==
  ASSUME SysInv, Carried(Now, taken), NEW k \in Commands, Return(k),
         BrokerRests, UNCHANGED <<toBroker, toWorker, worker, taken>>,
         NEW j, j = Head(answers[Asker[k]])
  PROVE  /\ Carried(Now', taken')
         /\ j \in Commands /\ Asker[j] = Asker[k]
         /\ outcome[j] # "new" /\ outcome[j] # j
<1> DEFINE c == Asker[k]
           z == <<"answers", c>>
           g == [Now EXCEPT !.answers = Dequeue(answers, c)]
<1>1. /\ answers[c] # <<>> /\ outcome' = [outcome EXCEPT ![k] = j]
      /\ answers' = Dequeue(answers, c) /\ UNCHANGED <<broker, calls>>
      /\ c \in Clients
  BY CompositionAssumption DEF Return, BrokerRests, vars
<1>2. /\ answers \in [Clients -> Seq(Commands)] /\ answers[c] \in Seq(Commands)
      /\ Dequeue(answers, c) \in [Clients -> Seq(Commands)] /\ j \in Commands
  BY <1>1, DequeueType DEF SysInv, ChannelsOK
<1>3. g \in Load
  BY <1>2, NowIsLoad DEF Load
<1>4. /\ g.calls = calls /\ g.requests = broker.requests /\ g.toWorker = toWorker
      /\ g.hands = Now.hands /\ g.toBroker = toBroker /\ g.outcome = outcome
      /\ g.answers = Dequeue(answers, c)
      /\ \A d \in Clients : g.answers[d] = IF d = c THEN Tail(answers[d]) ELSE answers[d]
  BY <1>2 DEF Now, Dequeue
<1> HIDE DEF g, c
<1>5. Shrinks(g, Now)
  <2>1. Thinner(Tail(answers[c]), answers[c], Commands)
    BY <1>1, <1>2, ThinnerTail
  <2> QED
    BY <1>4, <2>1, ThinnerSame DEF Shrinks, Now
<1>6. z \in Carriers(Now, c, j) /\ z \notin Carriers(g, c, j)
  <2>1. Lone(answers[c], AnswerOf(j)) /\ j \in AnswerOf(j)
    BY <1>1, <1>2 DEF Carried, Single, LoneIn, Now, AnswerOf
  <2>2. Has(answers[c], AnswerOf(j)) /\ ~Has(Tail(answers[c]), AnswerOf(j))
    BY <1>1, <1>2, <2>1, HasTail DEF c
  <2>3. z \in Kinds \X Owners
    BY <1>1 DEF Kinds, Owners
  <2> QED
    BY <1>1, <1>4, <2>2, <2>3 DEF Carriers, In, Now
<1>7. /\ Carried(g, taken) /\ Carriers(g, c, j) = {}
      /\ c = Asker[j] /\ g.outcome[j] # "new"
  BY <1>1, <1>2, <1>5, <1>6, TakeOut
<1>8. AddOutcome(Now', g, c, j, k)
  BY <1>1, <1>4 DEF AddOutcome, AllBut, Kinds, Now
<1>9. Carried(Now', taken)
  BY <1>1, <1>2, <1>3, <1>7, <1>8, PutIntoOutcome DEF c
<1>10. outcome[j] # j
  <2>1. <<"outcome", j>> \in Kinds \X Owners
    BY <1>2 DEF Kinds, Owners
  <2>2. outcome[j] = j => <<"outcome", j>> \in Carriers(g, c, j)
    BY <1>2, <1>4, <1>7, <2>1 DEF Carriers, In
  <2> QED
    BY <1>7, <2>2
<1> QED
  BY <1>2, <1>4, <1>7, <1>9, <1>10 DEF c

LEMMA ClientCarries ==
  ASSUME SysInv, Carried(Now, taken), NEW k \in Commands, ClientRuns(k)
  PROVE  Carried(Now', taken')
<1>1. BrokerRests /\ UNCHANGED <<broker, toBroker, toWorker, worker, taken>>
  BY DEF ClientRuns, history, BrokerRests, vars
<1>2. ASSUME NEW s \in Services, Call(k, s) PROVE Carried(Now', taken')
  BY <1>1, <1>2, CallCarries
<1>3. CASE Return(k)
  BY <1>1, <1>3, ReturnCarries
<1>4. CASE TimeOut(k)
  <2>1. outcome' = [outcome EXCEPT ![k] = "timeout"] /\ UNCHANGED <<calls, answers>>
    BY <1>4 DEF TimeOut
  <2>2. \A x \in Commands : outcome'[x] = outcome[x] \/ outcome'[x] = "timeout"
    BY <2>1 DEF SysInv, ProgramsOK
  <2>3. Shrinks(Now', Now)
    BY <1>1, <2>1, <2>2, ThinnerSame DEF Shrinks, Now
  <2> QED
    BY <1>1, <2>3, OnlyShrinks
<1> QED
  BY <1>2, <1>3, <1>4 DEF ClientRuns

-----------------------------------------------------------------------------
(* The invariants *)

\* Nothing is on its way when the system starts.
LEMMA InitiallyCarried == SystemInit => Carried(Now, taken)
<1> SUFFICES ASSUME SystemInit PROVE Carried(Now, taken)
  OBVIOUS
<1>1. ASSUME NEW M PROVE ~Has(<<>>, M) /\ Lone(<<>>, M)
  BY DEF Has, Lone
<1>2. /\ \A c \in Clients : calls[c] = <<>> /\ answers[c] = <<>>
      /\ \A s \in Names : broker.requests[s] = <<>>
      /\ \A a \in Workers : toWorker[a] = <<>> /\ toBroker[a] = <<>>
      /\ \A p \in Processes : worker[p].request = Idle
      /\ \A k \in Commands : outcome[k] = "new"
      /\ taken = {}
  BY DEF SystemInit, Init, NewBroker, Down
<1>3. ASSUME NEW c \in Clients, NEW k \in Commands
      PROVE  Carriers(Now, c, k) = {} /\ LoneIn(Now, c, k)
  <2>1. Ask(c, k) # Idle /\ k # "new"
    BY Sorts DEF ToBe
  <2>2. Carriers(Now, c, k) = {}
    BY <1>1, <1>2, <2>1 DEF Carriers, In, Now
  <2>3. LoneIn(Now, c, k)
    BY <1>1, <1>2 DEF LoneIn, Now
  <2> QED
    BY <2>2, <2>3
<1> QED
  BY <1>2, <1>3 DEF Carried, Single

\* Each step takes a call from one place to another, or drops it; and a worker that
\* has a new request in hands has one that nobody has taken.
LEMMA StepCarries ==
  ASSUME SysInv, Carried(Now, taken), [SystemNext]_all
  PROVE  /\ Carried(Now', taken')
         /\ \A p \in Processes :
              worker'[p].request \notin {worker[p].request, Idle} =>
                worker'[p].request.command \notin taken
<1> DEFINE G == \A p \in Processes :
                  worker'[p].request \notin {worker[p].request, Idle} =>
                    worker'[p].request.command \notin taken
<1>1. IInv'
  BY BrokerSteps, Inductive DEF SysInv
<1>2. ASSUME NEW a \in Workers, HandleWorker(a) PROVE Carried(Now', taken') /\ G
  <2>1. UNCHANGED worker
    BY <1>2 DEF HandleWorker
  <2> QED
    BY <1>1, <1>2, <2>1, WorkerMessageCarries
<1>3. ASSUME NEW c \in Clients, HandleClient(c) PROVE Carried(Now', taken') /\ G
  <2>1. UNCHANGED worker
    BY <1>3 DEF HandleClient
  <2> QED
    BY <1>1, <1>3, <2>1, ClientMessageCarries
<1>4. CASE BrokerHeartbeat \/ StartBroker \/ TimePasses
  BY <1>1, <1>4, OthersCarry
<1>5. CASE StopBroker
  <2>1. UNCHANGED worker
    BY <1>5 DEF StopBroker
  <2> QED
    BY <1>5, <2>1, StopCarries
<1>6. ASSUME NEW p \in Processes, WorkerRuns(p) PROVE Carried(Now', taken') /\ G
  <2>1. BrokerRests /\ UNCHANGED <<calls, answers, outcome>>
    BY <1>6 DEF WorkerRuns, clients
  <2>2. CASE TakeRequest(p)
    BY <2>1, <2>2, TakeCarries
  <2>3. CASE TakeHeartbeat(p) \/ PollTimesOut(p) \/ GiveUpOnBroker(p)
    BY <2>1, <2>3, PollCarries
  <2>4. CASE SendReport(p)
    <3>1. \A q \in Processes : worker'[q].request \in {worker[q].request, Idle}
      BY <2>4 DEF SendReport, SysInv, ProgramsOK, WorkerType
    <3> QED
      BY <2>1, <2>4, <3>1, SendCarries
  <2>5. CASE Connect(p)
    BY <2>1, <2>5, ConnectCarries
  <2> QED
    BY <1>6, <2>2, <2>3, <2>4, <2>5 DEF WorkerRuns, TakeDisconnect, WakeUp, StartWorker
<1>7. ASSUME NEW p \in Processes, WorkerEnds(p) PROVE Carried(Now', taken') /\ G
  BY <1>7, EndCarries
<1>8. ASSUME NEW k \in Commands, ClientRuns(k) PROVE Carried(Now', taken') /\ G
  <2>1. UNCHANGED worker
    BY <1>8 DEF ClientRuns
  <2> QED
    BY <1>8, <2>1, ClientCarries
<1>9. CASE UNCHANGED all
  <2>1. Now' = Now /\ UNCHANGED <<taken, worker>>
    BY <1>9 DEF all, vars, network, clients, history, Now
  <2> QED
    BY <2>1
<1> QED
  BY <1>2, <1>3, <1>4, <1>5, <1>6, <1>7, <1>8, <1>9 DEF SystemNext, BrokerRuns

\* In every state of the composition each call is in one place at most.
THEOREM CallsCarried == System => [](SysInv /\ Carried(Now, taken))
<1>1. SysInv /\ Carried(Now, taken) /\ [SystemNext]_all => (Carried(Now, taken))'
  <2> SUFFICES ASSUME SysInv, Carried(Now, taken), [SystemNext]_all
               PROVE  Carried(Now', taken')
    BY DEF Carried, Single, Carriers, LoneIn, In, Now
  <2> QED
    BY StepCarries
<1> QED
  BY <1>1, InitiallyCarried, SystemInitial, SystemInductive, PTL DEF System

-----------------------------------------------------------------------------
(* From what carries a call to its copies *)

Queues == {"calls", "requests", "toWorker", "toBroker", "answers"}

\* What call k of client c looks like in a queue.
FormOf(kind, c, k) ==
  CASE kind = "calls"    -> CallOf(k)
    [] kind = "requests" -> AskOf(c, k)
    [] kind = "toWorker" -> TaskOf(c, k)
    [] kind = "toBroker" -> ResultOf(c, k)
    [] kind = "answers"  -> AnswerOf(k)

\* A copy in a queue stands at one of its places; a copy elsewhere is a carrier.
Placed(x, kind, o, i, k) ==
  /\ x = <<kind, <<o, i>>>>
  /\ i \in DOMAIN Now[kind][o] /\ Now[kind][o][i] \in FormOf(kind, Asker[k], k)
  /\ <<kind, o>> \in Carriers(Now, Asker[k], k)

\* A queue that carries a call does so at one place.
LEMMA OnePlace ==
  ASSUME NEW c \in Clients, NEW k \in Commands, Single(Now, c, k), NEW kind \in Queues, NEW o,
         <<kind, o>> \in Carriers(Now, c, k)
  PROVE  Lone(Now[kind][o], FormOf(kind, c, k))
<1>1. /\ LoneIn(Now, c, k) /\ In(Now, c, k, kind, o)
  BY DEF Single, Carriers
<1>2. CASE kind = "calls"
  BY <1>1, <1>2 DEF In, LoneIn, FormOf
<1>3. CASE kind = "requests"
  BY <1>1, <1>3 DEF In, LoneIn, FormOf
<1>4. CASE kind = "toWorker"
  BY <1>1, <1>4 DEF In, LoneIn, FormOf
<1>5. CASE kind = "toBroker"
  BY <1>1, <1>5 DEF In, LoneIn, FormOf
<1>6. CASE kind = "answers"
  BY <1>1, <1>6 DEF In, LoneIn, FormOf
<1> QED
  BY <1>2, <1>3, <1>4, <1>5, <1>6 DEF Queues

\* The members of Places.
LEMMA PlaceIn ==
  ASSUME NEW tag, NEW queues, NEW M, NEW x \in {tag} \X Places(queues, M)
  PROVE  \E o \in DOMAIN queues : \E n \in DOMAIN queues[o] :
           x = <<tag, <<o, n>>>> /\ queues[o][n] \in M
<1>1. PICK y \in Places(queues, M) : x = <<tag, y>>
  OBVIOUS
<1>2. PICK o \in DOMAIN queues :
        \E n \in {j \in DOMAIN queues[o] : queues[o][j] \in M} : y = <<o, n>>
  BY DEF Places
<1> QED
  BY <1>1, <1>2

LEMMA CopyIsCarried ==
  ASSUME SysInv, Carried(Now, taken), NEW k \in Commands, NEW x \in Copies(k)
  PROVE  \/ \E kind \in Queues : \E o, i : Placed(x, kind, o, i, k)
         \/ x[1] \in {"hands", "outcome"} /\ x \in Carriers(Now, Asker[k], k)
<1> DEFINE asked == [client : Clients, command : {k}]
<1>1. \A r \in asked : \E c \in Clients : r = Ask(c, k)
  BY DEF Ask
<1>2. /\ DOMAIN calls = Clients /\ DOMAIN broker.requests = Names
      /\ DOMAIN toWorker = Workers /\ DOMAIN toBroker = Workers /\ DOMAIN answers = Clients
  BY DEF SysInv, ChannelsOK, IInv, TypeOK, BrokerType
<1>3. ASSUME NEW c \in Clients, NEW z \in Carriers(Now, c, k) PROVE c = Asker[k]
  BY <1>3 DEF Carried
<1>4. \A kind \in Kinds, o \in Owners : <<kind, o>> \in Kinds \X Owners
  OBVIOUS
<1>5. CASE x \in {"calls"} \X Places(calls, [service : Services, command : {k}])
  <2> DEFINE M == [service : Services, command : {k}]
  <2> HIDE DEF M
  <2>1. x \in {"calls"} \X Places(calls, M)
    BY <1>5 DEF M
  <2>2. PICK o \in Clients : \E n \in DOMAIN calls[o] :
          x = <<"calls", <<o, n>>>> /\ calls[o][n] \in M
    BY <1>2, <2>1, PlaceIn
  <2>3. PICK i \in DOMAIN calls[o] :
          /\ x = <<"calls", <<o, i>>>>
          /\ calls[o][i] \in CallOf(k)
    BY <2>2 DEF M, CallOf
  <2>4. <<"calls", o>> \in Carriers(Now, o, k)
    BY <1>4, <2>3 DEF Carriers, In, Has, Now, Kinds, Owners
  <2>5. o = Asker[k]
    BY <1>3, <2>4
  <2>6. Placed(x, "calls", o, i, k)
    BY <2>3, <2>4, <2>5 DEF Placed, FormOf, Now
  <2> QED
    BY <2>6 DEF Queues
<1>6. CASE x \in {"requests"} \X Places(broker.requests, asked)
  <2> DEFINE M == asked
  <2> HIDE DEF M
  <2>1. x \in {"requests"} \X Places(broker.requests, M)
    BY <1>6 DEF M
  <2>2. PICK o \in Names : \E n \in DOMAIN broker.requests[o] :
          x = <<"requests", <<o, n>>>> /\ broker.requests[o][n] \in M
    BY <1>2, <2>1, PlaceIn
  <2>3. PICK i \in DOMAIN broker.requests[o] :
          /\ x = <<"requests", <<o, i>>>>
          /\ broker.requests[o][i] \in asked
    BY <2>2 DEF M
  <2>4. PICK c \in Clients : broker.requests[o][i] = Ask(c, k)
    BY <1>1, <2>3
  <2>5. broker.requests[o][i] \in AskOf(c, k)
    BY <2>4 DEF AskOf
  <2>6. <<"requests", o>> \in Carriers(Now, c, k)
    BY <1>4, <2>5 DEF Carriers, In, Has, Now, Kinds, Owners
  <2>7. c = Asker[k]
    BY <1>3, <2>6
  <2>8. Placed(x, "requests", o, i, k)
    BY <2>3, <2>5, <2>6, <2>7 DEF Placed, FormOf, Now
  <2> QED
    BY <2>8 DEF Queues
<1>7. CASE x \in {"toWorker"} \X
                   Places(toWorker, [to : Workers, kind : {"REQUEST"}, request : asked])
  <2> DEFINE M == [to : Workers, kind : {"REQUEST"}, request : asked]
  <2> HIDE DEF M
  <2>1. x \in {"toWorker"} \X Places(toWorker, M)
    BY <1>7 DEF M
  <2>2. PICK o \in Workers : \E n \in DOMAIN toWorker[o] :
          x = <<"toWorker", <<o, n>>>> /\ toWorker[o][n] \in M
    BY <1>2, <2>1, PlaceIn
  <2>3. PICK i \in DOMAIN toWorker[o] :
          /\ x = <<"toWorker", <<o, i>>>>
          /\ toWorker[o][i] \in [to : Workers, kind : {"REQUEST"}, request : asked]
    BY <2>2 DEF M
  <2>4. PICK c \in Clients : toWorker[o][i].request = Ask(c, k)
    BY <1>1, <2>3
  <2>5. toWorker[o][i] \in TaskOf(c, k)
    BY <2>3, <2>4 DEF TaskOf
  <2>6. <<"toWorker", o>> \in Carriers(Now, c, k)
    BY <1>4, <2>5 DEF Carriers, In, Has, Now, Kinds, Owners
  <2>7. c = Asker[k]
    BY <1>3, <2>6
  <2>8. Placed(x, "toWorker", o, i, k)
    BY <2>3, <2>5, <2>6, <2>7 DEF Placed, FormOf, Now
  <2> QED
    BY <2>8 DEF Queues
<1>8. CASE x \in {"toBroker"} \X Places(toBroker, [kind : {"REPORT"}, request : asked])
  <2> DEFINE M == [kind : {"REPORT"}, request : asked]
  <2> HIDE DEF M
  <2>1. x \in {"toBroker"} \X Places(toBroker, M)
    BY <1>8 DEF M
  <2>2. PICK o \in Workers : \E n \in DOMAIN toBroker[o] :
          x = <<"toBroker", <<o, n>>>> /\ toBroker[o][n] \in M
    BY <1>2, <2>1, PlaceIn
  <2>3. PICK i \in DOMAIN toBroker[o] :
          /\ x = <<"toBroker", <<o, i>>>>
          /\ toBroker[o][i] \in [kind : {"REPORT"}, request : asked]
    BY <2>2 DEF M
  <2>4. PICK c \in Clients : toBroker[o][i].request = Ask(c, k)
    BY <1>1, <2>3
  <2>5. toBroker[o][i] \in ResultOf(c, k)
    BY <2>3, <2>4 DEF ResultOf
  <2>6. <<"toBroker", o>> \in Carriers(Now, c, k)
    BY <1>4, <2>5 DEF Carriers, In, Has, Now, Kinds, Owners
  <2>7. c = Asker[k]
    BY <1>3, <2>6
  <2>8. Placed(x, "toBroker", o, i, k)
    BY <2>3, <2>5, <2>6, <2>7 DEF Placed, FormOf, Now
  <2> QED
    BY <2>8 DEF Queues
<1>9. CASE x \in {"answers"} \X Places(answers, {k})
  <2>1. PICK o \in Clients :
          \E n \in DOMAIN answers[o] :
            x = <<"answers", <<o, n>>>> /\ answers[o][n] \in AnswerOf(k)
    BY <1>2, <1>9, PlaceIn DEF AnswerOf
  <2>2. PICK i \in DOMAIN answers[o] :
          x = <<"answers", <<o, i>>>> /\ answers[o][i] \in AnswerOf(k)
    BY <2>1
  <2>3. <<"answers", o>> \in Carriers(Now, o, k)
    BY <1>4, <2>2 DEF Carriers, In, Has, Now, Kinds, Owners
  <2>4. o = Asker[k]
    BY <1>3, <2>3
  <2>5. Placed(x, "answers", o, i, k)
    BY <2>2, <2>3, <2>4 DEF Placed, FormOf, Now
  <2> QED
    BY <2>5 DEF Queues
<1>10. CASE x \in {"hands"} \X {p \in Processes : worker[p].request \in asked}
  <2>1. PICK p \in Processes : x = <<"hands", p>> /\ worker[p].request \in asked
    BY <1>10
  <2>2. PICK c \in Clients : worker[p].request = Ask(c, k)
    BY <1>1, <2>1
  <2>3. x \in Carriers(Now, c, k)
    BY <1>4, <2>1, <2>2 DEF Carriers, In, Now, Kinds, Owners
  <2> QED
    BY <1>3, <2>1, <2>3
<1>11. CASE x \in {"outcome"} \X {y \in Commands : outcome[y] = k}
  <2>1. PICK y \in Commands : x = <<"outcome", y>> /\ outcome[y] = k
    BY <1>11
  <2>2. Asker[y] \in Clients
    BY CompositionAssumption
  <2>3. x \in Carriers(Now, Asker[y], k)
    BY <1>4, <2>1 DEF Carriers, In, Now, Kinds, Owners
  <2> QED
    BY <1>3, <2>1, <2>2, <2>3
<1> QED
  BY <1>5, <1>6, <1>7, <1>8, <1>9, <1>10, <1>11 DEF Copies

LEMMA NoDoubles ==
  ASSUME SysInv, Carried(Now, taken)
  PROVE  CallsAreNotDoubled
<1> SUFFICES ASSUME NEW k \in Commands, NEW x \in Copies(k), NEW y \in Copies(k)
             PROVE  x = y
  BY DEF CallsAreNotDoubled
<1> DEFINE c == Asker[k]
<1>1. Single(Now, c, k) /\ c \in Clients
  BY CompositionAssumption DEF Carried
<1>2. \A z, v \in Carriers(Now, c, k) : z = v
  BY <1>1 DEF Single
<1>3. \/ \E kind \in Queues : \E o, i : Placed(x, kind, o, i, k)
      \/ x[1] \in {"hands", "outcome"} /\ x \in Carriers(Now, c, k)
  BY CopyIsCarried
<1>4. \/ \E kind \in Queues : \E o, i : Placed(y, kind, o, i, k)
      \/ y[1] \in {"hands", "outcome"} /\ y \in Carriers(Now, c, k)
  BY CopyIsCarried
<1>5. ASSUME NEW kind \in Queues, NEW o, NEW z \in Carriers(Now, c, k),
             <<kind, o>> \in Carriers(Now, c, k)
      PROVE  z[1] \notin {"hands", "outcome"}
  <2>1. z = <<kind, o>>
    BY <1>2, <1>5
  <2> QED
    BY <2>1 DEF Queues
<1>6. ASSUME NEW kx \in Queues, NEW ox, NEW ix, Placed(x, kx, ox, ix, k),
             NEW ky \in Queues, NEW oy, NEW iy, Placed(y, ky, oy, iy, k)
      PROVE  x = y
  <2>1. <<kx, ox>> = <<ky, oy>>
    BY <1>2, <1>6 DEF Placed
  <2>2. Lone(Now[kx][ox], FormOf(kx, c, k))
    BY <1>1, <1>6, OnePlace DEF Placed
  <2>3. ix = iy
    BY <1>6, <2>1, <2>2 DEF Placed, Lone
  <2> QED
    BY <1>6, <2>1, <2>3 DEF Placed
<1> QED
  BY <1>2, <1>3, <1>4, <1>5, <1>6 DEF Placed

\* No interleaving of reconnections, purges, restarts and late messages makes two of
\* one call.
THEOREM NeverDoubled == System => []CallsAreNotDoubled
BY CallsCarried, NoDoubles, PTL

\* No worker takes a request that a worker has taken before, not even from the next
\* broker or on its next connection.
THEOREM NeverExecutedTwice == System => ExecutedOnce
<1>1. SysInv /\ Carried(Now, taken) /\ [SystemNext]_all =>
        [\A p \in Processes :
           worker'[p].request \notin {worker[p].request, Idle} =>
             worker'[p].request.command \notin taken]_all
  BY StepCarries
<1> QED
  BY <1>1, CallsCarried, PTL DEF System, ExecutedOnce

-----------------------------------------------------------------------------
(* The answers that mdp_client_recv returns *)

\* A session waits for one answer at a time.
OneWaits ==
  \A j, k \in Commands :
    outcome[j] = "waiting" /\ outcome[k] = "waiting" /\ Asker[j] = Asker[k] => j = k

\* A call of the session that gave up on its answer.
GaveUp(c) == \E x \in Commands : Asker[x] = c /\ outcome[x] = "timeout"

LateOnly ==
  \A k \in Commands : outcome[k] \in Commands \ {k} => GaveUp(Asker[k])

LEMMA ReturnFits ==
  ASSUME SysInv, Carried(Now, taken), OneWaits, LateOnly, NEW k \in Commands, Return(k),
         BrokerRests, UNCHANGED <<toBroker, toWorker, worker, taken>>
  PROVE  OneWaits' /\ LateOnly'
<1>1. PICK j : j = Head(answers[Asker[k]])
  OBVIOUS
<1>2. /\ j \in Commands /\ Asker[j] = Asker[k]
      /\ outcome[j] # "new" /\ outcome[j] # j
  BY <1>1, ReturnCarries
<1>3. /\ outcome[k] = "waiting" /\ outcome' = [outcome EXCEPT ![k] = j]
      /\ outcome \in [Commands -> ToBe \cup Commands]
  BY <1>1 DEF Return, SysInv, ProgramsOK, ToBe
<1>4. \A x \in Commands : outcome'[x] = IF x = k THEN j ELSE outcome[x]
  BY <1>3
<1>5. j \notin ToBe /\ k \notin ToBe
  BY <1>2, CompositionAssumption DEF ToBe
<1>6. OneWaits'
  BY <1>4, <1>5 DEF OneWaits, ToBe
<1>7. ASSUME j # k PROVE GaveUp(Asker[k])
  <2>1. outcome[j] # "waiting"
    BY <1>2, <1>3, <1>7 DEF OneWaits
  <2>2. CASE outcome[j] = "timeout"
    BY <1>2, <2>2 DEF GaveUp
  <2>3. CASE outcome[j] \in Commands \ {j}
    BY <1>2, <2>3 DEF LateOnly
  <2> QED
    BY <1>2, <1>3, <2>1, <2>2, <2>3 DEF ToBe
<1>8. \A c : GaveUp(c) => GaveUp(c)'
  BY <1>3, <1>4 DEF GaveUp
<1>9. ASSUME NEW x \in Commands, outcome'[x] \in Commands \ {x} PROVE GaveUp(Asker[x])
  BY <1>4, <1>7, <1>9 DEF LateOnly
<1> QED
  BY <1>6, <1>8, <1>9 DEF LateOnly

\* A session that has given up a call has given it up for ever.
LEMMA AnswersStep ==
  ASSUME SysInv, Carried(Now, taken), OneWaits, LateOnly, [SystemNext]_all
  PROVE  OneWaits' /\ LateOnly'
<1>1. ASSUME UNCHANGED outcome PROVE OneWaits' /\ LateOnly'
  BY <1>1 DEF OneWaits, LateOnly, GaveUp
<1>2. ASSUME NEW k \in Commands, ClientRuns(k) PROVE OneWaits' /\ LateOnly'
  <2>1. /\ BrokerRests /\ UNCHANGED <<toBroker, toWorker, worker, taken>>
        /\ outcome \in [Commands -> ToBe \cup Commands]
        /\ \A x \in Commands : x \notin ToBe
    BY <1>2, CompositionAssumption DEF ClientRuns, history, SysInv, ProgramsOK, ToBe
  <2>2. ASSUME NEW s \in Services, Call(k, s) PROVE OneWaits' /\ LateOnly'
    <3>1. /\ outcome[k] = "new" /\ ~Waits(Asker[k])
          /\ \A x \in Commands : outcome'[x] = IF x = k THEN "waiting" ELSE outcome[x]
      BY <2>1, <2>2 DEF Call
    <3>2. OneWaits'
      BY <3>1 DEF OneWaits, Waits
    <3>3. \A c : GaveUp(c) => GaveUp(c)'
      BY <3>1 DEF GaveUp
    <3>4. \A x \in Commands : outcome'[x] \in Commands => outcome[x] = outcome'[x]
      BY <2>1, <3>1 DEF ToBe
    <3> QED
      BY <3>2, <3>3, <3>4 DEF LateOnly
  <2>3. CASE Return(k)
    BY <2>1, <2>3, ReturnFits
  <2>4. CASE TimeOut(k)
    <3>1. \A x \in Commands : outcome'[x] = IF x = k THEN "timeout" ELSE outcome[x]
      BY <2>1, <2>4 DEF TimeOut
    <3>2. OneWaits'
      BY <3>1 DEF OneWaits
    <3>3. \A c : GaveUp(c) => GaveUp(c)'
      BY <3>1 DEF GaveUp
    <3>4. \A x \in Commands : outcome'[x] \in Commands => outcome[x] = outcome'[x]
      BY <2>1, <3>1 DEF ToBe
    <3> QED
      BY <3>2, <3>3, <3>4 DEF LateOnly
  <2> QED
    BY <1>2, <2>2, <2>3, <2>4 DEF ClientRuns
<1>3. ASSUME NEW a \in Workers, HandleWorker(a) PROVE UNCHANGED outcome
  BY <1>3 DEF HandleWorker, clients
<1>4. ASSUME NEW c \in Clients, HandleClient(c) PROVE UNCHANGED outcome
  BY <1>4 DEF HandleClient, clients
<1>5. ASSUME NEW p \in Processes, WorkerRuns(p) \/ WorkerEnds(p) PROVE UNCHANGED outcome
  BY <1>5 DEF WorkerRuns, WorkerEnds, clients
<1>6. BrokerHeartbeat \/ StopBroker \/ StartBroker \/ TimePasses => UNCHANGED outcome
  BY DEF BrokerHeartbeat, StopBroker, StartBroker, TimePasses, clients
<1>7. UNCHANGED all => UNCHANGED outcome
  BY DEF all, clients
<1> QED
  BY <1>1, <1>2, <1>3, <1>4, <1>5, <1>6, <1>7 DEF SystemNext, BrokerRuns

\* The answer is one to a call of the same session; a wrong one came late.
LEMMA FittingAnswers ==
  ASSUME SysInv, Carried(Now, taken), LateOnly
  PROVE  AnswersFitCalls
<1> SUFFICES ASSUME NEW k \in Commands, outcome[k] \in Commands \ {k}
             PROVE  Asker[outcome[k]] = Asker[k] /\ GaveUp(Asker[k])
  BY DEF AnswersFitCalls, GaveUp
<1>1. PICK j \in Commands : j = outcome[k]
  OBVIOUS
<1>2. Asker[k] \in Clients
  BY CompositionAssumption
<1>3. <<"outcome", k>> \in Carriers(Now, Asker[k], j)
  <2>1. <<"outcome", k>> \in Kinds \X Owners
    BY DEF Kinds, Owners
  <2> QED
    BY <1>1, <2>1 DEF Carriers, In, Now
<1>4. Asker[k] = Asker[j]
  BY <1>2, <1>3 DEF Carried
<1> QED
  BY <1>1, <1>4 DEF LateOnly

\* mdp_client_recv returns the answer to the call just made, unless an earlier call of
\* the session ran into its timeout; and never one to the call of another session.
THEOREM AnswersFit == System => []AnswersFitCalls
<1>1. SystemInit => OneWaits /\ LateOnly
  <2> SUFFICES ASSUME SystemInit PROVE OneWaits /\ LateOnly
    OBVIOUS
  <2>1. \A k \in Commands : outcome[k] = "new" /\ "new" \notin Commands
    BY CompositionAssumption DEF SystemInit
  <2> QED
    BY <2>1 DEF OneWaits, LateOnly
<1>2. SysInv /\ Carried(Now, taken) /\ OneWaits /\ LateOnly /\ [SystemNext]_all
        => OneWaits' /\ LateOnly'
  BY AnswersStep
<1>3. SysInv /\ Carried(Now, taken) /\ LateOnly => AnswersFitCalls
  BY FittingAnswers
<1> QED
  BY <1>1, <1>2, <1>3, CallsCarried, PTL DEF System
=============================================================================
