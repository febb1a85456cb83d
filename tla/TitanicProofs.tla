---------------------------- MODULE TitanicProofs ----------------------------
(***************************************************************************)
(* Proofs about Titanic, for any set of UUIDs, with crashes and interrupts *)
(* at any step.  The inductive invariant says of each UUID which thread    *)
(* has it in hand: titanic.request, the pipe, or the queue.                *)
(***************************************************************************)
EXTENDS Titanic, SequenceTheorems, TLAPS

\* The UUID was sent to the main thread and not received yet.
InPipe(u) == \E i \in DOMAIN pipe : pipe[i] = u

\* A UUID is sent once and queued once.
OnceOnly ==
  /\ \A i, j \in DOMAIN pipe : pipe[i] = pipe[j] => i = j
  /\ \A i, j \in DOMAIN disk.queue : disk.queue[i].uuid = disk.queue[j].uuid => i = j
  /\ \A u \in Uuids : ~(InPipe(u) /\ Queued(u))

\* What was sent to the main thread had been written.
SentIsWritten ==
  \A u \in Uuids : InPipe(u) \/ Queued(u) => u \in seen.issued /\ disk.req[u] # "partial"

\* The request that titanic.request works on is new to all others.
InHand ==
  LET a == actor["request"] IN
  /\ a.at \in {"saving", "queueing", "acknowledging"} => a.uuid \in seen.issued \ seen.acked
  /\ a.at \in {"saving", "queueing"} => ~InPipe(a.uuid) /\ ~Queued(a.uuid)
  /\ a.at \in {"queueing", "acknowledging"} => disk.req[a.uuid] = "whole"

\* The other actors work on requests that clients know.
AskedFor ==
  /\ actor["reply"].at \in {"found", "missing"} => actor["reply"].uuid \in seen.acked
  /\ actor["close"].at = "deleting" => actor["close"].uuid \in seen.closed

\* Only titanic.close deletes a request.
OnlyClosedIsDeleted ==
  /\ seen.closed \subseteq seen.acked
  /\ seen.acked \subseteq seen.issued
  /\ \A u \in seen.issued : disk.req[u] = "none" => u \in seen.closed

\* The entry that the main thread works on is not marked yet; its reply is on
\* the way to the disk, unless the client closed the request.
EntryInWork ==
  /\ main.at \in {"calling", "saving", "marking"} =>
       /\ main.next \in DOMAIN disk.queue
       /\ disk.queue[main.next].mark = "-"
  /\ main.at = "saving" =>
       /\ main.reply \in Replies
       /\ disk.rep[Current] = "none" => Current \in seen.closed
  /\ main.at = "marking" => disk.rep[Current] \in Replies \/ Current \in seen.closed

IInv ==
  /\ TypeOK
  /\ OnceOnly
  /\ SentIsWritten
  /\ InHand
  /\ AskedFor
  /\ OnlyClosedIsDeleted
  /\ EntryInWork
  /\ AckedIsSaved
  /\ UnknownIsRight
  /\ MarkedIsAnswered

-----------------------------------------------------------------------------
(* The parts of the types that the steps below read *)

\* The types of the fields of disk, actor, main and seen, one by one.
LEMMA Types ==
  ASSUME TypeOK
  PROVE  /\ disk.req \in [Uuids -> {"none", "partial", "whole"}]
         /\ disk.rep \in [Uuids -> {"none", "partial"} \cup Replies]
         /\ disk.queue \in Seq(Entry)
         /\ disk = [req |-> disk.req, rep |-> disk.rep, queue |-> disk.queue]
         /\ pipe \in Seq(Uuids)
         /\ \A i \in DOMAIN pipe : pipe[i] \in Uuids
         /\ \A i \in DOMAIN disk.queue : disk.queue[i] \in Entry
         /\ DOMAIN actor = Actors
         /\ seen.issued \subseteq Uuids /\ seen.acked \subseteq Uuids
         /\ seen.closed \subseteq Uuids
         /\ seen = [issued |-> seen.issued, acked |-> seen.acked, closed |-> seen.closed]
<1>1. disk \in DiskType /\ pipe \in Seq(Uuids)
  BY DEF TypeOK
<1>2. \A S, q : q \in Seq(S) => \A i \in DOMAIN q : q[i] \in S
  BY ElementOfSeq, LenProperties
<1>3. /\ disk.req \in [Uuids -> {"none", "partial", "whole"}]
      /\ disk.rep \in [Uuids -> {"none", "partial"} \cup Replies]
      /\ disk.queue \in Seq(Entry)
      /\ disk = [req |-> disk.req, rep |-> disk.rep, queue |-> disk.queue]
  BY <1>1 DEF DiskType
<1> QED
  BY <1>1, <1>2, <1>3 DEF TypeOK

-----------------------------------------------------------------------------
(* titanic_request *)

\* A new UUID is in nobody's hands; from then on titanic.request alone has it.
LEMMA ReceiveRequestStep ==
  ASSUME IInv, NEW u \in Uuids, ReceiveRequest(u),
         answer' = Nothing, UNCHANGED <<main, interrupted, stop, status>>
  PROVE  IInv'
<1>1. TypeOK
  BY DEF IInv
<1>2. /\ disk'.req = [disk.req EXCEPT ![u] = "partial"]
      /\ disk'.rep = disk.rep /\ disk'.queue = disk.queue
      /\ pipe' = pipe
  BY <1>1, Types DEF ReceiveRequest
<1>3. /\ actor'["request"] = [at |-> "saving", uuid |-> u]
      /\ actor'["reply"] = actor["reply"] /\ actor'["close"] = actor["close"]
  BY <1>1, Types DEF ReceiveRequest, Move, Actors
<1>4. /\ seen'.issued = seen.issued \cup {u}
      /\ seen'.acked = seen.acked /\ seen'.closed = seen.closed
  BY <1>1, Types DEF ReceiveRequest
<1>5. u \notin seen.issued
  BY DEF ReceiveRequest
<1>6. ~InPipe(u) /\ ~Queued(u)
  BY <1>5 DEF IInv, SentIsWritten
<1>7. TypeOK'
  <2>1. disk' \in DiskType
    BY <1>1, Types DEF ReceiveRequest, DiskType
  <2>2. actor' \in [Actors -> [at : {"idle", "saving", "queueing", "acknowledging", "found",
                                 "missing", "deleting", "gone"},
                           uuid : Uuids \cup {NoUuid}]]
    BY <1>1 DEF ReceiveRequest, Move, TypeOK
  <2> QED
    BY <1>1, <1>2, <2>1, <2>2 DEF ReceiveRequest, TypeOK, Nothing
<1>8. (\A v \in Uuids : Queued(v)' = Queued(v)) /\ (\A v \in Uuids : InPipe(v)' = InPipe(v))
  BY <1>2 DEF Queued, InPipe
<1>9. OnceOnly' /\ SentIsWritten'
  BY <1>1, <1>2, <1>4, <1>5, <1>6, <1>8, Types DEF IInv, OnceOnly, SentIsWritten
<1>10. InHand' /\ AskedFor'
  BY <1>1, <1>2, <1>3, <1>4, <1>5, <1>6, <1>8, Types
  DEF IInv, InHand, AskedFor, OnlyClosedIsDeleted
<1>11. OnlyClosedIsDeleted' /\ AckedIsSaved'
  BY <1>1, <1>2, <1>4, <1>5, Types DEF IInv, OnlyClosedIsDeleted, AckedIsSaved
<1>12. EntryInWork' /\ MarkedIsAnswered'
  BY <1>2, <1>4 DEF IInv, EntryInWork, MarkedIsAnswered, Current, Marked
<1>13. UnknownIsRight'
  BY DEF UnknownIsRight, Nothing
<1> QED
  BY <1>7, <1>9, <1>10, <1>11, <1>12, <1>13 DEF IInv

\* The file is closed: the request of a UUID that nobody else has is whole.
LEMMA SaveRequestStep ==
  ASSUME IInv, SaveRequest, answer' = Nothing, UNCHANGED <<main, interrupted, stop, status>>
  PROVE  IInv'
<1> DEFINE u == actor["request"].uuid
<1>1. TypeOK /\ u \in Uuids /\ u \in seen.issued \ seen.acked /\ ~InPipe(u) /\ ~Queued(u)
  BY Types DEF IInv, InHand, SaveRequest, At
<1>2. /\ disk'.req = [disk.req EXCEPT ![u] = "whole"]
      /\ disk'.rep = disk.rep /\ disk'.queue = disk.queue
      /\ pipe' = pipe /\ seen' = seen
  BY <1>1, Types DEF SaveRequest, UuidOf
<1>3. /\ actor'["request"] = [at |-> "queueing", uuid |-> u]
      /\ actor'["reply"] = actor["reply"] /\ actor'["close"] = actor["close"]
  BY <1>1, Types DEF SaveRequest, Move, Actors, UuidOf
<1> HIDE DEF u
<1>4. TypeOK'
  <2>1. disk' \in DiskType
    BY <1>1, Types DEF SaveRequest, DiskType, UuidOf, u
  <2>2. actor' \in [Actors -> [at : {"idle", "saving", "queueing", "acknowledging", "found",
                                 "missing", "deleting", "gone"},
                           uuid : Uuids \cup {NoUuid}]]
    BY <1>1 DEF SaveRequest, Move, TypeOK, UuidOf, u
  <2> QED
    BY <1>1, <1>2, <2>1, <2>2 DEF TypeOK, Nothing
<1>5. (\A v \in Uuids : Queued(v)' = Queued(v)) /\ (\A v \in Uuids : InPipe(v)' = InPipe(v))
  BY <1>2 DEF Queued, InPipe
<1>6. OnceOnly' /\ SentIsWritten'
  BY <1>1, <1>2, <1>5, Types DEF IInv, OnceOnly, SentIsWritten
<1>7. InHand' /\ AskedFor'
  BY <1>1, <1>2, <1>3, <1>5, Types DEF IInv, InHand, AskedFor
<1>8. OnlyClosedIsDeleted' /\ AckedIsSaved'
  BY <1>1, <1>2, Types DEF IInv, OnlyClosedIsDeleted, AckedIsSaved
<1>9. EntryInWork' /\ MarkedIsAnswered'
  BY <1>2 DEF IInv, EntryInWork, MarkedIsAnswered, Current, Marked
<1>10. UnknownIsRight'
  BY DEF UnknownIsRight, Nothing
<1> QED
  BY <1>4, <1>6, <1>7, <1>8, <1>9, <1>10 DEF IInv

\* The UUID goes from titanic.request to the pipe.
LEMMA QueueRequestStep ==
  ASSUME IInv, QueueRequest, answer' = Nothing, UNCHANGED <<main, interrupted, stop, status>>
  PROVE  IInv'
<1> DEFINE u == actor["request"].uuid
<1>1. /\ TypeOK /\ u \in Uuids /\ u \in seen.issued \ seen.acked /\ ~InPipe(u) /\ ~Queued(u)
      /\ disk.req[u] = "whole"
  BY Types DEF IInv, InHand, QueueRequest, At
<1>2. pipe' = Append(pipe, u) /\ disk' = disk /\ seen' = seen
  BY DEF QueueRequest, UuidOf
<1>3. /\ actor'["request"] = [at |-> "acknowledging", uuid |-> u]
      /\ actor'["reply"] = actor["reply"] /\ actor'["close"] = actor["close"]
  BY <1>1, Types DEF QueueRequest, Move, Actors, UuidOf
<1> HIDE DEF u
<1>4. TypeOK'
  <2>1. pipe' \in Seq(Uuids)
    BY <1>1, <1>2, Types
  <2>2. actor' \in [Actors -> [at : {"idle", "saving", "queueing", "acknowledging", "found",
                                 "missing", "deleting", "gone"},
                           uuid : Uuids \cup {NoUuid}]]
    BY <1>1 DEF QueueRequest, Move, TypeOK, UuidOf, u
  <2> QED
    BY <1>1, <1>2, <2>1, <2>2 DEF TypeOK, Nothing
<1>5. /\ DOMAIN pipe = 1..Len(pipe) /\ Len(pipe) \in Nat
      /\ DOMAIN pipe' = 1..(Len(pipe) + 1)
      /\ \A i \in 1..Len(pipe) : pipe'[i] = pipe[i]
      /\ pipe'[Len(pipe) + 1] = u
  BY <1>1, <1>2, Types
<1>6. (\A v \in Uuids : Queued(v)' = Queued(v)) /\ (\A v \in Uuids : InPipe(v)' => InPipe(v) \/ v = u)
  BY <1>2, <1>5 DEF Queued, InPipe
<1>7. OnceOnly'
  <2>1. \A i, j \in DOMAIN pipe' : pipe'[i] = pipe'[j] => i = j
    BY <1>1, <1>5 DEF IInv, OnceOnly, InPipe
  <2> QED
    BY <1>1, <1>2, <1>6, <2>1 DEF IInv, OnceOnly
<1>8. SentIsWritten'
  BY <1>1, <1>2, <1>6 DEF IInv, SentIsWritten
<1>9. InHand' /\ AskedFor'
  BY <1>1, <1>2, <1>3 DEF IInv, InHand, AskedFor
<1>10. OnlyClosedIsDeleted' /\ AckedIsSaved' /\ EntryInWork' /\ MarkedIsAnswered'
  BY <1>2 DEF IInv, OnlyClosedIsDeleted, AckedIsSaved, EntryInWork, MarkedIsAnswered, Current, Marked
<1>11. UnknownIsRight'
  BY DEF UnknownIsRight, Nothing
<1> QED
  BY <1>4, <1>7, <1>8, <1>9, <1>10, <1>11 DEF IInv

\* The client is told its UUID after the request was written.
LEMMA AcknowledgeStep ==
  ASSUME IInv, Acknowledge, answer' = Nothing, UNCHANGED <<main, interrupted, stop, status>>
  PROVE  IInv'
<1> DEFINE u == actor["request"].uuid
<1>1. TypeOK /\ u \in Uuids /\ u \in seen.issued \ seen.acked /\ disk.req[u] = "whole"
  BY Types DEF IInv, InHand, Acknowledge, At
<1>2. /\ seen'.acked = seen.acked \cup {u}
      /\ seen'.issued = seen.issued /\ seen'.closed = seen.closed
      /\ disk' = disk /\ pipe' = pipe
  BY <1>1, Types DEF Acknowledge, UuidOf
<1>3. /\ actor'["request"] = Idle
      /\ actor'["reply"] = actor["reply"] /\ actor'["close"] = actor["close"]
  BY <1>1, Types DEF Acknowledge, Rest, Actors
<1> HIDE DEF u
<1>4. TypeOK'
  BY <1>1 DEF Acknowledge, Rest, TypeOK, Nothing, Idle, UuidOf, u
<1>5. (\A v \in Uuids : Queued(v)' = Queued(v)) /\ (\A v \in Uuids : InPipe(v)' = InPipe(v))
  BY <1>2 DEF Queued, InPipe
<1>6. OnceOnly' /\ SentIsWritten'
  BY <1>2, <1>5 DEF IInv, OnceOnly, SentIsWritten
<1>7. InHand' /\ AskedFor'
  BY <1>2, <1>3 DEF IInv, InHand, AskedFor, Idle
<1>8. OnlyClosedIsDeleted' /\ AckedIsSaved'
  BY <1>1, <1>2 DEF IInv, OnlyClosedIsDeleted, AckedIsSaved
<1>9. EntryInWork' /\ MarkedIsAnswered'
  BY <1>2 DEF IInv, EntryInWork, MarkedIsAnswered, Current, Marked
<1>10. UnknownIsRight'
  BY DEF UnknownIsRight, Nothing
<1> QED
  BY <1>4, <1>6, <1>7, <1>8, <1>9, <1>10 DEF IInv

\* titanic_request preserves the invariant.
LEMMA RequestStep ==
  ASSUME IInv, TitanicRequest
  PROVE  IInv'
<1>1. CASE \E u \in Uuids : ReceiveRequest(u)
  BY <1>1, ReceiveRequestStep DEF TitanicRequest
<1>2. CASE SaveRequest
  BY <1>2, SaveRequestStep DEF TitanicRequest
<1>3. CASE QueueRequest
  BY <1>3, QueueRequestStep DEF TitanicRequest
<1>4. CASE Acknowledge
  BY <1>4, AcknowledgeStep DEF TitanicRequest
<1> QED
  BY <1>1, <1>2, <1>3, <1>4 DEF TitanicRequest

-----------------------------------------------------------------------------
(* titanic_reply and titanic_close *)

\* titanic_reply writes nothing; it says "400" only of a request that was closed.
LEMMA ReplyStep ==
  ASSUME IInv, TitanicReply
  PROVE  IInv'
<1> DEFINE r == actor["reply"]
<1>1. TypeOK /\ disk' = disk /\ pipe' = pipe /\ seen' = seen /\ main' = main
  BY DEF IInv, TitanicReply, LookForReply, LoadReply, LookForRequest, memory
<1>2. interrupted' = interrupted /\ stop' = stop /\ status' = status
  BY DEF TitanicReply, LookForReply, LoadReply, LookForRequest, memory
<1>3. /\ actor'["request"] = actor["request"] /\ actor'["close"] = actor["close"]
      /\ \/ actor'["reply"].at = "idle"
         \/ actor'["reply"].uuid \in seen.acked
      /\ actor' \in [Actors -> [at : {"idle", "saving", "queueing", "acknowledging", "found",
                                 "missing", "deleting", "gone"},
                           uuid : Uuids \cup {NoUuid}]]
  BY <1>1, Types
  DEF TitanicReply, LookForReply, LoadReply, LookForRequest, Move, Rest, Idle, Actors, TypeOK
<1>4. /\ answer' \in [uuid : Uuids \cup {NoUuid}, code : {"none", "200", "300", "400"},
                     body : {"none", "partial"} \cup Replies]
      /\ UnknownIsRight'
  <2>1. CASE answer' = Nothing
    BY <2>1 DEF Nothing, UnknownIsRight
  <2>2. CASE LoadReply
    <3>1. r.uuid \in Uuids
      BY <1>1, <2>2, Types DEF IInv, AskedFor, LoadReply, At
    <3> QED
      BY <1>1, <2>2, <3>1, Types DEF LoadReply, UuidOf, UnknownIsRight
  <2>3. CASE LookForRequest
    <3>1. r.uuid \in seen.acked /\ r.uuid \in Uuids
      BY <1>1, <2>3, Types DEF IInv, AskedFor, LookForRequest, At
    <3>2. disk.req[r.uuid] = "none" => r.uuid \in seen.closed
      BY <3>1 DEF IInv, OnlyClosedIsDeleted
    <3> QED
      BY <1>1, <2>3, <3>1, <3>2 DEF LookForRequest, UuidOf, UnknownIsRight
  <2> QED
    BY <2>1, <2>2, <2>3 DEF TitanicReply, LookForReply
<1> HIDE DEF r
<1>5. TypeOK'
  BY <1>1, <1>2, <1>3, <1>4 DEF TypeOK
<1>6. (\A v \in Uuids : Queued(v)' = Queued(v)) /\ (\A v \in Uuids : InPipe(v)' = InPipe(v))
  BY <1>1 DEF Queued, InPipe
<1>7. OnceOnly' /\ SentIsWritten'
  BY <1>1, <1>6 DEF IInv, OnceOnly, SentIsWritten
<1>8. InHand' /\ AskedFor'
  <2>1. AskedFor'
    BY <1>1, <1>3 DEF IInv, AskedFor
  <2> QED
    BY <1>1, <1>3, <1>6, <2>1, Types DEF IInv, InHand
<1>9. OnlyClosedIsDeleted' /\ AckedIsSaved' /\ EntryInWork' /\ MarkedIsAnswered'
  BY <1>1 DEF IInv, OnlyClosedIsDeleted, AckedIsSaved, EntryInWork, MarkedIsAnswered, Current, Marked
<1> QED
  BY <1>4, <1>5, <1>7, <1>8, <1>9 DEF IInv

\* titanic_close deletes a request that clients know, hence none that
\* titanic.request works on.
LEMMA CloseRequestStep ==
  ASSUME IInv, NEW u \in Uuids, CloseRequest(u), answer' = Nothing, UNCHANGED memory
  PROVE  IInv'
<1>1. TypeOK /\ u \in seen.acked
  BY DEF IInv, CloseRequest
<1>2. /\ disk'.req = [disk.req EXCEPT ![u] = "none"]
      /\ disk'.rep = disk.rep /\ disk'.queue = disk.queue
      /\ pipe' = pipe /\ main' = main
      /\ interrupted' = interrupted /\ stop' = stop /\ status' = status
  BY <1>1, Types DEF CloseRequest, memory
<1>3. /\ actor'["close"] = [at |-> "deleting", uuid |-> u]
      /\ actor'["reply"] = actor["reply"] /\ actor'["request"] = actor["request"]
  BY <1>1, Types DEF CloseRequest, Move, Actors
<1>4. /\ seen'.closed = seen.closed \cup {u}
      /\ seen'.acked = seen.acked /\ seen'.issued = seen.issued
  BY <1>1, Types DEF CloseRequest
<1>5. TypeOK'
  <2>1. disk' \in DiskType
    BY <1>1, Types DEF CloseRequest, DiskType
  <2>2. actor' \in [Actors -> [at : {"idle", "saving", "queueing", "acknowledging", "found",
                                 "missing", "deleting", "gone"},
                           uuid : Uuids \cup {NoUuid}]]
    BY <1>1 DEF CloseRequest, Move, TypeOK
  <2>3. seen' \in [issued : SUBSET Uuids, acked : SUBSET Uuids, closed : SUBSET Uuids]
    BY <1>1 DEF CloseRequest, TypeOK
  <2> QED
    BY <1>1, <1>2, <2>1, <2>2, <2>3 DEF TypeOK, Nothing
<1>6. (\A v \in Uuids : Queued(v)' = Queued(v)) /\ (\A v \in Uuids : InPipe(v)' = InPipe(v))
  BY <1>2 DEF Queued, InPipe
<1>7. OnceOnly' /\ SentIsWritten'
  BY <1>1, <1>2, <1>4, <1>6, Types DEF IInv, OnceOnly, SentIsWritten
<1>8. InHand' /\ AskedFor'
  BY <1>1, <1>2, <1>3, <1>4, <1>6, Types DEF IInv, InHand, AskedFor
<1>9. OnlyClosedIsDeleted' /\ AckedIsSaved'
  BY <1>1, <1>2, <1>4, Types DEF IInv, OnlyClosedIsDeleted, AckedIsSaved
<1>10. EntryInWork' /\ MarkedIsAnswered'
  BY <1>2, <1>4 DEF IInv, EntryInWork, MarkedIsAnswered, Current, Marked
<1>11. UnknownIsRight'
  BY DEF UnknownIsRight, Nothing
<1> QED
  BY <1>5, <1>7, <1>8, <1>9, <1>10, <1>11 DEF IInv

\* The reply of a closed request may disappear at any moment.
LEMMA CloseReplyStep ==
  ASSUME IInv, CloseReply, answer' = Nothing, UNCHANGED memory
  PROVE  IInv'
<1> DEFINE u == actor["close"].uuid
<1>1. TypeOK /\ u \in Uuids /\ u \in seen.closed
  BY Types DEF IInv, AskedFor, CloseReply, At
<1>2. /\ disk'.rep = [disk.rep EXCEPT ![u] = "none"]
      /\ disk'.req = disk.req /\ disk'.queue = disk.queue
      /\ pipe' = pipe /\ main' = main /\ seen' = seen
      /\ interrupted' = interrupted /\ stop' = stop /\ status' = status
  BY <1>1, Types DEF CloseReply, memory, UuidOf
<1>3. /\ actor'["close"] = Idle
      /\ actor'["reply"] = actor["reply"] /\ actor'["request"] = actor["request"]
  BY <1>1, Types DEF CloseReply, Rest, Actors
<1> HIDE DEF u
<1>4. TypeOK'
  <2>1. disk' \in DiskType
    BY <1>1, Types DEF CloseReply, DiskType, UuidOf, u
  <2>2. actor' \in [Actors -> [at : {"idle", "saving", "queueing", "acknowledging", "found",
                                 "missing", "deleting", "gone"},
                           uuid : Uuids \cup {NoUuid}]]
    BY <1>1 DEF CloseReply, Rest, TypeOK, Idle
  <2> QED
    BY <1>1, <1>2, <2>1, <2>2 DEF TypeOK, Nothing
<1>5. (\A v \in Uuids : Queued(v)' = Queued(v)) /\ (\A v \in Uuids : InPipe(v)' = InPipe(v))
  BY <1>2 DEF Queued, InPipe
<1>6. OnceOnly' /\ SentIsWritten'
  BY <1>2, <1>5 DEF IInv, OnceOnly, SentIsWritten
<1>7. InHand' /\ AskedFor'
  BY <1>1, <1>2, <1>3, <1>5, Types DEF IInv, InHand, AskedFor, Idle
<1>8. OnlyClosedIsDeleted' /\ AckedIsSaved'
  BY <1>2 DEF IInv, OnlyClosedIsDeleted, AckedIsSaved
<1>9. EntryInWork'
  <2>1. Current' = Current
    BY <1>2 DEF Current
  <2>2. \A v \in Uuids : v \notin seen.closed => disk'.rep[v] = disk.rep[v]
    BY <1>1, <1>2, Types
  <2>3. main.at \in {"saving", "marking"} => Current \in Uuids
    BY <1>1, Types DEF IInv, EntryInWork, Current, Entry
  <2> QED
    BY <1>2, <2>1, <2>2, <2>3 DEF IInv, EntryInWork
<1>10. MarkedIsAnswered'
  BY <1>1, <1>2, Types DEF IInv, MarkedIsAnswered, Marked
<1>11. UnknownIsRight'
  BY DEF UnknownIsRight, Nothing
<1> QED
  BY <1>4, <1>6, <1>7, <1>8, <1>9, <1>10, <1>11 DEF IInv

\* titanic_close preserves the invariant.
LEMMA CloseStep ==
  ASSUME IInv, TitanicClose
  PROVE  IInv'
<1>1. CASE \E u \in Uuids : CloseRequest(u)
  BY <1>1, CloseRequestStep DEF TitanicClose
<1>2. CASE CloseReply
  BY <1>2, CloseReplyStep DEF TitanicClose
<1> QED
  BY <1>1, <1>2 DEF TitanicClose

-----------------------------------------------------------------------------
(* The main thread *)

\* What the main thread leaves alone.
Elsewhere == answer' = Nothing /\ UNCHANGED <<actor, interrupted, stop, status, seen>>

MainType == [at : {"poll", "scan", "calling", "saving", "marking", "stopping"},
             next : Nat \ {0}, reply : {"none"} \cup Replies]

\* The places of the main thread and the next entry of its scan.
LEMMA MainTypes ==
  ASSUME TypeOK
  PROVE  /\ main \in MainType
         /\ Polling \in MainType
         /\ Proceed => main' \in MainType /\ main'.at \in {"poll", "scan"}
<1>1. main \in MainType
  BY DEF TypeOK, MainType
<1>2. Polling \in MainType
  BY DEF Polling, MainType
<1>3. ASSUME Proceed
      PROVE  main' \in MainType /\ main'.at \in {"poll", "scan"}
  <2>1. main.next + 1 \in Nat \ {0}
    BY <1>1 DEF MainType
  <2>2. ASSUME NEW n \in Nat \ {0}
        PROVE  /\ [Polling EXCEPT !.at = "scan", !.next = n] \in MainType
               /\ [Polling EXCEPT !.at = "scan", !.next = n].at = "scan"
    BY <1>2 DEF MainType
  <2>3. Polling.at = "poll"
    BY DEF Polling
  <2> QED
    BY <1>2, <1>3, <2>1, <2>2, <2>3 DEF Proceed
<1> QED
  BY <1>1, <1>2, <1>3

\* The entry in work is the only one of its UUID.
LEMMA EntryAlone ==
  ASSUME IInv, main.at \in {"calling", "saving", "marking"}
  PROVE  /\ Current \in Uuids /\ main.next \in DOMAIN disk.queue
         /\ disk.queue[main.next] = [uuid |-> Current, mark |-> "-"]
         /\ \A i \in DOMAIN disk.queue : disk.queue[i].uuid = Current => i = main.next
         /\ ~Marked(Current)
<1>1. /\ main.next \in DOMAIN disk.queue
      /\ disk.queue[main.next].mark = "-"
      /\ disk.queue[main.next] \in Entry
  BY Types DEF IInv, EntryInWork
<1>2. \A i \in DOMAIN disk.queue : disk.queue[i].uuid = Current => i = main.next
  BY <1>1 DEF IInv, OnceOnly, Current
<1>3. disk.queue[main.next] = [uuid |-> Current, mark |-> "-"] /\ Current \in Uuids
  BY <1>1 DEF Entry, Current
<1>4. ~Marked(Current)
  <2> SUFFICES ASSUME NEW i \in DOMAIN disk.queue,
                      disk.queue[i] = [uuid |-> Current, mark |-> "+"]
               PROVE  FALSE
    BY DEF Marked
  <2>1. i = main.next
    BY <1>2
  <2>2. [uuid |-> Current, mark |-> "+"].mark = "+"
    OBVIOUS
  <2> QED
    BY <1>1, <2>1, <2>2
<1> QED
  BY <1>1, <1>2, <1>3, <1>4

\* The UUID at the head of the pipe goes to the end of the queue.
LEMMA PollUuidStep ==
  ASSUME IInv, PollUuid, Elsewhere
  PROVE  IInv'
<1> DEFINE u == Head(pipe)
           n == Len(disk.queue)
           e == [uuid |-> u, mark |-> "-"]
<1>1. /\ TypeOK /\ pipe # <<>> /\ pipe \in Seq(Uuids)
      /\ pipe' = Tail(pipe)
      /\ disk'.queue = Append(disk.queue, e)
      /\ disk'.req = disk.req /\ disk'.rep = disk.rep
  BY Types DEF IInv, PollUuid
<1>2. actor' = actor /\ seen' = seen /\ answer' = Nothing
  BY DEF Elsewhere
<1>3. /\ Len(pipe) \in Nat /\ Len(pipe) > 0
      /\ DOMAIN pipe = 1..Len(pipe)
      /\ DOMAIN pipe' = 1..(Len(pipe) - 1)
      /\ \A i \in 1..(Len(pipe) - 1) : pipe'[i] = pipe[i + 1]
      /\ u = pipe[1] /\ u \in Uuids
      /\ pipe' \in Seq(Uuids)
  BY <1>1, HeadTailProperties, EmptySeq, LenProperties, ElementOfSeq
<1> HIDE DEF u
<1>4. /\ n \in Nat /\ DOMAIN disk.queue = 1..n
      /\ DOMAIN disk'.queue = 1..(n + 1)
      /\ \A i \in 1..n : disk'.queue[i] = disk.queue[i]
      /\ disk'.queue[n + 1] = e
      /\ disk'.queue \in Seq(Entry)
  <2>1. e \in Entry
    BY <1>3 DEF Entry
  <2> HIDE DEF e
  <2> QED
    BY <1>1, <2>1, Types, AppendProperties, LenProperties
<1>5. e.uuid = u /\ e.mark = "-"
  OBVIOUS
<1> HIDE DEF n, e
<1>6. InPipe(u) /\ ~Queued(u) /\ u \in seen.issued /\ disk.req[u] # "partial"
  <2>1. InPipe(u)
    BY <1>3 DEF InPipe
  <2> QED
    BY <2>1, <1>3 DEF IInv, OnceOnly, SentIsWritten
<1>7. \A v \in Uuids : InPipe(v)' => InPipe(v) /\ v # u
  <2> SUFFICES ASSUME NEW v \in Uuids, NEW i \in DOMAIN pipe', pipe'[i] = v
               PROVE  InPipe(v) /\ v # u
    BY DEF InPipe
  <2>1. i + 1 \in DOMAIN pipe /\ i + 1 # 1 /\ pipe[i + 1] = v
    BY <1>3
  <2> QED
    BY <1>3, <2>1 DEF InPipe, IInv, OnceOnly
<1>8. \A v \in Uuids : Queued(v)' => Queued(v) \/ v = u
  BY <1>4, <1>5 DEF Queued
<1>9. TypeOK'
  <2>1. disk' \in DiskType
    <3>1. disk' = [req |-> disk.req, rep |-> disk.rep, queue |-> disk'.queue]
      BY <1>1, Types DEF PollUuid
    <3> QED
      BY <1>1, <1>4, <3>1, Types DEF DiskType
  <2>2. main' \in MainType
    BY <1>1, MainTypes DEF PollUuid, Goto, MainType
  <2> QED
    BY <1>1, <1>3, <2>1, <2>2 DEF Elsewhere, TypeOK, Nothing, MainType
<1>10. OnceOnly'
  <2>1. \A i, j \in DOMAIN pipe' : pipe'[i] = pipe'[j] => i = j
    <3> SUFFICES ASSUME NEW i \in DOMAIN pipe', NEW j \in DOMAIN pipe', pipe'[i] = pipe'[j]
                 PROVE  i = j
      OBVIOUS
    <3>1. /\ i \in 1..(Len(pipe) - 1) /\ j \in 1..(Len(pipe) - 1)
          /\ i + 1 \in DOMAIN pipe /\ j + 1 \in DOMAIN pipe
          /\ pipe[i + 1] = pipe[j + 1]
      BY <1>3
    <3>2. i + 1 = j + 1
      BY <3>1 DEF IInv, OnceOnly
    <3> QED
      BY <3>1, <3>2
  <2>2. \A i, j \in DOMAIN disk'.queue : disk'.queue[i].uuid = disk'.queue[j].uuid => i = j
    <3> SUFFICES ASSUME NEW i \in DOMAIN disk'.queue, NEW j \in DOMAIN disk'.queue,
                        disk'.queue[i].uuid = disk'.queue[j].uuid
                 PROVE  i = j
      OBVIOUS
    <3>1. /\ i \in 1..n => i \in DOMAIN disk.queue /\ disk'.queue[i] = disk.queue[i]
          /\ i \notin 1..n => i = n + 1 /\ disk'.queue[i].uuid = u
      BY <1>4, <1>5
    <3>2. /\ j \in 1..n => j \in DOMAIN disk.queue /\ disk'.queue[j] = disk.queue[j]
          /\ j \notin 1..n => j = n + 1 /\ disk'.queue[j].uuid = u
      BY <1>4, <1>5
    <3>3. \A k \in DOMAIN disk.queue : disk.queue[k].uuid # u
      BY <1>6 DEF Queued
    <3>4. i \in 1..n /\ j \in 1..n => i = j
      BY <3>1, <3>2 DEF IInv, OnceOnly
    <3> QED
      BY <3>1, <3>2, <3>3, <3>4
  <2>3. \A v \in Uuids : ~(InPipe(v)' /\ Queued(v)')
    BY <1>7, <1>8 DEF IInv, OnceOnly
  <2> QED
    BY <2>1, <2>2, <2>3 DEF OnceOnly
<1>11. SentIsWritten'
  BY <1>1, <1>2, <1>6, <1>7, <1>8 DEF IInv, SentIsWritten
<1>12. InHand'
  <2>1. \A v \in Uuids : ~InPipe(v) /\ ~Queued(v) => ~InPipe(v)' /\ ~Queued(v)'
    BY <1>6, <1>7, <1>8
  <2> QED
    BY <1>1, <1>2, <2>1, Types DEF IInv, InHand
<1>13. AskedFor' /\ OnlyClosedIsDeleted' /\ AckedIsSaved'
  BY <1>1, <1>2 DEF IInv, AskedFor, OnlyClosedIsDeleted, AckedIsSaved
<1>14. EntryInWork'
  <2>1. main'.at = "scan"
    BY <1>1, MainTypes DEF PollUuid, Goto, MainType
  <2> QED
    BY <2>1 DEF EntryInWork
<1>15. MarkedIsAnswered'
  <2> SUFFICES ASSUME NEW v \in Uuids, NEW i \in DOMAIN disk'.queue,
                      disk'.queue[i] = [uuid |-> v, mark |-> "+"]
               PROVE  disk'.rep[v] \in Replies \/ v \in seen'.closed
    BY DEF MarkedIsAnswered, Marked
  <2>1. disk'.queue[i].mark = "+"
    OBVIOUS
  <2>2. i \in 1..n /\ disk.queue[i] = [uuid |-> v, mark |-> "+"]
    BY <1>4, <1>5, <2>1
  <2> QED
    BY <1>1, <1>2, <1>4, <2>2 DEF IInv, MarkedIsAnswered, Marked
<1>16. UnknownIsRight'
  BY <1>2 DEF UnknownIsRight, Nothing
<1> QED
  BY <1>9, <1>10, <1>11, <1>12, <1>13, <1>14, <1>15, <1>16 DEF IInv

\* The steps of the main thread that write nothing: a request that cannot be
\* loaded was deleted by titanic_close.
LEMMA ReadOnlyStep ==
  ASSUME IInv, PollTimeout \/ EndOfQueue \/ Skip \/ LoadRequest \/ NoReply, Elsewhere
  PROVE  IInv'
<1>1. TypeOK /\ disk' = disk /\ pipe' = pipe /\ actor' = actor /\ seen' = seen
  BY DEF IInv, Elsewhere, PollTimeout, EndOfQueue, Skip, LoadRequest, NoReply
<1>2. (\A v \in Uuids : Queued(v)' = Queued(v)) /\ (\A v \in Uuids : InPipe(v)' = InPipe(v))
  BY <1>1 DEF Queued, InPipe
<1>3. main' \in MainType /\ EntryInWork'
  <2>1. CASE LoadRequest
    <3>1. main.next \in DOMAIN disk.queue /\ disk.queue[main.next].mark = "-"
      BY <1>1, <2>1, Types, MainTypes, LenProperties DEF LoadRequest, AtEntry, MainType
    <3>2. Queued(Current) /\ Current \in Uuids
      BY <1>1, <3>1, Types DEF Queued, Current, Entry
    <3>3. disk.req[Current] = "none" => Current \in seen.closed
      BY <3>2 DEF IInv, SentIsWritten, OnlyClosedIsDeleted
    <3>4. /\ main' \in MainType /\ main'.next = main.next
          /\ main'.at = IF disk.req[Current] = "none" THEN "marking" ELSE "calling"
      BY <1>1, <2>1, MainTypes DEF LoadRequest, Goto, MainType
    <3>5. Current' = Current
      BY <1>1, <3>4 DEF Current
    <3> QED
      BY <1>1, <3>1, <3>3, <3>4, <3>5 DEF EntryInWork
  <2>2. CASE PollTimeout \/ EndOfQueue
    <3>1. main' \in MainType /\ main'.at \in {"poll", "scan"}
      BY <1>1, <2>2, MainTypes DEF PollTimeout, EndOfQueue, Goto, MainType, Polling
    <3> QED
      BY <3>1 DEF EntryInWork
  <2>3. CASE Skip \/ NoReply
    <3>1. main' \in MainType /\ main'.at \in {"poll", "scan"}
      BY <1>1, <2>3, MainTypes DEF Skip, NoReply
    <3> QED
      BY <3>1 DEF EntryInWork
  <2> QED
    BY <2>1, <2>2, <2>3
<1>4. TypeOK'
  BY <1>1, <1>3 DEF TypeOK, Elsewhere, Nothing, MainType
<1>5. OnceOnly' /\ SentIsWritten' /\ AskedFor'
  BY <1>1, <1>2 DEF IInv, OnceOnly, SentIsWritten, AskedFor
<1>6. InHand'
  BY <1>1, <1>2, Types DEF IInv, InHand
<1>7. OnlyClosedIsDeleted' /\ AckedIsSaved' /\ MarkedIsAnswered'
  BY <1>1 DEF IInv, OnlyClosedIsDeleted, AckedIsSaved, MarkedIsAnswered, Marked
<1>8. UnknownIsRight'
  BY DEF Elsewhere, UnknownIsRight, Nothing
<1> QED
  BY <1>3, <1>4, <1>5, <1>6, <1>7, <1>8 DEF IInv

\* A step of the main thread that writes at most the .rep file of the entry in
\* work, which is not marked.
LEMMA WriteReply ==
  ASSUME IInv, main.at \in {"calling", "saving", "marking"}, Elsewhere,
         pipe' = pipe, disk'.queue = disk.queue, disk'.req = disk.req,
         disk' \in DiskType, main' \in MainType, EntryInWork',
         \A v \in Uuids : v # Current => disk'.rep[v] = disk.rep[v]
  PROVE  IInv'
<1>1. TypeOK /\ actor' = actor /\ seen' = seen
  BY DEF IInv, Elsewhere
<1>2. ~Marked(Current)
  BY EntryAlone
<1>3. (\A v \in Uuids : Queued(v)' = Queued(v)) /\ (\A v \in Uuids : InPipe(v)' = InPipe(v))
  BY DEF Queued, InPipe
<1>4. TypeOK'
  BY <1>1 DEF TypeOK, Elsewhere, Nothing, MainType
<1>5. OnceOnly' /\ SentIsWritten' /\ AskedFor'
  BY <1>1, <1>3 DEF IInv, OnceOnly, SentIsWritten, AskedFor
<1>6. InHand'
  BY <1>1, <1>3, Types DEF IInv, InHand
<1>7. OnlyClosedIsDeleted' /\ AckedIsSaved'
  BY <1>1 DEF IInv, OnlyClosedIsDeleted, AckedIsSaved
<1>8. MarkedIsAnswered'
  <2> SUFFICES ASSUME NEW v \in Uuids, Marked(v)'
               PROVE  disk'.rep[v] \in Replies \/ v \in seen'.closed
    BY DEF MarkedIsAnswered
  <2>1. Marked(v) /\ v # Current
    BY <1>2 DEF Marked
  <2> QED
    BY <1>1, <2>1 DEF IInv, MarkedIsAnswered
<1>9. UnknownIsRight'
  BY DEF Elsewhere, UnknownIsRight, Nothing
<1> QED
  BY <1>4, <1>5, <1>6, <1>7, <1>8, <1>9 DEF IInv

\* The .rep file is opened, which empties it.
LEMMA GetReplyStep ==
  ASSUME IInv, NEW reply \in Replies, GetReply(reply), Elsewhere
  PROVE  IInv'
<1>1. TypeOK /\ main.at = "calling"
  BY DEF IInv, GetReply, MainAt
<1>2. /\ Current \in Uuids /\ main.next \in DOMAIN disk.queue
      /\ disk.queue[main.next].mark = "-"
  BY <1>1, EntryAlone DEF IInv, EntryInWork
<1>3. /\ disk'.rep = [disk.rep EXCEPT ![Current] = "partial"]
      /\ disk'.queue = disk.queue /\ disk'.req = disk.req
      /\ disk' \in DiskType
  BY <1>1, <1>2, Types DEF GetReply, DiskType
<1>4. /\ main' \in MainType
      /\ main'.at = "saving" /\ main'.reply = reply /\ main'.next = main.next
  BY <1>1, MainTypes DEF GetReply, MainType
<1>5. EntryInWork'
  <2>1. Current' = Current
    BY <1>3, <1>4 DEF Current
  <2>2. disk'.rep[Current] = "partial"
    BY <1>1, <1>2, <1>3, Types
  <2> QED
    BY <1>2, <1>3, <1>4, <2>1, <2>2 DEF EntryInWork
<1>6. \A v \in Uuids : v # Current => disk'.rep[v] = disk.rep[v]
  BY <1>1, <1>3, Types
<1>7. pipe' = pipe
  BY DEF GetReply
<1> QED
  BY <1>1, <1>3, <1>4, <1>5, <1>6, <1>7, WriteReply

\* The .rep file is closed: the reply is whole, or titanic_close deleted it.
LEMMA SaveReplyStep ==
  ASSUME IInv, SaveReply, Elsewhere
  PROVE  IInv'
<1>1. TypeOK /\ main.at = "saving"
  BY DEF IInv, SaveReply, MainAt
<1>2. /\ Current \in Uuids /\ main.next \in DOMAIN disk.queue
      /\ disk.queue[main.next].mark = "-"
      /\ main.reply \in Replies
      /\ disk.rep[Current] = "none" => Current \in seen.closed
  BY <1>1, EntryAlone DEF IInv, EntryInWork
<1>3. /\ disk'.rep = [disk.rep EXCEPT ![Current] = IF disk.rep[Current] = "none" THEN "none"
                                                  ELSE main.reply]
      /\ disk'.queue = disk.queue /\ disk'.req = disk.req
      /\ disk' \in DiskType
  BY <1>1, <1>2, Types DEF SaveReply, DiskType
<1>4. main' \in MainType /\ main'.at = "marking" /\ main'.next = main.next
  BY <1>1, MainTypes DEF SaveReply, MainType
<1>5. EntryInWork'
  <2>1. Current' = Current
    BY <1>3, <1>4 DEF Current
  <2>2. disk'.rep[Current] \in Replies \/ Current \in seen.closed
    BY <1>1, <1>2, <1>3, Types
  <2>3. seen' = seen
    BY DEF Elsewhere
  <2> QED
    BY <1>2, <1>3, <1>4, <2>1, <2>2, <2>3 DEF EntryInWork
<1>6. \A v \in Uuids : v # Current => disk'.rep[v] = disk.rep[v]
  BY <1>1, <1>3, Types
<1>7. pipe' = pipe
  BY DEF SaveReply
<1> QED
  BY <1>1, <1>3, <1>4, <1>5, <1>6, <1>7, WriteReply

\* The entry is marked when its reply is on disk or its request was closed.
LEMMA MarkStep ==
  ASSUME IInv, Mark, Elsewhere
  PROVE  IInv'
<1> DEFINE e == [uuid |-> Current, mark |-> "+"]
<1>1. TypeOK /\ main.at = "marking"
  BY DEF IInv, Mark, MainAt
<1>2. /\ Current \in Uuids /\ main.next \in DOMAIN disk.queue
      /\ disk.queue[main.next] = [uuid |-> Current, mark |-> "-"]
      /\ disk.rep[Current] \in Replies \/ Current \in seen.closed
  BY <1>1, EntryAlone DEF IInv, EntryInWork
<1>3. e \in Entry /\ e.uuid = Current
  BY <1>2 DEF Entry
<1>4. /\ disk'.queue = [disk.queue EXCEPT ![main.next] = e]
      /\ disk'.req = disk.req /\ disk'.rep = disk.rep
      /\ disk' = [req |-> disk.req, rep |-> disk.rep, queue |-> disk'.queue]
  <2>1. [disk.queue[main.next] EXCEPT !.mark = "+"] = e
    BY <1>2
  <2> HIDE DEF e
  <2> QED
    BY <1>1, <2>1, Types DEF Mark
<1> HIDE DEF e
<1>5. /\ disk'.queue \in Seq(Entry)
      /\ DOMAIN disk'.queue = DOMAIN disk.queue
      /\ disk'.queue[main.next] = e
      /\ \A i \in DOMAIN disk.queue : i # main.next => disk'.queue[i] = disk.queue[i]
      /\ \A i \in DOMAIN disk.queue : disk'.queue[i].uuid = disk.queue[i].uuid
  <2>1. disk'.queue \in Seq(Entry)
    BY <1>1, <1>2, <1>3, <1>4, Types, ExceptSeq
  <2> QED
    BY <1>2, <1>3, <1>4, <2>1
<1>6. actor' = actor /\ seen' = seen /\ answer' = Nothing /\ pipe' = pipe
  BY DEF Mark, Elsewhere
<1>7. (\A v \in Uuids : Queued(v)' = Queued(v)) /\ (\A v \in Uuids : InPipe(v)' = InPipe(v))
  BY <1>5, <1>6 DEF Queued, InPipe
<1>8. main' \in MainType /\ main'.at \in {"poll", "scan"}
  BY <1>1, MainTypes DEF Mark
<1>9. TypeOK'
  <2>1. disk' \in DiskType
    BY <1>1, <1>4, <1>5, Types DEF DiskType
  <2> QED
    BY <1>1, <1>6, <1>8, <2>1 DEF TypeOK, Elsewhere, Nothing, MainType
<1>10. OnceOnly'
  BY <1>5, <1>6, <1>7 DEF IInv, OnceOnly
<1>11. SentIsWritten' /\ AskedFor'
  BY <1>4, <1>6, <1>7 DEF IInv, SentIsWritten, AskedFor
<1>12. InHand'
  BY <1>1, <1>4, <1>6, <1>7, Types DEF IInv, InHand
<1>13. OnlyClosedIsDeleted' /\ AckedIsSaved'
  BY <1>4, <1>6 DEF IInv, OnlyClosedIsDeleted, AckedIsSaved
<1>14. EntryInWork'
  BY <1>8 DEF EntryInWork
<1>15. MarkedIsAnswered'
  <2> SUFFICES ASSUME NEW v \in Uuids, NEW i \in DOMAIN disk'.queue,
                      disk'.queue[i] = [uuid |-> v, mark |-> "+"]
               PROVE  disk'.rep[v] \in Replies \/ v \in seen'.closed
    BY DEF MarkedIsAnswered, Marked
  <2>1. CASE i = main.next
    <3>1. v = Current
      BY <1>3, <1>5, <2>1
    <3> QED
      BY <1>2, <1>4, <1>6, <3>1
  <2>2. CASE i # main.next
    <3>1. Marked(v)
      BY <1>5, <2>2 DEF Marked
    <3> QED
      BY <1>4, <1>6, <3>1 DEF IInv, MarkedIsAnswered
  <2> QED
    BY <2>1, <2>2
<1>16. UnknownIsRight'
  BY <1>6 DEF UnknownIsRight, Nothing
<1> QED
  BY <1>9, <1>10, <1>11, <1>12, <1>13, <1>14, <1>15, <1>16 DEF IInv

\* The main thread preserves the invariant.
LEMMA MainStep ==
  ASSUME IInv, Main
  PROVE  IInv'
<1>1. Elsewhere
  BY DEF Main, Elsewhere
<1>2. CASE PollUuid
  BY <1>1, <1>2, PollUuidStep
<1>3. CASE PollTimeout \/ EndOfQueue \/ Skip \/ LoadRequest \/ NoReply
  BY <1>1, <1>3, ReadOnlyStep
<1>4. CASE \E reply \in Replies : GetReply(reply)
  BY <1>1, <1>4, GetReplyStep
<1>5. CASE SaveReply
  BY <1>1, <1>5, SaveReplyStep
<1>6. CASE Mark
  BY <1>1, <1>6, MarkStep
<1> QED
  BY <1>2, <1>3, <1>4, <1>5, <1>6 DEF Main

-----------------------------------------------------------------------------
(* The process *)

\* Whenever the process ends, the disk is as its clients were told: what is in
\* the hands of a thread or in the pipe is lost.
LEMMA DieStep ==
  ASSUME IInv, NEW how \in {"down", "aborted"}, Die(how)
  PROVE  IInv'
<1>1. TypeOK /\ disk' = disk /\ seen' = seen /\ pipe' = <<>> /\ answer' = Nothing
  BY DEF IInv, Die
<1>2. main' = Polling /\ main' \in MainType /\ main'.at = "poll"
  BY <1>1, MainTypes DEF Die, Polling
<1>3. actor'["request"] = Idle /\ actor'["reply"] = Idle /\ actor'["close"] = Idle
  BY DEF Die, Actors
<1>4. /\ actor' \in [Actors -> [at : {"idle", "saving", "queueing", "acknowledging", "found",
                                   "missing", "deleting", "gone"},
                             uuid : Uuids \cup {NoUuid}]]
  BY DEF Die, Idle
<1>5. TypeOK'
  <2>1. pipe' \in Seq(Uuids)
    BY <1>1, EmptySeq
  <2>2. interrupted' \in BOOLEAN /\ stop' \subseteq Actors /\ status' \in {"up", "down", "aborted"}
    BY DEF Die
  <2> QED
    BY <1>1, <1>2, <1>4, <2>1, <2>2 DEF TypeOK, Nothing, MainType
<1>6. \A v \in Uuids : ~InPipe(v)' /\ Queued(v)' = Queued(v)
  BY <1>1 DEF InPipe, Queued
<1>7. OnceOnly' /\ SentIsWritten'
  BY <1>1, <1>6 DEF IInv, OnceOnly, SentIsWritten
<1>8. InHand' /\ AskedFor'
  BY <1>3 DEF InHand, AskedFor, Idle
<1>9. OnlyClosedIsDeleted' /\ AckedIsSaved' /\ MarkedIsAnswered'
  BY <1>1 DEF IInv, OnlyClosedIsDeleted, AckedIsSaved, MarkedIsAnswered, Marked
<1>10. EntryInWork' /\ UnknownIsRight'
  BY <1>1, <1>2 DEF EntryInWork, UnknownIsRight, Nothing
<1> QED
  BY <1>5, <1>7, <1>8, <1>9, <1>10 DEF IInv

\* The ways in which an actor ends and the process goes on.
Ends(a) == Leave(a) \/ LeaveEarly(a) \/ Signalled(a)

\* A signal, a "shutdown" and a start write nothing and drop nothing.
LEMMA ControlStep ==
  ASSUME IInv, Interrupt \/ (\E a \in Actors : Ends(a)) \/ Start
  PROVE  IInv'
<1>1. TypeOK /\ disk' = disk /\ seen' = seen /\ pipe' = pipe /\ answer' = Nothing
  BY DEF IInv, Interrupt, Ends, Leave, LeaveEarly, Signalled, Quit, Start
<1>2. main' \in MainType /\ (main' = main \/ main'.at = "stopping")
  BY <1>1, MainTypes DEF Interrupt, Ends, Leave, LeaveEarly, Signalled, Quit, Start, Goto, MainType
<1>3. /\ actor' \in [Actors -> [at : {"idle", "saving", "queueing", "acknowledging", "found",
                                   "missing", "deleting", "gone"},
                             uuid : Uuids \cup {NoUuid}]]
      /\ \A a \in Actors : actor'[a] = actor[a] \/ actor'[a].at = "gone"
  BY <1>1 DEF Interrupt, Ends, Leave, LeaveEarly, Signalled, Quit, Start, Move, TypeOK
<1>4. TypeOK'
  <2>1. interrupted' \in BOOLEAN /\ stop' \subseteq Actors /\ status' \in {"up", "down", "aborted"}
    BY <1>1 DEF Interrupt, Ends, Leave, LeaveEarly, Signalled, Quit, Start, TypeOK
  <2> QED
    BY <1>1, <1>2, <1>3, <2>1 DEF TypeOK, Nothing, MainType
<1>5. (\A v \in Uuids : Queued(v)' = Queued(v)) /\ (\A v \in Uuids : InPipe(v)' = InPipe(v))
  BY <1>1 DEF Queued, InPipe
<1>6. OnceOnly' /\ SentIsWritten'
  BY <1>1, <1>5 DEF IInv, OnceOnly, SentIsWritten
<1>7. InHand' /\ AskedFor'
  <2>1. \A a \in {"request", "reply", "close"} :
          actor'[a] = actor[a] \/ actor'[a].at = "gone"
    BY <1>3 DEF Actors
  <2>2. AskedFor'
    BY <1>1, <2>1 DEF IInv, AskedFor
  <2> QED
    BY <1>1, <1>5, <2>1, <2>2, Types DEF IInv, InHand
<1>8. OnlyClosedIsDeleted' /\ AckedIsSaved' /\ MarkedIsAnswered'
  BY <1>1 DEF IInv, OnlyClosedIsDeleted, AckedIsSaved, MarkedIsAnswered, Marked
<1>9. EntryInWork' /\ UnknownIsRight'
  BY <1>1, <1>2 DEF IInv, EntryInWork, Current, UnknownIsRight, Nothing
<1> QED
  BY <1>4, <1>6, <1>7, <1>8, <1>9 DEF IInv

\* The server starts for the first time with an empty directory.
LEMMA InitGood == Init => IInv
<1> SUFFICES ASSUME Init PROVE IInv
  OBVIOUS
<1>1. /\ disk.req \in [Uuids -> {"none", "partial", "whole"}]
      /\ disk.rep \in [Uuids -> {"none", "partial"} \cup Replies]
      /\ disk.queue = <<>> /\ disk \in DiskType
  BY EmptySeq DEF Init, DiskType
<1>2. TypeOK
  <2>1. pipe \in Seq(Uuids)
    BY EmptySeq DEF Init
  <2>2. actor \in [Actors -> [at : {"idle", "saving", "queueing", "acknowledging", "found",
                                "missing", "deleting", "gone"},
                          uuid : Uuids \cup {NoUuid}]]
    BY DEF Init, Idle
  <2>3. main \in MainType
    BY DEF Init, Polling, MainType
  <2> QED
    BY <1>1, <2>1, <2>2, <2>3 DEF Init, TypeOK, Nothing, MainType
<1>3. \A v \in Uuids : ~InPipe(v) /\ ~Queued(v)
  BY DEF Init, InPipe, Queued
<1>4. OnceOnly /\ SentIsWritten
  BY <1>1, <1>3 DEF Init, OnceOnly, SentIsWritten
<1>5. InHand /\ AskedFor /\ EntryInWork
  BY DEF Init, InHand, AskedFor, EntryInWork, Idle, Polling, Actors
<1>6. OnlyClosedIsDeleted /\ AckedIsSaved /\ UnknownIsRight
  BY DEF Init, OnlyClosedIsDeleted, AckedIsSaved, UnknownIsRight, Nothing
<1>7. MarkedIsAnswered
  BY <1>1 DEF MarkedIsAnswered, Marked
<1> QED
  BY <1>2, <1>4, <1>5, <1>6, <1>7 DEF IInv

\* Every step of the server, of its clients or of the operator preserves IInv.
LEMMA Inductive == IInv /\ [Next]_vars => IInv'
<1> SUFFICES ASSUME IInv, [Next]_vars PROVE IInv'
  OBVIOUS
<1>1. CASE TitanicRequest
  BY <1>1, RequestStep
<1>2. CASE TitanicReply
  BY <1>2, ReplyStep
<1>3. CASE TitanicClose
  BY <1>3, CloseStep
<1>4. CASE Main
  BY <1>4, MainStep
<1>5. CASE Interrupt \/ (\E a \in Actors : Ends(a)) \/ Start
  BY <1>5, ControlStep
<1>6. CASE Exit \/ AssertFails \/ (\E a \in Actors : DestroyUnset(a)) \/ Crash
  BY <1>6, DieStep DEF Exit, AssertFails, DestroyUnset, Crash
<1>7. CASE UNCHANGED vars
  BY <1>7 DEF vars, IInv, TypeOK, OnceOnly, SentIsWritten, InHand, AskedFor,
    OnlyClosedIsDeleted, EntryInWork, AckedIsSaved, UnknownIsRight, MarkedIsAnswered,
    InPipe, Queued, Marked, Current
<1> QED
  BY <1>1, <1>2, <1>3, <1>4, <1>5, <1>6, <1>7 DEF Next, Ends

-----------------------------------------------------------------------------
(* Theorems *)

\* In every reachable state each UUID is in one hand, the queue holds only
\* requests that were written, and the disk is as clients were told.
THEOREM TitanicSafety == Spec => []IInv
  BY InitGood, Inductive, PTL DEF Spec

\* Every variable of the server has its type.
THEOREM TitanicTypes == Spec => []TypeOK
<1>1. IInv => TypeOK
  BY DEF IInv
<1> QED
  BY <1>1, TitanicSafety, PTL

\* The entry that the main thread works on is in the queue and not marked, and no
\* actor works on a UUID that was not issued, acknowledged or closed first.
THEOREM TitanicInHand == Spec => [](EntryInWork /\ InHand /\ AskedFor)
<1>1. IInv => EntryInWork /\ InHand /\ AskedFor
  BY DEF IInv
<1> QED
  BY <1>1, TitanicSafety, PTL

\* A request whose UUID a client was given is on disk in whole until the client
\* closes it, whenever the process is killed.
THEOREM AckedSaved == Spec => []AckedIsSaved
<1>1. IInv => AckedIsSaved
  BY DEF IInv
<1> QED
  BY <1>1, TitanicSafety, PTL

\* A marked entry has its whole reply on disk, or its request was closed: the
\* order of the writes of s_service_success and the main thread survives kills.
THEOREM MarkedAnswered == Spec => []MarkedIsAnswered
<1>1. IInv => MarkedIsAnswered
  BY DEF IInv
<1> QED
  BY <1>1, TitanicSafety, PTL

\* titanic.reply says "400" only of a request that its client has closed.
THEOREM UnknownRight == Spec => []UnknownIsRight
<1>1. IInv => UnknownIsRight
  BY DEF IInv
<1> QED
  BY <1>1, TitanicSafety, PTL

\* The main thread loads no request that is being written or was cut short.
THEOREM LoadsWhole == Spec => LoadsWholeRequest
<1>1. IInv /\ [Next]_vars => [LoadRequest => disk.req[Current] # "partial"]_vars
  <2> SUFFICES ASSUME IInv, LoadRequest PROVE disk.req[Current] # "partial"
    OBVIOUS
  <2>1. TypeOK
    BY DEF IInv
  <2>2. main.next \in DOMAIN disk.queue
    BY <2>1, Types, MainTypes, LenProperties DEF LoadRequest, AtEntry, MainType
  <2>3. Current \in Uuids /\ Queued(Current)
    BY <2>1, <2>2, Types DEF Current, Queued, Entry
  <2> QED
    BY <2>3 DEF IInv, SentIsWritten
<1> QED
  BY <1>1, TitanicSafety, PTL DEF Spec, LoadsWholeRequest

\* A request is not called again once its entry is marked, also after a kill and
\* a restart, because no other entry has its UUID.
THEOREM CalledUntilMarked == Spec => NotCalledAgain
<1>1. IInv /\ [Next]_vars =>
        [main'.at = "calling" /\ main.at # "calling" => ~Marked(Current')]_vars
  <2> SUFFICES ASSUME IInv, [Next]_vars, main'.at = "calling", main.at # "calling"
               PROVE  ~Marked(Current')
    BY DEF vars
  <2>1. LoadRequest
    <3>1. main' # main
      OBVIOUS
    <3>2. ~TitanicRequest /\ ~TitanicReply /\ ~TitanicClose
      BY <3>1 DEF TitanicRequest, TitanicReply, TitanicClose, LookForReply, LoadReply,
        LookForRequest, memory
    <3>3. ~Interrupt /\ ~Start /\ (\A a \in Actors : ~Ends(a))
      <4>1. TypeOK
        BY DEF IInv
      <4> QED
        BY <3>1, <4>1, MainTypes
        DEF Interrupt, Start, Ends, Leave, LeaveEarly, Signalled, Quit, Goto, MainType
    <3>4. ~Exit /\ ~AssertFails /\ (\A a \in Actors : ~DestroyUnset(a)) /\ ~Crash
      BY DEF Exit, AssertFails, DestroyUnset, Crash, Die, Polling
    <3>5. ~PollUuid /\ ~PollTimeout /\ ~EndOfQueue /\ ~Skip /\ ~NoReply /\ ~Mark
      <4>1. TypeOK
        BY DEF IInv
      <4> QED
        BY <4>1, MainTypes
        DEF PollUuid, PollTimeout, EndOfQueue, Skip, NoReply, Mark, Goto, Polling, MainType
    <3>6. ~SaveReply /\ \A reply \in Replies : ~GetReply(reply)
      <4>1. TypeOK
        BY DEF IInv
      <4> QED
        BY <4>1, MainTypes DEF SaveReply, GetReply, MainAt, MainType
    <3> QED
      BY <3>1, <3>2, <3>3, <3>4, <3>5, <3>6 DEF Next, Ends, Main, vars
  <2>2. TypeOK
    BY DEF IInv
  <2>3. disk' = disk /\ main'.next = main.next
    BY <2>1, <2>2, MainTypes DEF LoadRequest, Goto, MainType
  <2>4. main.next \in DOMAIN disk.queue /\ disk.queue[main.next].mark = "-"
    BY <2>1, <2>2, Types, MainTypes, LenProperties DEF LoadRequest, AtEntry, MainType
  <2>5. Current' = Current
    BY <2>3 DEF Current
  <2>6. ~Marked(Current)
    <3> SUFFICES ASSUME NEW i \in DOMAIN disk.queue,
                        disk.queue[i] = [uuid |-> Current, mark |-> "+"]
                 PROVE  FALSE
      BY DEF Marked
    <3>1. disk.queue[i].uuid = disk.queue[main.next].uuid /\ disk.queue[i].mark = "+"
      BY DEF Current
    <3>2. i = main.next
      BY <2>4, <3>1 DEF IInv, OnceOnly
    <3> QED
      BY <2>4, <3>1, <3>2
  <2> QED
    BY <2>5, <2>6 DEF Marked
<1> QED
  BY <1>1, TitanicSafety, PTL DEF Spec, NotCalledAgain

-----------------------------------------------------------------------------
(***************************************************************************)
(* Titanic implements RequestStore: each step of one of its threads is a   *)
(* step of the store, or one in which nothing is said.                     *)
(***************************************************************************)

\* The file of a request that was closed is gone, and does not come back.
ClosedIsDeleted == \A u \in seen.closed : disk.req[u] = "none"

\* The requests whose entries are marked.
Finished == {u \in Uuids : Marked(u)}

\* The reply of a request that is finished and open is on disk.
LEMMA FinishedHasReply ==
  ASSUME IInv, NEW u \in Finished \ seen.closed
  PROVE  disk.rep[u] \in Replies
BY DEF IInv, MarkedIsAnswered, Finished

\* What a step that writes neither .req files nor seen does to closed requests.
LEMMA ClosedStays ==
  ASSUME ClosedIsDeleted, disk'.req = disk.req, seen'.closed = seen.closed
  PROVE  ClosedIsDeleted'
BY DEF ClosedIsDeleted

\* Steps of the main thread write the queue and replies, never a request.
LEMMA MainKeepsRequests ==
  ASSUME TypeOK, Main
  PROVE  disk'.req = disk.req /\ seen' = seen
BY Types DEF Main, PollUuid, PollTimeout, EndOfQueue, Skip, LoadRequest, NoReply, GetReply,
  SaveReply, Mark

\* No step brings a closed request back.
LEMMA ClosedStep ==
  ASSUME IInv, ClosedIsDeleted, [Next]_vars
  PROVE  ClosedIsDeleted'
<1>1. TypeOK
  BY DEF IInv
<1>2. CASE TitanicRequest
  <2>1. CASE \E u \in Uuids : ReceiveRequest(u)
    <3>1. PICK u \in Uuids : ReceiveRequest(u)
      BY <2>1
    <3>2. u \notin seen.closed
      BY <3>1 DEF ReceiveRequest, IInv, OnlyClosedIsDeleted
    <3>3. seen'.closed = seen.closed /\ disk'.req = [disk.req EXCEPT ![u] = "partial"]
      BY <1>1, <3>1, Types DEF ReceiveRequest
    <3> QED
      BY <1>1, <3>2, <3>3, Types DEF ClosedIsDeleted
  <2>2. CASE SaveRequest
    <3>1. UuidOf("request") \notin seen.closed
      BY <2>2 DEF SaveRequest, At, UuidOf, IInv, InHand, OnlyClosedIsDeleted
    <3>2. seen' = seen /\ disk'.req = [disk.req EXCEPT ![UuidOf("request")] = "whole"]
      BY <1>1, <2>2, Types DEF SaveRequest
    <3> QED
      BY <1>1, <3>1, <3>2, Types DEF ClosedIsDeleted
  <2>3. CASE QueueRequest \/ Acknowledge
    BY <1>1, <2>3, ClosedStays, Types DEF QueueRequest, Acknowledge
  <2> QED
    BY <1>2, <2>1, <2>2, <2>3 DEF TitanicRequest
<1>3. CASE TitanicReply
  BY <1>3, ClosedStays DEF TitanicReply, LookForReply, LoadReply, LookForRequest
<1>4. CASE TitanicClose
  <2>1. CASE \E u \in Uuids : CloseRequest(u)
    <3>1. PICK u \in Uuids : CloseRequest(u)
      BY <2>1
    <3>2. /\ seen'.closed = seen.closed \cup {u}
          /\ disk'.req = [disk.req EXCEPT ![u] = "none"]
      BY <1>1, <3>1, Types DEF CloseRequest
    <3> QED
      BY <1>1, <3>2, Types DEF ClosedIsDeleted
  <2>2. CASE CloseReply
    BY <1>1, <2>2, ClosedStays, Types DEF CloseReply
  <2> QED
    BY <1>4, <2>1, <2>2 DEF TitanicClose
<1>5. CASE Main
  BY <1>1, <1>5, ClosedStays, MainKeepsRequests
<1>6. CASE Interrupt \/ (\E a \in Actors : Ends(a)) \/ Start
  BY <1>6, ClosedStays DEF Interrupt, Ends, Leave, LeaveEarly, Signalled, Quit, Start
<1>7. CASE Exit \/ AssertFails \/ (\E a \in Actors : DestroyUnset(a)) \/ Crash
  BY <1>7, ClosedStays DEF Exit, AssertFails, DestroyUnset, Crash, Die
<1>8. CASE UNCHANGED vars
  BY <1>8, ClosedStays DEF vars
<1> QED
  BY <1>2, <1>3, <1>4, <1>5, <1>6, <1>7, <1>8 DEF Next, Ends

-----------------------------------------------------------------------------
(* The steps of the threads as steps of the store *)

\* A step that says nothing, marks no entry and tells no client anything.
LEMMA QuietStep ==
  ASSUME answer' = Nothing, Finished' = Finished, seen' = seen,
         Question' \in {Question, [of |-> "nothing"]}
  PROVE  Promise!Quiet
BY DEF Promise!Quiet, Promise!Silent, Promise!Unasked, Nothing, Finished

\* titanic.request receives a request and tells its client the UUID.
LEMMA RequestIsStored ==
  ASSUME IInv, TitanicRequest
  PROVE  Promise!Next
<1>1. TypeOK /\ answer' = Nothing
  BY DEF IInv, TitanicRequest
<1>2. disk'.queue = disk.queue /\ actor'["reply"] = actor["reply"]
  BY <1>1, Types DEF TitanicRequest, ReceiveRequest, SaveRequest, QueueRequest, Acknowledge,
    Move, Rest, Actors
<1>3. Finished' = Finished /\ Question' = Question
  BY <1>2 DEF Finished, Marked, Question, UuidOf
<1>4. CASE \E u \in Uuids : ReceiveRequest(u)
  <2>1. PICK u \in Uuids : ReceiveRequest(u)
    BY <1>4
  <2>2. /\ seen'.issued = seen.issued \cup {u}
        /\ seen'.acked = seen.acked /\ seen'.closed = seen.closed
    BY <1>1, <2>1, Types DEF ReceiveRequest
  <2>3. Promise!Receive(u)
    BY <1>1, <1>3, <2>1, <2>2
    DEF ReceiveRequest, Promise!Receive, Promise!Silent, Nothing, Finished
  <2> QED
    BY <2>3 DEF Promise!Next
<1>5. CASE SaveRequest \/ QueueRequest
  <2>1. seen' = seen
    BY <1>5 DEF SaveRequest, QueueRequest
  <2> QED
    BY <1>1, <1>3, <2>1, QuietStep DEF Promise!Next
<1>6. CASE Acknowledge
  <2> DEFINE u == UuidOf("request")
  <2>1. /\ seen'.acked = seen.acked \cup {u}
        /\ seen'.issued = seen.issued /\ seen'.closed = seen.closed
    BY <1>1, <1>6, Types DEF Acknowledge
  <2>2. u \in seen.issued \ seen.acked /\ u \in Uuids
    BY <1>1, <1>6, Types DEF Acknowledge, At, UuidOf, IInv, InHand
  <2>3. Promise!Acknowledge(u)
    BY <1>1, <1>3, <2>1, <2>2 DEF Promise!Acknowledge, Promise!Silent, Nothing, Finished
  <2> QED
    BY <2>2, <2>3 DEF Promise!Next
<1> QED
  BY <1>4, <1>5, <1>6 DEF TitanicRequest

\* titanic.reply answers what is right at some time since it was asked: a reply
\* that it finds is still that of a finished request when it is loaded, and one
\* that it misses belongs to a request that was not finished, or was closed.
LEMMA ReplyIsStored ==
  ASSUME IInv, ClosedIsDeleted, TitanicReply
  PROVE  Promise!Next
<1>1. TypeOK /\ disk' = disk /\ seen' = seen
  BY DEF IInv, TitanicReply, LookForReply, LoadReply, LookForRequest
<1>2. Finished' = Finished
  BY <1>1 DEF Finished, Marked
<1>3. "reply" \in Actors /\ DOMAIN actor = Actors
  BY <1>1, Types DEF Actors
<1>4. CASE \E u \in Uuids : LookForReply(u)
  <2>1. PICK u \in Uuids : LookForReply(u)
    BY <1>4
  <2>2. actor'["reply"] = [at |-> IF disk.rep[u] # "none" THEN "found" ELSE "missing",
                           uuid |-> u]
    BY <1>3, <2>1 DEF LookForReply, Move
  <2>3. Question' = [of |-> IF disk.rep[u] # "none" THEN "reply" ELSE "status", uuid |-> u]
    BY <2>2 DEF Question, UuidOf
  <2>4. Question = [of |-> "nothing"]
    BY <2>1 DEF LookForReply, At, Question
  <2>5. u \in Finished \ seen.closed => disk.rep[u] # "none"
    BY FinishedHasReply DEF Replies
  <2>6. Question' \in [of : {"reply", "status"}, uuid : {u}]
    BY <2>3
  <2>7. u \in Finished \ seen.closed => Question'.of = "reply"
    BY <2>3, <2>5
  <2>8. u \in seen.acked /\ answer' = Nothing
    BY <2>1 DEF LookForReply
  <2>9. Promise!Ask(u)
    BY <1>1, <1>2, <2>4, <2>6, <2>7, <2>8
    DEF Promise!Ask, Promise!Unasked, Promise!Silent, Nothing, Finished
  <2> QED
    BY <2>9 DEF Promise!Next
<1>5. CASE LoadReply
  <2> DEFINE u == UuidOf("reply")
  <2>1. Question = [of |-> "reply", uuid |-> u]
    BY <1>5 DEF LoadReply, At, Question
  <2>2. Question' = [of |-> "nothing"]
    BY <1>3, <1>5 DEF LoadReply, Rest, Idle, Question
  <2>3. answer' = [uuid |-> u, code |-> "200", body |-> disk.rep[u]]
    BY <1>5 DEF LoadReply
  <2>4. u \in Finished \ seen.closed => disk.rep[u] \in Replies
    BY FinishedHasReply
  <2>5. Promise!SayReply
    BY <1>1, <1>2, <2>1, <2>2, <2>3, <2>4 DEF Promise!SayReply, Promise!Unasked, Finished
  <2> QED
    BY <2>5 DEF Promise!Next
<1>6. CASE LookForRequest
  <2> DEFINE u == UuidOf("reply")
  <2>1. Question = [of |-> "status", uuid |-> u]
    BY <1>6 DEF LookForRequest, At, Question
  <2>2. Question' = [of |-> "nothing"]
    BY <1>3, <1>6 DEF LookForRequest, Rest, Idle, Question
  <2>3. answer' = [uuid |-> u, body |-> "none",
                   code |-> IF disk.req[u] # "none" THEN "300" ELSE "400"]
    BY <1>6 DEF LookForRequest
  <2>4. u \in seen.acked
    BY <1>6 DEF LookForRequest, At, UuidOf, IInv, AskedFor
  <2>5. u \in seen.closed <=> disk.req[u] = "none"
    BY <2>4 DEF ClosedIsDeleted, IInv, AckedIsSaved
  <2>6. Promise!SayStatus
    BY <1>1, <1>2, <2>1, <2>2, <2>3, <2>5 DEF Promise!SayStatus, Promise!Unasked, Finished
  <2> QED
    BY <2>6 DEF Promise!Next
<1> QED
  BY <1>4, <1>5, <1>6 DEF TitanicReply

\* titanic.close closes a request when it deletes the .req file.
LEMMA CloseIsStored ==
  ASSUME IInv, TitanicClose
  PROVE  Promise!Next
<1>1. TypeOK /\ answer' = Nothing
  BY DEF IInv, TitanicClose
<1>2. disk'.queue = disk.queue /\ actor'["reply"] = actor["reply"]
  BY <1>1, Types DEF TitanicClose, CloseRequest, CloseReply, Move, Rest, Actors
<1>3. Finished' = Finished /\ Question' = Question
  BY <1>2 DEF Finished, Marked, Question, UuidOf
<1>4. CASE \E u \in Uuids : CloseRequest(u)
  <2>1. PICK u \in Uuids : CloseRequest(u)
    BY <1>4
  <2>2. /\ seen'.closed = seen.closed \cup {u}
        /\ seen'.issued = seen.issued /\ seen'.acked = seen.acked
    BY <1>1, <2>1, Types DEF CloseRequest
  <2>3. Promise!Close(u)
    BY <1>1, <1>3, <2>1, <2>2
    DEF CloseRequest, Promise!Close, Promise!Silent, Nothing, Finished
  <2> QED
    BY <2>3 DEF Promise!Next
<1>5. CASE CloseReply
  <2>1. seen' = seen
    BY <1>5 DEF CloseReply
  <2> QED
    BY <1>1, <1>3, <2>1, QuietStep DEF Promise!Next
<1> QED
  BY <1>4, <1>5 DEF TitanicClose

\* The main thread finishes a request when it marks its entry.
LEMMA MainIsStored ==
  ASSUME IInv, Main
  PROVE  Promise!Next
<1>1. TypeOK /\ answer' = Nothing /\ seen' = seen /\ actor' = actor
  BY DEF IInv, Main
<1>2. Question' = Question
  BY <1>1 DEF Question, UuidOf
<1>3. CASE PollUuid
  <2>1. /\ disk'.queue = Append(disk.queue, [uuid |-> Head(pipe), mark |-> "-"])
        /\ disk.queue \in Seq(Entry)
    BY <1>1, <1>3, Types DEF PollUuid
  <2>2. \A u \in Uuids : Marked(u)' <=> Marked(u)
    BY <2>1, AppendProperties, LenProperties DEF Marked
  <2> QED
    BY <1>1, <1>2, <2>2, QuietStep DEF Promise!Next, Finished
<1>4. CASE Mark
  <2> DEFINE k == main.next
  <2>1. k \in DOMAIN disk.queue /\ disk.queue[k].mark = "-"
    BY <1>4 DEF Mark, MainAt, IInv, EntryInWork
  <2>2. disk.queue[k] = [uuid |-> Current, mark |-> "-"] /\ Current \in Uuids
    BY <1>1, <2>1, Types DEF Current, Entry
  <2>3. /\ DOMAIN disk'.queue = DOMAIN disk.queue
        /\ disk'.queue[k] = [uuid |-> Current, mark |-> "+"]
        /\ \A i \in DOMAIN disk.queue : i # k => disk'.queue[i] = disk.queue[i]
    BY <1>1, <1>4, <2>1, <2>2, Types DEF Mark
  <2>4. \A u \in Uuids : Marked(u)' <=> (Marked(u) \/ u = Current)
    BY <2>1, <2>2, <2>3 DEF Marked
  <2>5. ~Marked(Current)
    <3> SUFFICES ASSUME NEW i \in DOMAIN disk.queue,
                        disk.queue[i] = [uuid |-> Current, mark |-> "+"]
                 PROVE  FALSE
      BY DEF Marked
    <3>1. i = k
      BY <2>1, <2>2 DEF IInv, OnceOnly
    <3> QED
      BY <2>2, <3>1
  <2>6. Current \in seen.issued
    BY <2>1, <2>2 DEF IInv, SentIsWritten, Queued, Current
  <2>7. Finished' = Finished \cup {Current} /\ Current \notin Finished
    BY <2>2, <2>4, <2>5 DEF Finished
  <2>8. Promise!Finish(Current)
    BY <1>1, <1>2, <2>6, <2>7 DEF Promise!Finish, Promise!Silent, Nothing, Finished
  <2> QED
    BY <2>2, <2>8 DEF Promise!Next
<1>5. CASE PollTimeout \/ EndOfQueue \/ Skip \/ LoadRequest \/ NoReply
           \/ (\E reply \in Replies : GetReply(reply)) \/ SaveReply
  <2>1. disk'.queue = disk.queue
    BY <1>1, <1>5, Types DEF PollTimeout, EndOfQueue, Skip, LoadRequest, NoReply, GetReply,
      SaveReply
  <2>2. Finished' = Finished
    BY <2>1 DEF Finished, Marked
  <2> QED
    BY <1>1, <1>2, <2>2, QuietStep DEF Promise!Next
<1> QED
  BY <1>3, <1>4, <1>5 DEF Main

\* The process may forget a question, and nothing that it was told.
LEMMA ProcessIsStored ==
  ASSUME IInv,
         \/ Interrupt \/ (\E a \in Actors : Ends(a)) \/ Start
         \/ Exit \/ AssertFails \/ (\E a \in Actors : DestroyUnset(a)) \/ Crash
  PROVE  Promise!Next
<1>1. answer' = Nothing /\ disk' = disk /\ seen' = seen
  BY DEF Interrupt, Ends, Leave, LeaveEarly, Signalled, Quit, Start, Exit, AssertFails,
    DestroyUnset, Crash, Die
<1>2. Finished' = Finished
  BY <1>1 DEF Finished, Marked
<1>3. "reply" \in Actors /\ DOMAIN actor = Actors
  BY Types DEF IInv, Actors
<1>4. CASE Interrupt \/ Start
  <2>1. Question' = Question
    BY <1>4 DEF Interrupt, Start, Question, UuidOf
  <2> QED
    BY <1>1, <1>2, <2>1, QuietStep DEF Promise!Next
<1>5. CASE \E a \in Actors : Ends(a)
  <2>1. PICK a \in Actors : Ends(a)
    BY <1>5
  <2>2. Question' = Question
    BY <1>3, <2>1 DEF Ends, Leave, LeaveEarly, Signalled, Quit, At, Move, Question, UuidOf
  <2> QED
    BY <1>1, <1>2, <2>2, QuietStep DEF Promise!Next
<1>6. CASE Exit \/ AssertFails \/ (\E a \in Actors : DestroyUnset(a)) \/ Crash
  <2>1. Question' = [of |-> "nothing"]
    BY <1>3, <1>6 DEF Exit, AssertFails, DestroyUnset, Crash, Die, Idle, Question
  <2> QED
    BY <1>1, <1>2, <2>1, QuietStep DEF Promise!Next
<1> QED
  BY <1>4, <1>5, <1>6

-----------------------------------------------------------------------------
(* The theorem *)

\* The Titanic server keeps the promise of RequestStore: what its three actors
\* say of a request agrees with one state per request, although the threads
\* share files without a lock and the process may be killed at any step.
THEOREM TitanicImplementsStore == Spec => KeepsPromise
<1>1. Init => Promise!Init /\ ClosedIsDeleted
  BY DEF Init, Promise!Init, Promise!Silent, Promise!Unasked, Nothing, Question, Idle, Actors,
    Marked, ClosedIsDeleted
<1>2. IInv /\ ClosedIsDeleted /\ [Next]_vars => [Promise!Next]_(Promise!vars)
  <2> SUFFICES ASSUME IInv, ClosedIsDeleted, [Next]_vars
               PROVE  Promise!Next \/ UNCHANGED Promise!vars
    OBVIOUS
  <2>1. CASE UNCHANGED vars
    BY <2>1 DEF vars, Promise!vars, Question, UuidOf, Marked
  <2> QED
    BY <2>1, RequestIsStored, ReplyIsStored, CloseIsStored, MainIsStored, ProcessIsStored
    DEF Next, Ends
<1>3. IInv /\ ClosedIsDeleted /\ [Next]_vars => ClosedIsDeleted'
  BY ClosedStep
<1>4. Spec => []ClosedIsDeleted
  BY <1>1, <1>3, TitanicSafety, PTL DEF Spec
<1> QED
  BY <1>1, <1>2, <1>4, TitanicSafety, PTL DEF Spec, KeepsPromise, Promise!Spec
=============================================================================
