---------------------------- MODULE RequestStore ----------------------------
(***************************************************************************)
(* What Titanic promises to its clients, whatever its files and threads    *)
(* look like.  A request that was received is finished at some later time, *)
(* for good, and its client may close it.  A question about a request may  *)
(* be answered late, after the request has moved on: what is said agrees   *)
(* with the state of the request at some time between the question and the *)
(* answer.  A process that ends forgets the question and nothing else.     *)
(***************************************************************************)
CONSTANTS Uuids, Replies

VARIABLES
  received,  \* the requests that have a UUID
  acked,     \* those whose clients know it
  finished,  \* those that will not be sent to a worker again
  closed,    \* those that their clients have done with
  asked,     \* the question in work: its UUID and what will be said of it
  said       \* the answer of the latest step

vars == <<received, acked, finished, closed, asked, said>>

Unasked == [of |-> "nothing"]
Silent(answer) == answer.code = "none"

Init ==
  /\ received = {} /\ acked = {} /\ finished = {} /\ closed = {}
  /\ asked = Unasked
  /\ Silent(said)

Receive(u) ==
  /\ u \notin received
  /\ received' = received \cup {u}
  /\ Silent(said')
  /\ UNCHANGED <<acked, finished, closed, asked>>

Acknowledge(u) ==
  /\ u \in received \ acked
  /\ acked' = acked \cup {u}
  /\ Silent(said')
  /\ UNCHANGED <<received, finished, closed, asked>>

\* A request may be finished before its client knows its UUID.
Finish(u) ==
  /\ u \in received \ finished
  /\ finished' = finished \cup {u}
  /\ Silent(said')
  /\ UNCHANGED <<received, acked, closed, asked>>

Close(u) ==
  /\ u \in acked
  /\ closed' = closed \cup {u}
  /\ Silent(said')
  /\ UNCHANGED <<received, acked, finished, asked>>

\* A request that is finished and open is answered with its reply; of any other
\* it is open until later what is said.
Ask(u) ==
  /\ asked = Unasked
  /\ u \in acked
  /\ asked' \in [of : {"reply", "status"}, uuid : {u}]
  /\ u \in finished \ closed => asked'.of = "reply"
  /\ Silent(said')
  /\ UNCHANGED <<received, acked, finished, closed>>

\* The reply is whole if the request is finished and open.
SayReply ==
  /\ asked.of = "reply"
  /\ said'.uuid = asked.uuid /\ said'.code = "200"
  /\ asked.uuid \in finished \ closed => said'.body \in Replies
  /\ asked' = Unasked
  /\ UNCHANGED <<received, acked, finished, closed>>

SayStatus ==
  /\ asked.of = "status"
  /\ said'.uuid = asked.uuid
  /\ said'.code = IF asked.uuid \in closed THEN "400" ELSE "300"
  /\ asked' = Unasked
  /\ UNCHANGED <<received, acked, finished, closed>>

\* Nothing is said; the question may be lost with the process.
Quiet ==
  /\ Silent(said')
  /\ asked' \in {asked, Unasked}
  /\ UNCHANGED <<received, acked, finished, closed>>

Next ==
  \/ \E u \in Uuids : Receive(u) \/ Acknowledge(u) \/ Finish(u) \/ Close(u) \/ Ask(u)
  \/ SayReply \/ SayStatus
  \/ Quiet

Spec == Init /\ [][Next]_vars
=============================================================================
