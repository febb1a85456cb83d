---------------------------- MODULE ServiceQueue ----------------------------
(***************************************************************************)
(* What the broker promises of the ordinary services, whatever its lists   *)
(* and timers look like.  A request that a service accepts is handed, once *)
(* and in order of arrival, to a worker that is then a member of that      *)
(* service; it waits only as long as the service has no member.  Members   *)
(* may leave at any time and a restart loses whatever waits.               *)
(***************************************************************************)
EXTENDS Integers, Sequences

CONSTANTS Workers, Services, Requests

VARIABLES
  pending,  \* pending[s]: the requests of s that wait, oldest first
  members,  \* members[s]: the workers of s
  out       \* the requests handed to workers by the latest step

vars == <<pending, members, out>>

Init ==
  /\ pending = [s \in Services |-> <<>>]
  /\ members = [s \in Services |-> {}]
  /\ out = <<>>

\* ws receive the requests of batch, in its order.
Handed(batch, ws) ==
  /\ Len(out') = Len(batch)
  /\ \A i \in 1..Len(batch) : /\ out'[i].request = batch[i]
                              /\ out'[i].to \in ws

\* batch is what waits for s in this step: all of it goes out, or all of it stays.
Deliver(s, batch) ==
  \/ /\ members'[s] = {}
     /\ pending' = [pending EXCEPT ![s] = batch]
     /\ out' = <<>>
  \/ /\ members'[s] # {}
     /\ pending' = [pending EXCEPT ![s] = <<>>]
     /\ Handed(batch, members'[s])

\* Members of any service may be dropped in any step.
Dropping(before) ==
  /\ members' \in [Services -> SUBSET Workers]
  /\ \A s \in Services : members'[s] \subseteq before[s]

Accept(s, r) ==
  /\ Dropping(members)
  /\ Deliver(s, Append(pending[s], r))

Join(w, s) ==
  /\ \A t \in Services : w \notin members[t]
  /\ Dropping([members EXCEPT ![s] = @ \cup {w}])
  /\ w \in members'[s]
  /\ Deliver(s, pending[s])

Leave ==
  /\ Dropping(members)
  /\ out' = <<>>
  /\ UNCHANGED pending

Restart ==
  /\ pending' = [s \in Services |-> <<>>]
  /\ members' = [s \in Services |-> {}]
  /\ out' = <<>>

Next ==
  \/ \E s \in Services, r \in Requests : Accept(s, r)
  \/ \E w \in Workers, s \in Services : Join(w, s)
  \/ Leave
  \/ Restart

Spec == Init /\ [][Next]_vars
=============================================================================
