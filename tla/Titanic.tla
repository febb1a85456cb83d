------------------------------- MODULE Titanic -------------------------------
(***************************************************************************)
(* The Titanic server of titanic.c: a process whose main thread owns a     *)
(* queue on disk and calls services through the broker, and whose three    *)
(* actors are Majordomo workers: titanic.request saves a client's request  *)
(* under a new UUID, titanic.reply looks for the reply to a UUID, and      *)
(* titanic.close forgets a UUID.                                           *)
(*                                                                         *)
(* The four threads share a directory and no lock.  Each action below is   *)
(* what a thread does between two accesses to the disk, or to the pipe     *)
(* from titanic.request to the main thread, that another thread or a crash *)
(* can tell apart.                                                         *)
(***************************************************************************)
EXTENDS Integers, Sequences, FiniteSets

CONSTANTS
  Uuids,      \* the UUIDs of requests
  NoUuid,     \* what an idle actor works on
  Dead,       \* the UUIDs of requests to a service that may never answer
  MayCrash,   \* may the process be killed?
  MayStop     \* may the operator interrupt it?

ASSUME UuidsAssumption == NoUuid \notin Uuids /\ Dead \subseteq Uuids

Actors == {"request", "reply", "close"}

VARIABLES
  disk,         \* the directory .titanic
  pipe,         \* UUIDs sent to the main thread and not received yet
  actor,        \* where each of the actors is
  main,         \* where the main thread is
  interrupted,  \* zctx_interrupted
  stop,         \* the actors that a "shutdown" request will reach
  status,       \* of the process: "up", "down" (exited or killed), "aborted"
  answer,       \* what titanic.reply answered in the latest step
  seen          \* what clients have done: the UUIDs issued, acknowledged, closed

vars == <<disk, pipe, actor, main, interrupted, stop, status, answer, seen>>
memory == <<pipe, main, interrupted, stop, status>>

-----------------------------------------------------------------------------
(* Data *)

(***************************************************************************)
(* A file that was opened for writing and not closed is "partial": its     *)
(* bytes are in the buffer of stdio.  A reply is the answer of a worker or *)
(* a NAK of the broker, which the code does not tell apart.                *)
(***************************************************************************)
Replies  == {"whole"}
Entry    == [uuid : Uuids, mark : {"-", "+"}]
DiskType == [req   : [Uuids -> {"none", "partial", "whole"}],
             rep   : [Uuids -> {"none", "partial"} \cup Replies],
             queue : Seq(Entry)]

Idle    == [at |-> "idle", uuid |-> NoUuid]
Polling == [at |-> "poll", next |-> 1, reply |-> "none"]
Nothing == [uuid |-> NoUuid, code |-> "none", body |-> "none"]

Queued(u) == \E i \in DOMAIN disk.queue : disk.queue[i].uuid = u
Marked(u) == \E i \in DOMAIN disk.queue : disk.queue[i] = [uuid |-> u, mark |-> "+"]

-----------------------------------------------------------------------------
(* titanic_request: each action says what becomes of actor, disk, pipe, seen *)

At(a, place) == status = "up" /\ actor[a].at = place
UuidOf(a)    == actor[a].uuid

Move(a, place, u) == actor' = [actor EXCEPT ![a] = [at |-> place, uuid |-> u]]
Rest(a)           == actor' = [actor EXCEPT ![a] = Idle]

\* A new UUID is generated and its file opened.
ReceiveRequest(u) ==
  /\ At("request", "idle")
  /\ u \notin seen.issued
  /\ seen' = [seen EXCEPT !.issued = @ \cup {u}]
  /\ disk' = [disk EXCEPT !.req[u] = "partial"]
  /\ Move("request", "saving", u)
  /\ UNCHANGED pipe

SaveRequest ==
  /\ At("request", "saving")
  /\ disk' = [disk EXCEPT !.req[UuidOf("request")] = "whole"]
  /\ Move("request", "queueing", UuidOf("request"))
  /\ UNCHANGED <<pipe, seen>>

\* Mutants: the main thread hears of the UUID before its file is written; the
\* UUID is freed before it is sent.
QueueRequest_Early ==
  /\ At("request", "saving")
  /\ pipe' = Append(pipe, UuidOf("request"))
  /\ Move("request", "acknowledging", UuidOf("request"))
  /\ UNCHANGED <<disk, seen>>
QueueRequest_Freed ==
  /\ At("request", "queueing")
  /\ pipe' = Append(pipe, NoUuid)
  /\ Move("request", "acknowledging", UuidOf("request"))
  /\ UNCHANGED <<disk, seen>>

QueueRequest ==
  /\ At("request", "queueing")
  /\ pipe' = Append(pipe, UuidOf("request"))
  /\ Move("request", "acknowledging", UuidOf("request"))
  /\ UNCHANGED <<disk, seen>>

\* Mutant: the client gets its UUID as soon as the file is open.
Acknowledge_Early ==
  /\ At("request", "saving") \/ At("request", "acknowledging")
  /\ seen' = [seen EXCEPT !.acked = @ \cup {UuidOf("request")}]
  /\ IF At("request", "acknowledging") THEN Rest("request") ELSE UNCHANGED actor
  /\ UNCHANGED <<disk, pipe>>

\* The client is answered "200" and the UUID.
Acknowledge ==
  /\ At("request", "acknowledging")
  /\ seen' = [seen EXCEPT !.acked = @ \cup {UuidOf("request")}]
  /\ Rest("request")
  /\ UNCHANGED <<disk, pipe>>

TitanicRequest ==
  /\ \/ \E u \in Uuids : ReceiveRequest(u)
     \/ SaveRequest
     \/ QueueRequest
     \/ Acknowledge
  /\ answer' = Nothing
  /\ UNCHANGED <<main, interrupted, stop, status>>

-----------------------------------------------------------------------------
(* titanic_reply, asked for a UUID that a client was given *)

LookForReply(u) ==
  /\ At("reply", "idle")
  /\ u \in seen.acked
  /\ Move("reply", IF disk.rep[u] # "none" THEN "found" ELSE "missing", u)
  /\ answer' = Nothing
  /\ UNCHANGED <<memory, disk, seen>>

\* The file is opened and loaded; of one that is being written, what is there.
LoadReply ==
  /\ At("reply", "found")
  /\ disk.rep[UuidOf("reply")] # "none"
  /\ answer' = [uuid |-> UuidOf("reply"), code |-> "200", body |-> disk.rep[UuidOf("reply")]]
  /\ Rest("reply")
  /\ UNCHANGED <<memory, disk, seen>>

LookForRequest ==
  /\ At("reply", "missing")
  /\ answer' = [uuid |-> UuidOf("reply"), body |-> "none",
                code |-> IF disk.req[UuidOf("reply")] # "none" THEN "300" ELSE "400"]
  /\ Rest("reply")
  /\ UNCHANGED <<memory, disk, seen>>

TitanicReply == (\E u \in Uuids : LookForReply(u)) \/ LoadReply \/ LookForRequest

-----------------------------------------------------------------------------
(* titanic_close, for a UUID that a client was given, also more than once *)

CloseRequest(u) ==
  /\ At("close", "idle")
  /\ u \in seen.acked
  /\ seen' = [seen EXCEPT !.closed = @ \cup {u}]
  /\ disk' = [disk EXCEPT !.req[u] = "none"]
  /\ Move("close", "deleting", u)

CloseReply ==
  /\ At("close", "deleting")
  /\ disk' = [disk EXCEPT !.rep[UuidOf("close")] = "none"]
  /\ Rest("close")
  /\ UNCHANGED seen

TitanicClose ==
  /\ (\E u \in Uuids : CloseRequest(u)) \/ CloseReply
  /\ answer' = Nothing
  /\ UNCHANGED memory

-----------------------------------------------------------------------------
(* The main thread: each action says what becomes of main, disk and pipe *)

MainAt(place) == status = "up" /\ main.at = place
Goto(place)   == main' = [main EXCEPT !.at = place]
Current       == disk.queue[main.next].uuid

\* zmq_poll returns with a UUID, which is appended to the queue, or after a
\* second; then the queue is scanned from its start.
PollUuid ==
  /\ MainAt("poll")
  /\ pipe # <<>>
  /\ pipe' = Tail(pipe)
  /\ disk' = [disk EXCEPT !.queue = Append(@, [uuid |-> Head(pipe), mark |-> "-"])]
  /\ Goto("scan")

PollTimeout ==
  /\ MainAt("poll")
  /\ pipe = <<>>
  /\ Goto("scan")
  /\ UNCHANGED <<disk, pipe>>

EndOfQueue ==
  /\ MainAt("scan")
  /\ main.next > Len(disk.queue)
  /\ main' = Polling
  /\ UNCHANGED <<disk, pipe>>

\* The entry under main.next has this mark.
AtEntry(mark) ==
  /\ MainAt("scan")
  /\ main.next <= Len(disk.queue)
  /\ disk.queue[main.next].mark = mark

\* On to the next entry; an interrupt ends the scan.
Proceed == main' = IF interrupted THEN Polling
                   ELSE [Polling EXCEPT !.at = "scan", !.next = main.next + 1]

Skip == AtEntry("+") /\ Proceed /\ UNCHANGED <<disk, pipe>>

\* Mutant: entries that are marked are called too.
LoadRequest_Marked ==
  /\ AtEntry("-") \/ AtEntry("+")
  /\ Goto(IF disk.req[Current] = "none" THEN "marking" ELSE "calling")
  /\ UNCHANGED <<disk, pipe>>

\* s_service_success loads the request; one that a client has closed counts as
\* done.
LoadRequest ==
  /\ AtEntry("-")
  /\ Goto(IF disk.req[Current] = "none" THEN "marking" ELSE "calling")
  /\ UNCHANGED <<disk, pipe>>

\* Mutants: a request is sent again and again until it is answered; a call that
\* failed is marked like one that was answered.
NoReply_Retry == MainAt("calling") /\ UNCHANGED <<main, disk, pipe>>
NoReply_Marked ==
  /\ MainAt("calling")
  /\ disk' = [disk EXCEPT !.queue[main.next].mark = "+"]
  /\ Proceed
  /\ UNCHANGED pipe

\* The lookup in mmi.service fails, or one of the two calls times out; the
\* service may have got the request all the same.
NoReply == MainAt("calling") /\ Proceed /\ UNCHANGED <<disk, pipe>>

\* Any reply will do, a NAK too; its file is opened, which empties it.
GetReply(reply) ==
  /\ MainAt("calling")
  /\ disk' = [disk EXCEPT !.rep[Current] = "partial"]
  /\ main' = [main EXCEPT !.at = "saving", !.reply = reply]
  /\ UNCHANGED pipe

\* The file is written and closed; one that was deleted meanwhile stays deleted.
SaveReply ==
  /\ MainAt("saving")
  /\ disk' = [disk EXCEPT !.rep[Current] = IF @ = "none" THEN @ ELSE main.reply]
  /\ main' = [main EXCEPT !.at = "marking", !.reply = "none"]
  /\ UNCHANGED pipe

\* Mutants: the entry is marked before the reply is on disk; the request is
\* deleted once it is answered.
Mark_Early ==
  /\ MainAt("marking") \/ MainAt("saving")
  /\ disk' = [disk EXCEPT !.queue[main.next].mark = "+"]
  /\ IF MainAt("marking") THEN Proceed ELSE UNCHANGED main
  /\ UNCHANGED pipe
Mark_Delete ==
  /\ MainAt("marking")
  /\ disk' = [disk EXCEPT !.queue[main.next].mark = "+", !.req[Current] = "none"]
  /\ Proceed
  /\ UNCHANGED pipe

Mark ==
  /\ MainAt("marking")
  /\ disk' = [disk EXCEPT !.queue[main.next].mark = "+"]
  /\ Proceed
  /\ UNCHANGED pipe

Main ==
  /\ \/ PollUuid \/ PollTimeout
     \/ EndOfQueue \/ Skip \/ LoadRequest
     \/ NoReply \/ (\E reply \in Replies : GetReply(reply))
     \/ SaveReply \/ Mark
  /\ answer' = Nothing
  /\ UNCHANGED <<actor, interrupted, stop, status, seen>>

-----------------------------------------------------------------------------
(* The process *)

\* The process ends: only the disk survives.
Die(how) ==
  /\ status' = how
  /\ pipe' = <<>>
  /\ actor' = [a \in Actors |-> Idle]
  /\ main' = Polling
  /\ interrupted' = FALSE
  /\ stop' = {}
  /\ answer' = Nothing
  /\ UNCHANGED <<disk, seen>>

\* The file that titanic.reply found is gone: assert(file) fails.  Of a file that is
\* being written zmsg_load may also make no message at all, which zmsg_pushstr refuses.
AssertFails ==
  /\ At("reply", "found")
  /\ disk.rep[UuidOf("reply")] \in {"none", "partial"}
  /\ Die("aborted")

\* A signal while the main thread waits in zmq_poll ends its loop: it sends a
\* "shutdown" to each actor, which the broker may or may not deliver.  At any
\* other time the signal only sets a flag, which nothing ever clears.
Interrupt ==
  /\ MayStop
  /\ status = "up" /\ main.at # "stopping"
  /\ IF main.at = "poll" /\ pipe = <<>>
     THEN /\ Goto("stopping")
          /\ stop' \in SUBSET Actors
          /\ UNCHANGED interrupted
     ELSE /\ interrupted' = TRUE
          /\ UNCHANGED <<main, stop>>
  /\ answer' = Nothing
  /\ UNCHANGED <<disk, pipe, actor, status, seen>>

\* The end of an actor between two requests.
Quit(a) ==
  /\ At(a, "idle")
  /\ Move(a, "gone", NoUuid)
  /\ answer' = Nothing
  /\ UNCHANGED <<disk, pipe, main, status, seen>>

\* An actor takes the "shutdown" from its requests and ends.
Leave(a) ==
  /\ a \in stop
  /\ Quit(a)
  /\ stop' = stop \ {a}
  /\ UNCHANGED interrupted

\* A "shutdown" ends an actor also if another client of the broker sent it, a second
\* Titanic server that stops for instance.  The main thread does not notice.
LeaveEarly(a) ==
  /\ MayStop /\ a # "request"
  /\ Quit(a)
  /\ UNCHANGED <<interrupted, stop>>

\* So does a signal that reaches the thread of the actor.
Signalled(a) ==
  /\ MayStop /\ a # "request"
  /\ Quit(a)
  /\ interrupted' = TRUE
  /\ UNCHANGED stop

\* An actor that a signal ends before its first request, which the model does not
\* tell from later ones, destroys a reply_to that was never set.
DestroyUnset(a) == MayStop /\ At(a, "idle") /\ Die("aborted")

\* zactor_destroy waits for each actor to end; then the process exits.
Exit ==
  /\ MainAt("stopping")
  /\ \A a \in Actors : actor[a].at = "gone"
  /\ Die("down")

Crash == MayCrash /\ status = "up" /\ Die("down")

Start ==
  /\ status # "up"
  /\ status' = "up"
  /\ answer' = Nothing
  /\ UNCHANGED <<disk, pipe, actor, main, interrupted, stop, seen>>

Init ==
  /\ disk = [req   |-> [u \in Uuids |-> "none"],
             rep   |-> [u \in Uuids |-> "none"],
             queue |-> <<>>]
  /\ pipe = <<>>
  /\ actor = [a \in Actors |-> Idle]
  /\ main = Polling
  /\ interrupted = FALSE
  /\ stop = {}
  /\ status = "up"
  /\ answer = Nothing
  /\ seen = [issued |-> {}, acked |-> {}, closed |-> {}]

Next ==
  \/ TitanicRequest \/ TitanicReply \/ TitanicClose \/ Main
  \/ Interrupt \/ (\E a \in Actors : Leave(a) \/ LeaveEarly(a) \/ Signalled(a)) \/ Exit
  \/ AssertFails \/ (\E a \in Actors : DestroyUnset(a)) \/ Crash \/ Start

Spec == Init /\ [][Next]_vars

Answered(u) == Main /\ MainAt("calling") /\ Current = u /\ main'.at = "saving"

\* The main thread runs; a service that is called again and again answers in
\* time, unless it is dead; from some time on the process stays up.
LiveSpec ==
  /\ Spec
  /\ WF_vars(Main)
  /\ \A u \in Uuids \ Dead : SF_vars(Answered(u))
  /\ <>[](status = "up")

-----------------------------------------------------------------------------
(* Properties *)

\* Every variable has its type.
TypeOK ==
  /\ disk \in DiskType
  /\ pipe \in Seq(Uuids)
  /\ actor \in [Actors -> [at : {"idle", "saving", "queueing", "acknowledging", "found",
                                 "missing", "deleting", "gone"},
                           uuid : Uuids \cup {NoUuid}]]
  /\ main \in [at : {"poll", "scan", "calling", "saving", "marking", "stopping"},
               next : Nat \ {0}, reply : {"none"} \cup Replies]
  /\ interrupted \in BOOLEAN
  /\ stop \subseteq Actors
  /\ status \in {"up", "down", "aborted"}
  /\ answer \in [uuid : Uuids \cup {NoUuid}, code : {"none", "200", "300", "400"},
                 body : {"none", "partial"} \cup Replies]
  /\ seen \in [issued : SUBSET Uuids, acked : SUBSET Uuids, closed : SUBSET Uuids]

\* A request whose UUID a client was given is on disk in whole until the client
\* closes it, whenever the process is killed.
AckedIsSaved == \A u \in seen.acked \ seen.closed : disk.req[u] = "whole"

\* titanic.reply never says "400" of a UUID that a client was given and has not
\* closed, although it looks at two files one after the other.
UnknownIsRight == answer.code = "400" => answer.uuid \in seen.closed

\* An entry of the queue is marked only when its reply is on disk in whole, or
\* the client has closed the request: no crash leaves a marked entry behind
\* whose reply is lost.
MarkedIsAnswered ==
  \A u \in Uuids : Marked(u) => disk.rep[u] \in Replies \/ u \in seen.closed

\* The main thread never loads a request that titanic.request is still writing,
\* or that a crash cut short.
LoadsWholeRequest == [][LoadRequest => disk.req[Current] # "partial"]_vars

\* A request is not called again once its entry is marked, across crashes too.
NotCalledAgain ==
  [][main'.at = "calling" /\ main.at # "calling" => ~Marked(Current')]_vars

\* The server is a RequestStore: its files, its pipe and the order in which its
\* threads write and read them are one state per request to its clients.  In
\* particular titanic.reply never says "300" of a request that was finished, and
\* open, when it was asked.
Question ==
  CASE actor["reply"].at = "found"   -> [of |-> "reply", uuid |-> UuidOf("reply")]
    [] actor["reply"].at = "missing" -> [of |-> "status", uuid |-> UuidOf("reply")]
    [] OTHER                         -> [of |-> "nothing"]

Promise == INSTANCE RequestStore WITH
  received <- seen.issued,
  acked    <- seen.acked,
  finished <- {u \in Uuids : Marked(u)},
  closed   <- seen.closed,
  asked    <- Question,
  said     <- answer

KeepsPromise == Promise!Spec

\* A request in the queue is answered in the end, or closed: it waits for no
\* request before it whose service is dead.  A process that was interrupted is
\* excused: the flag ends every scan after its first entry.
Interrupted == interrupted \/ main.at = "stopping"

EventuallyAnswered ==
  \A u \in Uuids \ Dead :
    Queued(u) ~> (disk.rep[u] \in Replies \/ u \in seen.closed \/ Interrupted)

\* A UUID sent to the main thread gets to the queue, unless the process ends or
\* is interrupted first.
EventuallyQueued ==
  \A u \in Uuids :
    (\E i \in DOMAIN pipe : pipe[i] = u) ~> (Queued(u) \/ status # "up" \/ Interrupted)

\* titanic.reply checks "if there's a reply for the specified request (by UUID),
\* and returns a 200": with a 200 comes the reply that was saved.
ReplyIsWhole == answer.code = "200" => answer.body # "partial"

\* The main thread saves the UUIDs of titanic.request to a disk file and throws
\* each at the workers until it gets a response: after an orderly exit each
\* request that a client was given a UUID for is in the queue.
AckedIsQueued ==
  status = "down" => \A u \in seen.acked \ seen.closed : Queued(u)

=============================================================================
