---------------------------- MODULE WebhookIntake ----------------------------
(***************************************************************************)
(* The webhook route (webhook_controller.py) between GitHub and the job    *)
(* queue.  Several requests are in progress at once; each one awaits the   *)
(* deduper, then the queue or the thread of a synchronous review.  The     *)
(* deduper is known by its contract, the queue by its at-least-once        *)
(* promise: the modules that implement them are checked on their own.      *)
(*                                                                         *)
(* GitHub is outside the repository.  It sends a delivery, may send it     *)
(* twice, and sends it again, with the same X-GitHub-Delivery id, when the *)
(* last answer was no success.                                             *)
(***************************************************************************)
EXTENDS Integers, FiniteSets

CONSTANTS
  Ids,         \* X-GitHub-Delivery ids
  SyncIds,     \* those whose payload carries code: reviewed synchronously
  Handlers,    \* requests in progress at once
  TTL,         \* the window of the deduper
  RetryAfter,  \* how long GitHub waits before it sends again
  MaxTroubles, \* bound: failures, double sends and forgotten ids of a behaviour
  None         \* no delivery

ASSUME IntakeAssumption ==
  /\ SyncIds \subseteq Ids /\ None \notin Ids
  /\ TTL \in Nat \ {0} /\ RetryAfter \in Nat
  /\ MaxTroubles \in Nat

(* No delivery needs more requests than this. *)
Attempts == 1..(1 + MaxTroubles)

(* A job is known by the request that enqueued it. *)
Jobs == Ids \X Attempts

VARIABLES
  pc,        \* of each handler: what it awaits
  request,   \* of each handler: the delivery and the attempt it serves
  age,       \* the deduper: time since each id was let through
  answer,    \* the deduper: its last answer
  stored,    \* the queue: jobs it holds
  reviewed,  \* the queue: jobs reviewed
  sent,      \* GitHub: requests sent for each id
  response,  \* GitHub: the last response for each id
  waited,    \* GitHub: time since that response, up to RetryAfter
  answers,   \* history: every response each id got
  expiries,  \* history: windows of each id that ended
  counts     \* failures, double sends and forgotten ids so far

dedup  == <<age, answer>>
queue  == <<stored, reviewed>>
github == <<sent, response, waited, answers>>
vars   == <<pc, request, dedup, queue, github, expiries, counts>>

Dedup == INSTANCE DedupContract
Queue == INSTANCE AtLeastOnce WITH Poison <- {}

Successes == {"queued", "duplicate", "processed", "error"}     \* HTTP 200
Failures  == {"unauthorized", "failed", "timeout"}             \* 401, 500, no answer
Idle == [id |-> None, attempt |-> 0]

Init ==
  /\ pc = [h \in Handlers |-> "idle"]
  /\ request = [h \in Handlers |-> Idle]
  /\ Dedup!Init /\ Queue!Init
  /\ sent = [id \in Ids |-> 0]
  /\ response = [id \in Ids |-> "none"]
  /\ waited = [id \in Ids |-> 0]
  /\ answers = [id \in Ids |-> {}]
  /\ expiries = [id \in Ids |-> 0]
  /\ counts = [failures |-> 0, doubles |-> 0, forgets |-> 0]

-----------------------------------------------------------------------------
(* Helpers *)

Count(what) ==
  /\ counts.failures + counts.doubles + counts.forgets < MaxTroubles
  /\ counts' = [counts EXCEPT ![what] = @ + 1]

GoTo(h, state) ==
  /\ pc' = [pc EXCEPT ![h] = state]
  /\ UNCHANGED <<request, github>>

Respond(h, status) ==
  LET id == request[h].id IN
    /\ pc' = [pc EXCEPT ![h] = "idle"]
    /\ request' = [request EXCEPT ![h] = Idle]
    /\ response' = [response EXCEPT ![id] = status]
    /\ waited' = [waited EXCEPT ![id] = 0]
    /\ answers' = [answers EXCEPT ![id] = @ \union {status}]
    /\ UNCHANGED sent

Job(h) == <<request[h].id, request[h].attempt>>

Pending(id) == \E h \in Handlers : request[h].id = id

-----------------------------------------------------------------------------
(* GitHub *)

Send(h, id) ==
  /\ pc[h] = "idle"
  /\ pc' = [pc EXCEPT ![h] = "received"]
  /\ request' = [request EXCEPT ![h] = [id |-> id, attempt |-> sent[id] + 1]]
  /\ sent' = [sent EXCEPT ![id] = @ + 1]
  /\ UNCHANGED <<dedup, queue, response, waited, answers, expiries>>

Deliver(h, id) == sent[id] = 0 /\ Send(h, id) /\ UNCHANGED counts

DoubleSend(h, id) == sent[id] > 0 /\ Count("doubles") /\ Send(h, id)

Redeliver(h, id) ==
  /\ response[id] \in Failures
  /\ ~ Pending(id)
  /\ waited[id] = RetryAfter
  /\ Send(h, id)
  /\ UNCHANGED counts

-----------------------------------------------------------------------------
(* The route *)

(* mutant: the signature is verified after the deduper *)
RejectRecorded(h) ==
  /\ pc[h] = "received"
  /\ Count("failures")
  /\ Dedup!LetThrough(request[h].id)
  /\ Respond(h, "unauthorized")
  /\ UNCHANGED <<queue, expiries>>

(* verify_webhook_signature runs before the route and before the deduper. *)
Reject(h) ==
  /\ pc[h] = "received"
  /\ Count("failures")
  /\ Respond(h, "unauthorized")
  /\ UNCHANGED <<dedup, queue, expiries>>

CheckDuplicate(h) ==
  /\ pc[h] = "received"
  /\ Dedup!Duplicate(request[h].id)
  /\ Respond(h, "duplicate")
  /\ UNCHANGED <<queue, expiries, counts>>

Route(h) == GoTo(h, IF request[h].id \in SyncIds THEN "reviewing" ELSE "enqueueing")

(* mutant: the id is recorded later, with the job *)
CheckFreshUnrecorded(h) ==
  /\ pc[h] = "received"
  /\ ~ age[request[h].id] < TTL
  /\ Route(h)
  /\ UNCHANGED <<dedup, queue, expiries, counts>>

CheckFresh(h) ==
  /\ pc[h] = "received"
  /\ ~ age[request[h].id] < TTL
  /\ Dedup!LetThrough(request[h].id)
  /\ Route(h)
  /\ UNCHANGED <<queue, expiries, counts>>

(* The deduper has dropped the id, or its Redis does not answer. *)
CheckForgotten(h) ==
  /\ pc[h] = "received"
  /\ age[request[h].id] < TTL
  /\ Count("forgets")
  /\ Dedup!LetThrough(request[h].id)
  /\ Route(h)
  /\ UNCHANGED <<queue, expiries>>

EnqueueOk(h) ==
  /\ pc[h] = "enqueueing"
  /\ Queue!Store(Job(h))
  /\ Respond(h, "queued")
  /\ UNCHANGED <<dedup, expiries, counts>>

(* mutant: the failure is logged and the answer is the usual one *)
EnqueueFailsSilently(h) ==
  /\ pc[h] = "enqueueing"
  /\ Count("failures")
  /\ Respond(h, "queued")
  /\ UNCHANGED <<dedup, queue, expiries>>

(* The queue raises; the job may have been stored all the same. *)
EnqueueFails(h) ==
  /\ pc[h] = "enqueueing"
  /\ Count("failures")
  /\ Queue!Store(Job(h)) \/ UNCHANGED queue
  /\ Respond(h, "failed")
  /\ UNCHANGED <<dedup, expiries>>

(* _webhook_impl: the review runs in a thread, its end or its exception    *)
(* becomes the answer, and both are HTTP 200.                              *)
SyncDone(h) ==
  /\ pc[h] = "reviewing"
  /\ \/ Respond(h, "processed") /\ UNCHANGED counts
     \/ Count("failures") /\ Respond(h, "error")
  /\ UNCHANGED <<dedup, queue, expiries>>

(* The process that serves the request dies before it answers: GitHub sees *)
(* a timeout.  A job it was enqueueing may have been stored.               *)
Die(h) ==
  /\ pc[h] # "idle"
  /\ Count("failures")
  /\ \/ pc[h] = "enqueueing" /\ Queue!Store(Job(h))
     \/ UNCHANGED queue
  /\ Respond(h, "timeout")
  /\ UNCHANGED <<dedup, expiries>>

-----------------------------------------------------------------------------
(* Time, and the worker behind the queue *)

Tick ==
  /\ Dedup!Tick
  /\ waited' = [id \in Ids |->
       IF response[id] \in Failures /\ waited[id] < RetryAfter THEN waited[id] + 1 ELSE waited[id]]
  /\ expiries' = [id \in Ids |-> expiries[id] + IF age[id] = TTL - 1 THEN 1 ELSE 0]
  /\ UNCHANGED <<pc, request, queue, sent, response, answers, counts>>

Review(job) ==
  /\ Queue!Review(job)
  /\ UNCHANGED <<pc, request, dedup, github, expiries, counts>>

Release(job) ==
  /\ job \in stored
  /\ Queue!Release(job)
  /\ UNCHANGED <<pc, request, dedup, github, expiries, counts>>

Handle(h) ==
  \/ CheckDuplicate(h) \/ CheckFresh(h) \/ CheckForgotten(h) \/ Reject(h)
  \/ EnqueueOk(h) \/ EnqueueFails(h) \/ SyncDone(h) \/ Die(h)

Next ==
  \/ \E h \in Handlers : Handle(h)
  \/ \E h \in Handlers, id \in Ids : Deliver(h, id) \/ DoubleSend(h, id) \/ Redeliver(h, id)
  \/ \E job \in Jobs : Review(job) \/ Release(job)
  \/ Tick

Spec == Init /\ [][Next]_vars

(* The event loop runs the handlers, the worker reviews what is stored     *)
(* (EventuallyReviewed of RedisJobQueue), time passes, and GitHub sends a  *)
(* failed delivery again.                                                  *)
FairSpec ==
  /\ Spec
  /\ \A h \in Handlers : WF_vars(Handle(h))
  /\ WF_vars(\E h \in Handlers, id \in Ids : Redeliver(h, id))
  /\ WF_vars(\E job \in stored \ reviewed : Review(job))
  /\ WF_vars(Tick)

-----------------------------------------------------------------------------
JobsOf(id) == {job \in stored \union reviewed : job[1] = id}

(* "queued" is no promise the queue does not keep: the delivery has a job. *)
QueuedHasJob == \A id \in Ids : "queued" \in answers[id] => JobsOf(id) # {}

(* However a delivery is doubled, retried and interleaved with itself, it  *)
(* makes one job for each window of the deduper, and one for each time the *)
(* deduper forgot it.                                                      *)
OneJobPerWindow ==
  \A id \in Ids : Cardinality(JobsOf(id)) <= 1 + expiries[id] + counts.forgets

(* A delivery whose requests were all refused for their signature is not   *)
(* remembered: once the secret is right it is no duplicate.                *)
RejectedLeavesNoTrace ==
  \A id \in Ids :
    /\ answers[id] \subseteq {"unauthorized"}
    /\ \A h \in Handlers : request[h].id = id => pc[h] = "received"
    => age[id] = TTL

(* A delivery the route answered "queued" is reviewed in the end. *)
QueuedIsReviewed ==
  \A id \in Ids :
    "queued" \in answers[id] ~> \E job \in reviewed : job[1] = id

(* A delivery that failed is queued after all once GitHub sends it again,  *)
(* unless there were doubles and one of its own requests was answered      *)
(* "duplicate" meanwhile.                                                  *)
FailedIsQueuedLater ==
  \A id \in Ids \ SyncIds :
    response[id] \in Failures ~>
      \/ JobsOf(id) # {}
      \/ counts.doubles > 0 /\ "duplicate" \in answers[id]
=============================================================================
