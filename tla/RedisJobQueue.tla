---------------------------- MODULE RedisJobQueue ----------------------------
(***************************************************************************)
(* The durable job queue (redis_job_queue.py) and the worker loop that     *)
(* drives it (background_worker.py, start), run by several replicas over   *)
(* one Redis.  The two Redis lists outlive every process; everything else  *)
(* of a replica dies with it.                                              *)
(*                                                                         *)
(* One action is one Redis command together with the Python code that runs *)
(* up to the next await.  A command can fail before it takes effect, or    *)
(* take effect and lose its reply; where the code cannot tell the two      *)
(* apart and they leave different states, both are actions.                *)
(***************************************************************************)
EXTENDS Naturals, Sequences, FiniteSets, RedisLists

CONSTANTS
  Replicas,    \* processes of the application, one worker each
  Jobs,        \* well-formed envelopes, each with its own uuid
  Poison,      \* messages of the list that _parse_job rejects
  None,        \* no message in hand
  Failures,    \* which Redis failures happen, members of FailureKinds
  MaxFaults,   \* bound: Redis failures of a behaviour
  MaxRaises,   \* bound: pipeline exceptions in one life of a process
  MaxStops     \* bound: process crashes and shutdowns of a behaviour

FailureKinds == {"enqueue_lost", "dequeue", "dequeue_lost", "discard", "ack", "recover"}

ASSUME QueueAssumption ==
  /\ Jobs \cap Poison = {}
  /\ None \notin Jobs \union Poison
  /\ Failures \subseteq FailureKinds
  /\ MaxFaults \in Nat /\ MaxRaises \in Nat /\ MaxStops \in Nat

Messages == Jobs \union Poison

VARIABLES
  queue,       \* list QUEUE_KEY
  processing,  \* list PROCESSING_KEY
  pc,          \* where the worker task of each replica is
  cur,         \* the message a worker has in hand
  inflight,    \* _inflight: how many entries each job has
  arrivals,    \* history: messages in the order of their first LPUSH
  accepted,    \* history: jobs whose enqueue returned
  handed,      \* history: messages moved to PROCESSING_KEY at least once
  reviewed,    \* history: jobs whose pipeline has run to its end
  raised,      \* history: exceptions of the pipeline since the process started
  faults,      \* Redis failures so far
  stops        \* crashes and shutdowns so far

redis  == <<queue, processing>>
worker == <<pc, cur, inflight>>
counts == <<raised, faults, stops>>
vars   == <<redis, worker, arrivals, accepted, handed, reviewed, counts>>

Stored == Range(queue) \union Range(processing)

(* stopping: the task was cancelled, the review goes on in its thread *)
States == {"down", "recovering", "polling", "discarding", "reviewing", "acking", "stopping"}

Init ==
  /\ queue = <<>> /\ processing = <<>>
  /\ pc = [r \in Replicas |-> "down"]
  /\ cur = [r \in Replicas |-> None]
  /\ inflight = [r \in Replicas |-> [m \in Jobs |-> 0]]
  /\ arrivals = <<>> /\ accepted = {} /\ handed = {} /\ reviewed = {}
  /\ raised = [r \in Replicas |-> 0]
  /\ faults = 0 /\ stops = 0

-----------------------------------------------------------------------------
(* Helpers *)

MayFail(kind) ==
  /\ kind \in Failures
  /\ faults < MaxFaults
  /\ faults' = faults + 1

GoTo(r, state, m) ==
  /\ pc' = [pc EXCEPT ![r] = state]
  /\ cur' = [cur EXCEPT ![r] = m]

(* mutant: the job handed out is not entered *)
RememberNot(r, m) == UNCHANGED inflight

Remember(r, m) == inflight' = [inflight EXCEPT ![r][m] = @ + 1]

Forget(r, m) == inflight' = [inflight EXCEPT ![r][m] = @ - 1]

(* mutant: the newest message first *)
TakeNewest ==
  /\ queue # <<>>
  /\ processing' = LPush(processing, Head(queue))
  /\ queue' = Tail(queue)
  /\ handed' = handed \union {Head(queue)}

(* mutant: RPOP, the message is in no list while it is processed *)
TakeNextPop ==
  /\ queue # <<>>
  /\ queue' = Front(queue)
  /\ handed' = handed \union {Last(queue)}
  /\ UNCHANGED processing

(* LMOVE QUEUE_KEY PROCESSING_KEY RIGHT LEFT on a list that is not empty *)
TakeNext ==
  /\ queue # <<>>
  /\ processing' = LPush(processing, Last(queue))
  /\ queue' = Front(queue)
  /\ handed' = handed \union {Last(queue)}

(* mutant: the processing list is deleted after its first message *)
PutBackDelete ==
  /\ processing # <<>>
  /\ queue' = LPush(queue, Last(processing))
  /\ processing' = <<>>

(* LMOVE PROCESSING_KEY QUEUE_KEY RIGHT LEFT on a list that is not empty *)
PutBack ==
  /\ processing # <<>>
  /\ queue' = LPush(queue, Last(processing))
  /\ processing' = Front(processing)

(* LREM PROCESSING_KEY 1 raw *)
RemoveProcessing(m) ==
  /\ processing' = LRem(processing, m)
  /\ UNCHANGED queue

-----------------------------------------------------------------------------
(* enqueue, called by the webhook route of any replica *)

(* A process answers webhooks until it shuts down. *)
Serving == \E r \in Replicas : pc[r] \notin {"down", "stopping"}

Push(m) ==
  /\ Serving
  /\ m \notin Range(arrivals)
  /\ queue' = LPush(queue, m)
  /\ arrivals' = Append(arrivals, m)
  /\ UNCHANGED <<processing, worker, handed, reviewed, raised, stops>>

(* The uuid makes every envelope new.  An LPUSH that fails before it takes *)
(* effect leaves no trace here: its envelope is never sent again.          *)
Enqueue(m) ==
  /\ Push(m)
  /\ accepted' = accepted \union {m}
  /\ UNCHANGED faults

EnqueueReplyLost(m) ==
  /\ MayFail("enqueue_lost")
  /\ Push(m)
  /\ UNCHANGED accepted

(* The client library sends a command again when its reply is lost: the    *)
(* same envelope is pushed a second time.                                  *)
EnqueueResent(m) ==
  /\ Serving
  /\ m \in Range(arrivals) \ accepted
  /\ queue' = LPush(queue, m)
  /\ accepted' = accepted \union {m}
  /\ UNCHANGED <<processing, worker, arrivals, handed, reviewed, counts>>

(* Something else writes a message that is no job to the list. *)
ForeignPush(m) ==
  /\ m \notin Range(arrivals)
  /\ queue' = LPush(queue, m)
  /\ arrivals' = Append(arrivals, m)
  /\ UNCHANGED <<processing, worker, accepted, handed, reviewed, counts>>

-----------------------------------------------------------------------------
(* start, and recover_pending: the worker begins by putting back everything *)
(* it finds in the processing list                                          *)

(* mutant: the worker does not recover *)
StartPolling(r) ==
  /\ pc[r] = "down"
  /\ GoTo(r, "polling", None)
  /\ UNCHANGED <<redis, inflight, arrivals, accepted, handed, reviewed, counts>>

Start(r) ==
  /\ pc[r] = "down"
  /\ GoTo(r, "recovering", None)
  /\ UNCHANGED <<redis, inflight, arrivals, accepted, handed, reviewed, counts>>

RecoverOne(r) ==
  /\ pc[r] = "recovering"
  /\ PutBack
  /\ UNCHANGED <<worker, arrivals, accepted, handed, reviewed, counts>>

RecoverDone(r) ==
  /\ pc[r] = "recovering"
  /\ processing = <<>>
  /\ GoTo(r, "polling", None)
  /\ UNCHANGED <<redis, inflight, arrivals, accepted, handed, reviewed, counts>>

(* Any Redis error ends the recovery: the worker goes on with what it has. *)
(* (An LMOVE whose reply is lost is RecoverOne followed by this action.)   *)
RecoverFails(r) ==
  /\ pc[r] = "recovering"
  /\ MayFail("recover")
  /\ GoTo(r, "polling", None)
  /\ UNCHANGED <<redis, inflight, arrivals, accepted, handed, reviewed, raised, stops>>

-----------------------------------------------------------------------------
(* dequeue *)

PollEmpty(r) ==
  /\ pc[r] = "polling"
  /\ queue = <<>>
  /\ UNCHANGED vars

DequeueJob(r) ==
  /\ pc[r] = "polling"
  /\ TakeNext
  /\ Last(queue) \in Jobs
  /\ Remember(r, Last(queue))
  /\ GoTo(r, "reviewing", Last(queue))
  /\ UNCHANGED <<arrivals, accepted, reviewed, counts>>

DequeuePoison(r) ==
  /\ pc[r] = "polling"
  /\ TakeNext
  /\ Last(queue) \in Poison
  /\ GoTo(r, "discarding", Last(queue))
  /\ UNCHANGED <<inflight, arrivals, accepted, reviewed, counts>>

(* The command fails before it moves anything: back off and try again. *)
DequeueFails(r) ==
  /\ pc[r] = "polling"
  /\ MayFail("dequeue")
  /\ UNCHANGED <<redis, worker, arrivals, accepted, handed, reviewed, raised, stops>>

(* The message is moved but the reply is lost: nobody has it in hand. *)
DequeueReplyLost(r) ==
  /\ pc[r] = "polling"
  /\ MayFail("dequeue_lost")
  /\ TakeNext
  /\ UNCHANGED <<worker, arrivals, accepted, reviewed, raised, stops>>

(* mutant: a poison message is skipped but not removed *)
DiscardNothing(r) ==
  /\ pc[r] = "discarding"
  /\ GoTo(r, "polling", None)
  /\ UNCHANGED <<redis, inflight, arrivals, accepted, handed, reviewed, counts>>

(* _discard_processing *)
Discard(r) ==
  /\ pc[r] = "discarding"
  /\ RemoveProcessing(cur[r])
  /\ GoTo(r, "polling", None)
  /\ UNCHANGED <<inflight, arrivals, accepted, handed, reviewed, counts>>

DiscardFails(r) ==
  /\ pc[r] = "discarding"
  /\ MayFail("discard")
  /\ GoTo(r, "polling", None)
  /\ UNCHANGED <<redis, inflight, arrivals, accepted, handed, reviewed, raised, stops>>

-----------------------------------------------------------------------------
(* the pipeline of one job, in a thread, and ack *)

ReviewDone(r) ==
  /\ pc[r] = "reviewing"
  /\ reviewed' = reviewed \union {cur[r]}
  /\ GoTo(r, "acking", cur[r])
  /\ UNCHANGED <<redis, inflight, arrivals, accepted, handed, counts>>

(* mutant: the ack stands in a finally *)
ReviewRaisesAcked(r) ==
  /\ pc[r] = "reviewing"
  /\ raised[r] < MaxRaises
  /\ raised' = [raised EXCEPT ![r] = @ + 1]
  /\ GoTo(r, "acking", cur[r])
  /\ UNCHANGED <<redis, inflight, arrivals, accepted, handed, reviewed, faults, stops>>

(* The pipeline raises: the loop logs it and goes on, without an ack. *)
ReviewRaises(r) ==
  /\ pc[r] = "reviewing"
  /\ raised[r] < MaxRaises
  /\ raised' = [raised EXCEPT ![r] = @ + 1]
  /\ GoTo(r, "polling", None)
  /\ UNCHANGED <<redis, inflight, arrivals, accepted, handed, reviewed, faults, stops>>

Ack(r) ==
  /\ pc[r] = "acking"
  /\ Forget(r, cur[r])
  /\ RemoveProcessing(cur[r])
  /\ GoTo(r, "polling", None)
  /\ UNCHANGED <<arrivals, accepted, handed, reviewed, counts>>

(* mutant: the entry is popped after the LREM *)
AckFailsKept(r) ==
  /\ pc[r] = "acking"
  /\ MayFail("ack")
  /\ GoTo(r, "polling", None)
  /\ UNCHANGED <<redis, inflight, arrivals, accepted, handed, reviewed, raised, stops>>

AckFails(r) ==
  /\ pc[r] = "acking"
  /\ MayFail("ack")
  /\ Forget(r, cur[r])
  /\ GoTo(r, "polling", None)
  /\ UNCHANGED <<redis, arrivals, accepted, handed, reviewed, raised, stops>>

-----------------------------------------------------------------------------
(* the end of a process *)

Exit(r) ==
  /\ GoTo(r, "down", None)
  /\ inflight' = [inflight EXCEPT ![r] = [m \in Jobs |-> 0]]
  /\ raised' = [raised EXCEPT ![r] = 0]

(* The process is killed: its thread dies with it. *)
Crash(r) ==
  /\ pc[r] # "down"
  /\ stops < MaxStops
  /\ stops' = stops + 1
  /\ Exit(r)
  /\ UNCHANGED <<redis, arrivals, accepted, handed, reviewed, faults>>

(* The lifespan cancels the worker task in the middle of a review.  The    *)
(* exception is no Exception, so nothing is acked; the thread cannot be    *)
(* cancelled and the process waits for it.                                 *)
Cancel(r) ==
  /\ pc[r] = "reviewing"
  /\ stops < MaxStops
  /\ stops' = stops + 1
  /\ GoTo(r, "stopping", cur[r])
  /\ UNCHANGED <<redis, inflight, arrivals, accepted, handed, reviewed, raised, faults>>

ThreadEnds(r) ==
  /\ pc[r] = "stopping"
  /\ reviewed' = reviewed \union {cur[r]}
  /\ Exit(r)
  /\ UNCHANGED <<redis, arrivals, accepted, handed, faults, stops>>

-----------------------------------------------------------------------------
Client ==
  \/ \E m \in Jobs : Enqueue(m) \/ EnqueueReplyLost(m) \/ EnqueueResent(m)
  \/ \E m \in Poison : ForeignPush(m)

(* The steps the event loop and the thread of a replica take on their own. *)
Step(r) ==
  \/ Start(r) \/ RecoverOne(r) \/ RecoverDone(r)
  \/ PollEmpty(r) \/ DequeueJob(r) \/ DequeuePoison(r) \/ Discard(r)
  \/ ReviewDone(r) \/ Ack(r) \/ ThreadEnds(r)

Fault(r) ==
  \/ RecoverFails(r) \/ DequeueFails(r) \/ DequeueReplyLost(r) \/ DiscardFails(r)
  \/ ReviewRaises(r) \/ AckFails(r) \/ Crash(r) \/ Cancel(r)

Next ==
  \/ Client
  \/ \E r \in Replicas : Step(r) \/ Fault(r)

Spec == Init /\ [][Next]_vars

(* uvicorn is restarted when it exits, the event loop runs what is ready,  *)
(* and every call of the pipeline has a timeout.  Callers need not call.   *)
FairSpec == Spec /\ \A r \in Replicas : WF_vars(Step(r))

-----------------------------------------------------------------------------
TypeOK ==
  /\ queue \in Seq(Messages) /\ processing \in Seq(Messages)
  /\ pc \in [Replicas -> States]
  /\ cur \in [Replicas -> Messages \union {None}]
  /\ inflight \in [Replicas -> [Jobs -> Nat]]
  /\ arrivals \in Seq(Messages)
  /\ accepted \subseteq Jobs /\ handed \subseteq Messages /\ reviewed \subseteq Jobs
  /\ raised \in [Replicas -> Nat] /\ faults \in Nat /\ stops \in Nat

(* A job whose enqueue returned is in one of the two lists until a review  *)
(* of it has run to its end, whatever fails in between ("never lost").     *)
NoJobLost == accepted \subseteq reviewed \union Stored

InHand(r) == pc[r] \in {"reviewing", "acking", "stopping"}

(* What a worker knows of the message in its hand: it discards poison      *)
(* only, acks what it reviewed only, and a job it reviews is stored unless *)
(* another worker has reviewed and acked a copy of it meanwhile.           *)
SoundAt(r) ==
  /\ pc[r] = "discarding" => cur[r] \in Poison
  /\ InHand(r) => cur[r] \in Jobs /\ inflight[r][cur[r]] >= 1
  /\ pc[r] \in {"reviewing", "stopping"} => cur[r] \in Stored \union reviewed
  /\ pc[r] = "acking" => cur[r] \in reviewed

InHandSound == \A r \in Replicas : SoundAt(r)

(* _inflight holds the job in hand and the jobs whose pipeline raised, and *)
(* nothing else: an ack gives its entry back even when Redis refuses it.   *)
InflightExact ==
  \A r \in Replicas :
    MapThenSumSet(LAMBDA m : inflight[r][m], Jobs)
      = raised[r] + IF InHand(r) THEN 1 ELSE 0

(* Recovery may put an old job behind newer ones, but a job is handed out  *)
(* for the first time only after every message pushed before it.           *)
FirstHandOutInOrder ==
  \A j \in DOMAIN arrivals :
    arrivals[j] \in handed => \A i \in 1..j : arrivals[i] \in handed

(* A job a worker has in hand is in the processing list, where a restart   *)
(* would find it, until the worker acks it.                                *)
InHandIsRecoverable ==
  \A r \in Replicas : InHand(r) => cur[r] \in Range(processing)

(* Every accepted job is reviewed in the end, whatever crashes.            *)
EventuallyReviewed == \A m \in Jobs : m \in accepted ~> m \in reviewed

(* A poison message cannot loop forever. *)
PoisonDropped == \A m \in Poison : m \in Stored ~> m \notin Stored

(* The lists implement the abstract promise. *)
Promise == INSTANCE AtLeastOnce WITH stored <- Stored
ImplementsAtLeastOnce == Promise!Spec
=============================================================================
