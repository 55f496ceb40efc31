------------------------ MODULE WebhookIntake_proofs ------------------------
(***************************************************************************)
(* What the webhook route owes GitHub, for every number of deliveries and  *)
(* of requests in progress, every window of the deduper and every pattern  *)
(* of failures, double sends and retries.                                  *)
(*                                                                         *)
(* OneJobPerWindow is not inductive: a request that was let through and    *)
(* waits for the queue will make a job, and a window that is open has been *)
(* used and is not yet in expiries.  Counted says both.                    *)
(***************************************************************************)
EXTENDS WebhookIntake, TLAPS, FiniteSetTheorems

Typed ==
  /\ pc \in [Handlers -> {"idle", "received", "reviewing", "enqueueing"}]
  /\ request \in [Handlers -> [id : Ids \union {None}, attempt : Nat]]
  /\ \A h \in Handlers : (pc[h] = "idle") <=> (request[h].id = None)
  /\ age \in [Ids -> 0..TTL]
  /\ sent \in [Ids -> Nat]
  /\ answers \in [Ids -> SUBSET (Successes \union Failures)]
  /\ expiries \in [Ids -> Nat]
  /\ counts \in [failures : Nat, doubles : Nat, forgets : Nat]

(* The jobs a delivery has, or will have once the queue answers *)
Passed(id) ==
  JobsOf(id) \union {Job(h) : h \in {g \in Handlers : pc[g] = "enqueueing" /\ request[g].id = id}}

(* The windows of a delivery so far: those that ended, and the open one *)
Windows(id) == expiries[id] + IF age[id] < TTL THEN 1 ELSE 0

Counted ==
  \A id \in Ids :
    /\ IsFiniteSet(Passed(id))
    /\ Cardinality(Passed(id)) <= Windows(id) + counts.forgets

IInv == Typed /\ QueuedHasJob /\ RejectedLeavesNoTrace /\ Counted

-----------------------------------------------------------------------------
(* Counting *)

(* A set that only shrinks stays within a bound that only grows. *)
LEMMA ShrinksWithin ==
  ASSUME NEW S, NEW T, IsFiniteSet(S), T \subseteq S,
         NEW n \in Nat, NEW m \in Nat, Cardinality(S) <= n, n <= m
  PROVE  IsFiniteSet(T) /\ Cardinality(T) <= m
<1>1. IsFiniteSet(T) /\ Cardinality(T) <= Cardinality(S)
  BY FS_Subset
<1>2. Cardinality(T) \in Nat /\ Cardinality(S) \in Nat
  BY <1>1, FS_CardinalityType
<1> QED BY <1>1, <1>2

(* One element more needs one more in the bound. *)
LEMMA GrowsWithin ==
  ASSUME NEW S, NEW T, NEW x, IsFiniteSet(S), T \subseteq S \union {x},
         NEW n \in Nat, NEW m \in Nat, Cardinality(S) <= n, n + 1 <= m
  PROVE  IsFiniteSet(T) /\ Cardinality(T) <= m
<1>1. /\ IsFiniteSet(S \union {x})
      /\ Cardinality(S \union {x}) = IF x \in S THEN Cardinality(S) ELSE Cardinality(S) + 1
  BY FS_AddElement
<1>2. Cardinality(S) \in Nat
  BY FS_CardinalityType
<1>3. Cardinality(S \union {x}) <= n + 1
  BY <1>1, <1>2
<1> QED BY <1>1, <1>3, ShrinksWithin

-----------------------------------------------------------------------------
(* The end of a request, whatever its answer: the actions that respond     *)
(* differ in the answer and in whether the job was stored.                 *)
Ends(h, status) ==
  /\ pc[h] # "idle"
  /\ status \in Successes \union Failures
  /\ Respond(h, status)
  /\ \/ stored' = stored
     \/ pc[h] = "enqueueing" /\ stored' = stored \union {Job(h)}
  /\ status = "queued" => stored' = stored \union {Job(h)}
  /\ status = "unauthorized" => pc[h] = "received"
  /\ counts' \in [failures : Nat, doubles : Nat, forgets : Nat]
  /\ counts'.forgets = counts.forgets
  /\ UNCHANGED <<age, reviewed, expiries>>

(* A counter of troubles moves by one. *)
LEMMA CountMoves ==
  ASSUME Typed, NEW what \in {"failures", "doubles", "forgets"}, Count(what)
  PROVE  /\ counts' \in [failures : Nat, doubles : Nat, forgets : Nat]
         /\ counts'.forgets = counts.forgets + IF what = "forgets" THEN 1 ELSE 0
  BY DEF Typed, Count

(* Every request that is answered ends this way. *)
LEMMA EndsOf ==
  ASSUME Typed, NEW h \in Handlers,
         \/ CheckDuplicate(h) \/ Reject(h) \/ EnqueueOk(h) \/ EnqueueFails(h)
         \/ SyncDone(h) \/ Die(h)
  PROVE  \E status \in Successes \union Failures : Ends(h, status)
<1> USE DEF Successes, Failures, dedup, queue
<1>0. counts \in [failures : Nat, doubles : Nat, forgets : Nat]
  BY DEF Typed
<1>1. Count("failures") => /\ counts' \in [failures : Nat, doubles : Nat, forgets : Nat]
                           /\ counts'.forgets = counts.forgets
  BY <1>0, CountMoves
<1>2. CASE CheckDuplicate(h)
  <2>1. Ends(h, "duplicate")
    BY <1>0, <1>2 DEF CheckDuplicate, Dedup!Duplicate, Ends
  <2> QED BY <2>1
<1>3. CASE Reject(h)
  <2>1. Ends(h, "unauthorized")
    BY <1>1, <1>3 DEF Reject, Ends
  <2> QED BY <2>1
<1>4. CASE EnqueueOk(h)
  <2>1. Ends(h, "queued")
    BY <1>0, <1>4 DEF EnqueueOk, Queue!Store, Ends
  <2> QED BY <2>1
<1>5. CASE EnqueueFails(h)
  <2>1. Ends(h, "failed")
    BY <1>1, <1>5 DEF EnqueueFails, Queue!Store, Ends
  <2> QED BY <2>1
<1>6. CASE SyncDone(h)
  <2>1. CASE Respond(h, "processed") /\ UNCHANGED counts
    <3>1. Ends(h, "processed")
      BY <1>0, <1>6, <2>1 DEF SyncDone, Ends
    <3> QED BY <3>1
  <2>2. CASE Count("failures") /\ Respond(h, "error")
    <3>1. Ends(h, "error")
      BY <1>1, <1>6, <2>2 DEF SyncDone, Ends
    <3> QED BY <3>1
  <2> QED BY <1>6, <2>1, <2>2 DEF SyncDone
<1>7. CASE Die(h)
  <2>1. Ends(h, "timeout")
    BY <1>1, <1>7 DEF Die, Queue!Store, Ends
  <2> QED BY <2>1
<1> QED BY <1>2, <1>3, <1>4, <1>5, <1>6, <1>7

(* The end of a request keeps every part of the invariant.  A job that is  *)
(* stored at the end was counted when the request was let through.         *)
LEMMA EndKeepsIInv ==
  ASSUME IInv, NEW h \in Handlers, NEW status, Ends(h, status)
  PROVE  IInv'
<1> DEFINE d == request[h].id
<1>1. /\ d \in Ids /\ d # None
      /\ Job(h)[1] = d
      /\ \A g \in Handlers \ {h} : pc'[g] = pc[g] /\ request'[g] = request[g] /\ Job(g)' = Job(g)
      /\ pc'[h] = "idle" /\ request'[h] = Idle /\ request'[h].id = None
  BY DEF IInv, Typed, Ends, Respond, Job, Idle
<1>2. answers' = [answers EXCEPT ![d] = @ \union {status}]
  BY DEF Ends, Respond
<1>3. Typed'
  <2>1. pc' \in [Handlers -> {"idle", "received", "reviewing", "enqueueing"}]
    BY DEF IInv, Typed, Ends, Respond
  <2>2. request' \in [Handlers -> [id : Ids \union {None}, attempt : Nat]]
    BY DEF IInv, Typed, Ends, Respond, Idle
  <2>3. \A g \in Handlers : (pc'[g] = "idle") <=> (request'[g].id = None)
    BY <1>1 DEF IInv, Typed
  <2>4. answers' \in [Ids -> SUBSET (Successes \union Failures)]
    BY <1>1, <1>2 DEF IInv, Typed, Ends
  <2> QED BY <2>1, <2>2, <2>3, <2>4 DEF IInv, Typed, Ends, Respond
<1>4. \A id \in Ids : JobsOf(id) \subseteq JobsOf(id)'
  BY DEF JobsOf, Ends
<1>5. QueuedHasJob'
  <2> SUFFICES ASSUME NEW id \in Ids, "queued" \in answers'[id] PROVE JobsOf(id)' # {}
    BY DEF QueuedHasJob
  <2>1. CASE "queued" \in answers[id]
    BY <1>4, <2>1 DEF IInv, QueuedHasJob
  <2>2. CASE "queued" \notin answers[id]
    <3>1. id = d /\ status = "queued"
      BY <1>1, <1>2, <2>2 DEF IInv, Typed
    <3>2. Job(h) \in JobsOf(id)'
      BY <1>1, <3>1 DEF JobsOf, Ends
    <3> QED BY <3>2
  <2> QED BY <2>1, <2>2
<1>6. RejectedLeavesNoTrace'
  <2> SUFFICES ASSUME NEW id \in Ids, answers'[id] \subseteq {"unauthorized"},
                      \A g \in Handlers : request'[g].id = id => pc'[g] = "received"
               PROVE  age'[id] = TTL
    BY DEF RejectedLeavesNoTrace
  <2>1. answers[id] \subseteq {"unauthorized"}
    BY <1>1, <1>2 DEF IInv, Typed
  <2>2. id = d => pc[h] = "received"
    BY <1>1, <1>2 DEF IInv, Typed, Ends
  <2>3. \A g \in Handlers : request[g].id = id => pc[g] = "received"
    BY <1>1, <2>2
  <2>4. age[id] = TTL
    BY <2>1, <2>3 DEF IInv, RejectedLeavesNoTrace
  <2> QED BY <2>4 DEF Ends
<1>7. Counted'
  <2> SUFFICES ASSUME NEW id \in Ids
               PROVE  /\ IsFiniteSet(Passed(id)')
                      /\ Cardinality(Passed(id)') <= Windows(id)' + counts'.forgets
    BY DEF Counted
  <2>1. Passed(id)' \subseteq Passed(id)
    <3>1. JobsOf(id)' \subseteq Passed(id)
      <4>1. \A x \in JobsOf(id)' : x \in JobsOf(id) \/ (pc[h] = "enqueueing" /\ x = Job(h) /\ d = id)
        BY <1>1 DEF JobsOf, Ends
      <4> QED BY <4>1 DEF Passed
    <3>2. \A g \in Handlers : pc'[g] = "enqueueing" /\ request'[g].id = id => Job(g)' \in Passed(id)
      BY <1>1 DEF Passed
    <3> QED BY <3>1, <3>2 DEF Passed
  <2>2. Windows(id)' = Windows(id) /\ counts'.forgets = counts.forgets
    BY DEF Windows, Ends
  <2>3. Windows(id) + counts.forgets \in Nat
    BY DEF Windows, IInv, Typed
  <2>4. IsFiniteSet(Passed(id)) /\ Cardinality(Passed(id)) <= Windows(id) + counts.forgets
    BY DEF IInv, Counted
  <2> HIDE DEF Passed, Windows
  <2> QED BY <2>1, <2>2, <2>3, <2>4, ShrinksWithin
<1> QED BY <1>3, <1>5, <1>6, <1>7 DEF IInv

(* The deduper lets a request through: a window opens, or the deduper has  *)
(* forgotten one.                                                          *)
LEMMA PassKeepsIInv ==
  ASSUME IInv, NEW h \in Handlers, CheckFresh(h) \/ CheckForgotten(h)
  PROVE  IInv'
<1> DEFINE d == request[h].id
<1> USE DEF queue, github
<1>1. /\ d \in Ids /\ pc[h] = "received"
      /\ pc' = [pc EXCEPT ![h] = IF d \in SyncIds THEN "reviewing" ELSE "enqueueing"]
      /\ age' = [age EXCEPT ![d] = 0]
      /\ UNCHANGED <<request, stored, reviewed, sent, answers, expiries>>
  BY DEF IInv, Typed, CheckFresh, CheckForgotten, Route, GoTo, Dedup!LetThrough
<1>2. /\ counts' \in [failures : Nat, doubles : Nat, forgets : Nat]
      /\ \/ counts'.forgets = counts.forgets /\ ~ (age[d] < TTL)
         \/ counts'.forgets = counts.forgets + 1 /\ age[d] < TTL
  <2>1. Typed
    BY DEF IInv
  <2>2. CASE CheckFresh(h)
    BY <2>1, <2>2 DEF Typed, CheckFresh
  <2>3. CASE CheckForgotten(h)
    BY <2>1, <2>3, CountMoves DEF CheckForgotten
  <2> QED BY <2>2, <2>3
<1>3. Typed'
  BY <1>1, <1>2, IntakeAssumption DEF IInv, Typed
<1>4. QueuedHasJob'
  BY <1>1 DEF IInv, QueuedHasJob, JobsOf
<1>5. RejectedLeavesNoTrace'
  <2> SUFFICES ASSUME NEW id \in Ids, answers'[id] \subseteq {"unauthorized"},
                      \A g \in Handlers : request'[g].id = id => pc'[g] = "received"
               PROVE  age'[id] = TTL
    BY DEF RejectedLeavesNoTrace
  <2>1. pc'[h] # "received"
    BY <1>1 DEF IInv, Typed
  <2>2. id # d
    BY <1>1, <2>1
  <2>3. \A g \in Handlers : request[g].id = id => g # h /\ pc[g] = "received"
    BY <1>1, <2>2 DEF IInv, Typed
  <2>4. age[id] = TTL
    BY <1>1, <2>3 DEF IInv, RejectedLeavesNoTrace
  <2> QED BY <1>1, <2>2, <2>4 DEF IInv, Typed
<1>6. Counted'
  <2> SUFFICES ASSUME NEW id \in Ids
               PROVE  /\ IsFiniteSet(Passed(id)')
                      /\ Cardinality(Passed(id)') <= Windows(id)' + counts'.forgets
    BY DEF Counted
  <2> DEFINE n == Windows(id) + counts.forgets
             m == Windows(id)' + counts'.forgets
  <2>1. IsFiniteSet(Passed(id)) /\ Cardinality(Passed(id)) <= n
    BY DEF IInv, Counted
  <2>2. n \in Nat /\ m \in Nat
    BY <1>3 DEF Windows, IInv, Typed
  <2>3. CASE id # d
    <3>1. Passed(id)' \subseteq Passed(id)
      BY <1>1, <2>3 DEF Passed, JobsOf, Job, IInv, Typed
    <3>2. Windows(id)' = Windows(id)
      BY <1>1, <2>3 DEF Windows, IInv, Typed
    <3>3. counts'.forgets >= counts.forgets
      BY <1>2 DEF IInv, Typed
    <3>4. n <= m
      BY <2>2, <3>2, <3>3, <1>3 DEF Windows, IInv, Typed
    <3> HIDE DEF Passed, n, m
    <3>5. IsFiniteSet(Passed(id)') /\ Cardinality(Passed(id)') <= m
      BY <2>1, <2>2, <3>1, <3>4, ShrinksWithin
    <3> QED BY <3>5 DEF m
  <2>4. CASE id = d
    <3>1. Passed(id)' \subseteq Passed(id) \union {Job(h)}
      BY <1>1 DEF Passed, JobsOf, Job, IInv, Typed
    <3>2. age'[id] < TTL
      BY <1>1, <2>4, IntakeAssumption DEF IInv, Typed
    <3>3. n + 1 <= m
      BY <1>1, <1>2, <1>3, <2>4, <3>2 DEF Windows, IInv, Typed
    <3> HIDE DEF Passed, n, m
    <3>5. IsFiniteSet(Passed(id)') /\ Cardinality(Passed(id)') <= m
      BY <2>1, <2>2, <3>1, <3>3, GrowsWithin
    <3> QED BY <3>5 DEF m
  <2> QED BY <2>3, <2>4
<1> QED BY <1>3, <1>4, <1>5, <1>6 DEF IInv

(* GitHub sends a request: it is received, and no job can come of it yet. *)
LEMMA SendKeepsIInv ==
  ASSUME IInv, NEW h \in Handlers, NEW id \in Ids,
         Deliver(h, id) \/ DoubleSend(h, id) \/ Redeliver(h, id)
  PROVE  IInv'
<1> USE DEF dedup, queue
<1>1. /\ pc[h] = "idle"
      /\ pc' = [pc EXCEPT ![h] = "received"]
      /\ request' = [request EXCEPT ![h] = [id |-> id, attempt |-> sent[id] + 1]]
      /\ sent' = [sent EXCEPT ![id] = @ + 1]
      /\ UNCHANGED <<age, stored, reviewed, answers, expiries>>
  BY DEF Deliver, DoubleSend, Redeliver, Send
<1>2. /\ counts' \in [failures : Nat, doubles : Nat, forgets : Nat]
      /\ counts'.forgets = counts.forgets
  <2>1. Typed
    BY DEF IInv
  <2>2. CASE UNCHANGED counts
    BY <2>1, <2>2 DEF Typed
  <2>3. CASE Count("doubles")
    BY <2>1, <2>3, CountMoves DEF Typed
  <2> QED BY <2>2, <2>3 DEF Deliver, DoubleSend, Redeliver
<1>3. Typed'
  <2>1. sent[id] + 1 \in Nat
    BY DEF IInv, Typed
  <2>2. request' \in [Handlers -> [id : Ids \union {None}, attempt : Nat]]
    BY <1>1, <2>1 DEF IInv, Typed
  <2>3. \A g \in Handlers : (pc'[g] = "idle") <=> (request'[g].id = None)
    BY <1>1, IntakeAssumption DEF IInv, Typed
  <2> QED BY <1>1, <1>2, <2>1, <2>2, <2>3 DEF IInv, Typed
<1>4. QueuedHasJob'
  BY <1>1 DEF IInv, QueuedHasJob, JobsOf
<1>5. RejectedLeavesNoTrace'
  <2>1. request[h].id \notin Ids
    BY <1>1, IntakeAssumption DEF IInv, Typed
  <2>2. \A g \in Handlers \ {h} : request'[g] = request[g] /\ pc'[g] = pc[g]
    BY <1>1 DEF IInv, Typed
  <2> QED BY <1>1, <2>1, <2>2 DEF IInv, RejectedLeavesNoTrace
<1>6. Counted'
  <2> SUFFICES ASSUME NEW e \in Ids
               PROVE  /\ IsFiniteSet(Passed(e)')
                      /\ Cardinality(Passed(e)') <= Windows(e)' + counts'.forgets
    BY DEF Counted
  <2>1. Passed(e)' \subseteq Passed(e)
    BY <1>1 DEF Passed, JobsOf, Job, IInv, Typed
  <2>2. Windows(e)' = Windows(e)
    BY <1>1 DEF Windows
  <2>3. Windows(e) + counts.forgets \in Nat
    BY DEF Windows, IInv, Typed
  <2>4. IsFiniteSet(Passed(e)) /\ Cardinality(Passed(e)) <= Windows(e) + counts.forgets
    BY DEF IInv, Counted
  <2> HIDE DEF Passed, Windows
  <2> QED BY <1>2, <2>1, <2>2, <2>3, <2>4, ShrinksWithin
<1> QED BY <1>3, <1>4, <1>5, <1>6 DEF IInv

(* The worker behind the queue moves a job, it neither makes nor loses one. *)
LEMMA WorkKeepsIInv ==
  ASSUME IInv, NEW job \in Jobs, Review(job) \/ Release(job)
  PROVE  IInv'
<1> USE DEF dedup, github
<1>1. UNCHANGED <<pc, request, age, sent, answers, expiries, counts>>
  BY DEF Review, Release
<1>2. \A id \in Ids : JobsOf(id)' = JobsOf(id)
  BY DEF Review, Release, Queue!Review, Queue!Release, JobsOf
<1>3. \A id \in Ids : Passed(id)' = Passed(id)
  BY <1>1, <1>2 DEF Passed, Job
<1>4. Typed'
  BY <1>1 DEF IInv, Typed
<1>5. QueuedHasJob'
  BY <1>1, <1>2 DEF IInv, QueuedHasJob
<1>6. RejectedLeavesNoTrace'
  BY <1>1 DEF IInv, RejectedLeavesNoTrace
<1>7. Counted'
  BY <1>1, <1>3 DEF IInv, Counted, Windows
<1> QED BY <1>4, <1>5, <1>6, <1>7 DEF IInv

(* A window that ends is counted the moment it is no longer open. *)
LEMMA TickKeepsIInv ==
  ASSUME IInv, Tick
  PROVE  IInv'
<1> USE DEF queue
<1>1. UNCHANGED <<pc, request, stored, reviewed, sent, answers, counts>>
  BY DEF Tick
<1>2. ASSUME NEW id \in Ids
      PROVE  /\ age'[id] = IF age[id] = TTL THEN TTL ELSE age[id] + 1
             /\ age'[id] \in 0..TTL
  <2>1. age'[id] = Dedup!Min({age[id] + 1, TTL}) /\ age[id] \in 0..TTL /\ TTL \in Nat
    BY IntakeAssumption DEF Tick, Dedup!Tick, IInv, Typed
  <2>2. \E x \in {age[id] + 1, TTL} : \A y \in {age[id] + 1, TTL} : x <= y
    BY <2>1
  <2>3. /\ age'[id] \in {age[id] + 1, TTL}
        /\ \A y \in {age[id] + 1, TTL} : age'[id] <= y
    BY <2>1, <2>2 DEF Dedup!Min
  <2> QED BY <2>1, <2>3
<1>3. /\ age' = [id \in Ids |-> age'[id]]
      /\ expiries' = [id \in Ids |-> expiries[id] + IF age[id] = TTL - 1 THEN 1 ELSE 0]
  BY DEF Tick, Dedup!Tick
<1>4. Typed'
  <2>1. age' \in [Ids -> 0..TTL]
    BY <1>2, <1>3
  <2>2. expiries' \in [Ids -> Nat]
    BY <1>3 DEF IInv, Typed
  <2> QED BY <1>1, <2>1, <2>2 DEF IInv, Typed
<1>5. QueuedHasJob'
  BY <1>1 DEF IInv, QueuedHasJob, JobsOf
<1>6. RejectedLeavesNoTrace'
  BY <1>1, <1>2 DEF IInv, RejectedLeavesNoTrace
<1>7. Counted'
  <2> SUFFICES ASSUME NEW id \in Ids
               PROVE  /\ IsFiniteSet(Passed(id)')
                      /\ Cardinality(Passed(id)') <= Windows(id)' + counts'.forgets
    BY DEF Counted
  <2>1. Passed(id)' = Passed(id)
    BY <1>1 DEF Passed, JobsOf, Job
  <2>2. Windows(id)' = Windows(id)
    BY <1>2, <1>3, IntakeAssumption DEF Windows, IInv, Typed
  <2> QED BY <1>1, <2>1, <2>2 DEF IInv, Counted
<1> QED BY <1>4, <1>5, <1>6, <1>7 DEF IInv

-----------------------------------------------------------------------------
LEMMA InitIInv == Init => IInv
<1> SUFFICES ASSUME Init PROVE IInv
  OBVIOUS
<1> USE DEF Init, Dedup!Init, Queue!Init
<1>1. Typed
  BY IntakeAssumption DEF Typed, Idle
<1>2. QueuedHasJob
  BY DEF QueuedHasJob
<1>3. RejectedLeavesNoTrace
  BY DEF RejectedLeavesNoTrace
<1>4. Counted
  <2>1. \A id \in Ids : Passed(id) = {}
    BY DEF Passed, JobsOf
  <2>2. IsFiniteSet({}) /\ Cardinality({}) = 0
    BY FS_EmptySet
  <2>3. \A id \in Ids : Windows(id) + counts.forgets = 0
    BY IntakeAssumption DEF Windows
  <2> QED BY <2>1, <2>2, <2>3 DEF Counted
<1> QED BY <1>1, <1>2, <1>3, <1>4 DEF IInv

LEMMA NextStep == IInv /\ [Next]_vars => IInv'
<1> SUFFICES ASSUME IInv, [Next]_vars PROVE IInv'
  OBVIOUS
<1>1. ASSUME NEW h \in Handlers, Handle(h) PROVE IInv'
  <2>1. CASE CheckFresh(h) \/ CheckForgotten(h)
    BY <2>1, PassKeepsIInv
  <2>2. CASE \/ CheckDuplicate(h) \/ Reject(h) \/ EnqueueOk(h) \/ EnqueueFails(h)
             \/ SyncDone(h) \/ Die(h)
    BY <2>2, EndsOf, EndKeepsIInv DEF IInv
  <2> QED BY <1>1, <2>1, <2>2 DEF Handle
<1>2. CASE \E h \in Handlers, id \in Ids : Deliver(h, id) \/ DoubleSend(h, id) \/ Redeliver(h, id)
  BY <1>2, SendKeepsIInv
<1>3. CASE \E job \in Jobs : Review(job) \/ Release(job)
  BY <1>3, WorkKeepsIInv
<1>4. CASE Tick
  BY <1>4, TickKeepsIInv
<1>5. CASE UNCHANGED vars
  BY <1>5 DEF vars, dedup, queue, github, IInv, Typed, QueuedHasJob, RejectedLeavesNoTrace,
              Counted, Passed, Windows, JobsOf, Job
<1> QED BY <1>1, <1>2, <1>3, <1>4, <1>5 DEF Next

(* What a delivery has left behind in every state the route can be in: the *)
(* invariant that carries the theorems below.                              *)
THEOREM Inductive == Spec => []IInv
<1> QED BY InitIInv, NextStep, PTL DEF Spec

-----------------------------------------------------------------------------
(* The results *)

(* A delivery that was ever answered "queued" has a job, in the queue or   *)
(* reviewed, whatever failed before, meanwhile and since.                  *)
THEOREM QueuedIsKept == Spec => []QueuedHasJob
BY Inductive, PTL DEF IInv

(* A delivery whose requests were all refused for their signature is not   *)
(* remembered by the deduper, though other requests for it are in progress.*)
THEOREM RefusedIsForgotten == Spec => []RejectedLeavesNoTrace
BY Inductive, PTL DEF IInv

(* However a delivery is doubled, retried and interleaved with itself, it  *)
(* makes one job for each window of the deduper and each forgotten id.     *)
THEOREM NoDoubleReview == Spec => []OneJobPerWindow
<1>1. IInv => OneJobPerWindow
  <2> SUFFICES ASSUME IInv, NEW id \in Ids
               PROVE  Cardinality(JobsOf(id)) <= 1 + expiries[id] + counts.forgets
    BY DEF OneJobPerWindow
  <2>1. JobsOf(id) \subseteq Passed(id)
    BY DEF Passed
  <2>2. IsFiniteSet(Passed(id)) /\ Cardinality(Passed(id)) <= Windows(id) + counts.forgets
    BY DEF IInv, Counted
  <2> DEFINE n == Windows(id) + counts.forgets
             m == 1 + expiries[id] + counts.forgets
  <2>3. n \in Nat /\ m \in Nat /\ n <= m
    BY DEF Windows, IInv, Typed
  <2> HIDE DEF n, m
  <2>4. Cardinality(Passed(id)) <= n
    BY <2>2 DEF n
  <2>5. Cardinality(JobsOf(id)) <= m
    BY <2>1, <2>2, <2>3, <2>4, ShrinksWithin
  <2> QED BY <2>5 DEF m
<1> QED BY <1>1, Inductive, PTL
=============================================================================
