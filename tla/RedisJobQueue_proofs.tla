------------------------- MODULE RedisJobQueue_proofs -------------------------
(***************************************************************************)
(* The durable queue keeps its promise for every number of replicas, jobs, *)
(* poison messages, Redis failures, pipeline exceptions and crashes.       *)
(*                                                                         *)
(* NoJobLost is not inductive: a worker about to ack, or to discard, must  *)
(* be known to have the right to.  InHandSound is that knowledge.          *)
(*                                                                         *)
(* Two further parts follow: the order in which messages are first handed  *)
(* out, and the two _inflight entries of every job a process holds.        *)
(***************************************************************************)
EXTENDS RedisJobQueue, ListFacts, FiniteSetTheorems, TLAPS

-----------------------------------------------------------------------------
(* What the Redis list commands do to the messages a list holds *)

(* LPUSH adds exactly the pushed message (enqueue, and the push half of LMOVE). *)
LEMMA LPushRange ==
  ASSUME NEW S, NEW s \in Seq(S), NEW m \in S
  PROVE  /\ LPush(s, m) \in Seq(S)
         /\ Range(LPush(s, m)) = {m} \union Range(s)
<1>1. <<m>> \in Seq(S) /\ Len(<<m>>) = 1 /\ <<m>>[1] = m
  OBVIOUS
<1>2. Range(<<m>>) = {m}
  <2>1. \A x : x \in Range(<<m>>) <=> \E i \in 1..Len(<<m>>) : x = <<m>>[i]
    BY <1>1, RangeOfIndices
  <2>2. \A i \in 1..1 : i = 1
    OBVIOUS
  <2>3. 1 \in 1..1
    OBVIOUS
  <2> QED BY <1>1, <2>1, <2>2, <2>3
<1>3. <<m>> \o s \in Seq(S)
  BY <1>1
<1>4. Range(<<m>> \o s) = Range(<<m>>) \union Range(s)
  BY <1>1, RangeConcatenation
<1> QED BY <1>2, <1>3, <1>4 DEF LPush

(* LREM 1 loses at most the message it names, the ack of that message. *)
LEMMA LRemRange ==
  ASSUME NEW S, NEW s \in Seq(S), NEW m
  PROVE  /\ LRem(s, m) \in Seq(S)
         /\ Range(LRem(s, m)) \subseteq Range(s)
         /\ Range(s) \ {m} \subseteq Range(LRem(s, m))
<1>1. CASE ~ \E i \in 1..Len(s): s[i] = m
  BY <1>1 DEF LRem, RemoveFirst
<1>2. CASE \E i \in 1..Len(s): s[i] = m
  <2> DEFINE I == { i \in 1..Len(s) : s[i] = m }
  <2>1. I \subseteq Nat /\ I # {}
    BY <1>2
  <2>2. Min(I) \in 1..Len(s) /\ s[Min(I)] = m
    BY <2>1, MinIsLeast
  <2>3. LRem(s, m) = RemoveAt(s, Min(I))
    BY <1>2, <2>1 DEF LRem, RemoveFirst, SelectInSeq
  <2> QED BY <2>2, <2>3, RemoveAtRange
<1> QED BY <1>1, <1>2

(* LPUSH moves every message one place to the right. *)
LEMMA LPushIndices ==
  ASSUME NEW S, NEW s \in Seq(S), NEW m \in S
  PROVE  /\ Len(LPush(s, m)) = Len(s) + 1
         /\ LPush(s, m)[1] = m
         /\ \A p \in 1..Len(s) : LPush(s, m)[p + 1] = s[p]
<1>1. <<m>> \in Seq(S) /\ Len(<<m>>) = 1 /\ <<m>>[1] = m
  OBVIOUS
<1>2. Len(s) \in Nat
  BY LenProperties
<1>3. /\ Len(<<m>> \o s) = Len(<<m>>) + Len(s)
      /\ \A i \in 1..(Len(<<m>>) + Len(s)) :
           (<<m>> \o s)[i] = IF i <= Len(<<m>>) THEN <<m>>[i] ELSE s[i - Len(<<m>>)]
  BY <1>1, ConcatProperties
<1>4. Len(<<m>> \o s) = Len(s) + 1
  BY <1>1, <1>2, <1>3
<1>5. (<<m>> \o s)[1] = m
  BY <1>1, <1>2, <1>3
<1>6. ASSUME NEW p \in 1..Len(s) PROVE (<<m>> \o s)[p + 1] = s[p]
  <2>1. p + 1 \in 1..(1 + Len(s)) /\ ~ (p + 1 <= 1) /\ (p + 1) - 1 = p
    BY <1>2
  <2> QED BY <1>1, <1>3, <2>1
<1> QED BY <1>4, <1>5, <1>6 DEF LPush

-----------------------------------------------------------------------------
(* No job is lost *)

IInv == TypeOK /\ InHandSound /\ NoJobLost

(* What every step owes the jobs: one that was stored or reviewed still is. *)
Keeps ==
  /\ Jobs \cap (Stored \union reviewed) \subseteq Stored' \union reviewed'
  /\ reviewed \subseteq reviewed'

-----------------------------------------------------------------------------
(* The four movements of a message, seen as changes of a set *)

(* dequeue's LMOVE keeps the stored messages. *)
LEMMA TakeNextKeeps ==
  ASSUME TypeOK, TakeNext
  PROVE  /\ queue' \in Seq(Messages) /\ processing' \in Seq(Messages)
         /\ handed' \subseteq Messages
         /\ Stored' = Stored
         /\ Last(queue) \in Stored
         /\ Last(queue) \in Messages
<1>1. /\ Front(queue) \in Seq(Messages)
      /\ Last(queue) \in Range(queue)
      /\ Range(queue) = {Last(queue)} \union Range(Front(queue))
  BY FrontLastRange DEF TypeOK, TakeNext
<1>2. Last(queue) \in Messages
  BY <1>1, RangeOfSeq DEF TypeOK
<1>3. /\ LPush(processing, Last(queue)) \in Seq(Messages)
      /\ Range(LPush(processing, Last(queue))) = {Last(queue)} \union Range(processing)
  BY <1>2, LPushRange DEF TypeOK
<1> QED BY <1>1, <1>2, <1>3 DEF TypeOK, TakeNext, Stored

(* recover_pending's LMOVE keeps the stored messages. *)
LEMMA PutBackKeeps ==
  ASSUME TypeOK, PutBack
  PROVE  /\ queue' \in Seq(Messages) /\ processing' \in Seq(Messages)
         /\ Stored' = Stored
<1>1. /\ Front(processing) \in Seq(Messages)
      /\ Last(processing) \in Range(processing)
      /\ Range(processing) = {Last(processing)} \union Range(Front(processing))
  BY FrontLastRange DEF TypeOK, PutBack
<1>2. Last(processing) \in Messages
  BY <1>1, RangeOfSeq DEF TypeOK
<1>3. /\ LPush(queue, Last(processing)) \in Seq(Messages)
      /\ Range(LPush(queue, Last(processing))) = {Last(processing)} \union Range(queue)
  BY <1>2, LPushRange DEF TypeOK
<1> QED BY <1>1, <1>3 DEF TypeOK, PutBack, Stored

(* enqueue's LPUSH adds one message. *)
LEMMA LPushAdds ==
  ASSUME TypeOK, NEW m \in Messages, queue' = LPush(queue, m), UNCHANGED processing
  PROVE  /\ queue' \in Seq(Messages)
         /\ Stored' = Stored \union {m}
  BY LPushRange DEF TypeOK, Stored

(* The LREM of an ack or a discard loses no other message than its own. *)
LEMMA RemoveKeepsOthers ==
  ASSUME TypeOK, NEW m, RemoveProcessing(m)
  PROVE  /\ queue' \in Seq(Messages) /\ processing' \in Seq(Messages)
         /\ Stored' \subseteq Stored
         /\ Stored \ {m} \subseteq Stored'
<1>1. /\ LRem(processing, m) \in Seq(Messages)
      /\ Range(LRem(processing, m)) \subseteq Range(processing)
      /\ Range(processing) \ {m} \subseteq Range(LRem(processing, m))
  BY LRemRange DEF TypeOK
<1> QED BY <1>1 DEF TypeOK, RemoveProcessing, Stored

-----------------------------------------------------------------------------
(* A step that keeps the jobs leaves a worker it does not touch sound. *)
LEMMA UntouchedStaysSound ==
  ASSUME Keeps, NEW r \in Replicas, SoundAt(r),
         pc'[r] = pc[r], cur'[r] = cur[r], inflight'[r] = inflight[r]
  PROVE  SoundAt(r)'
  BY DEF Keeps, SoundAt, InHand

(* A step that keeps the jobs and accepts stored jobs only loses no job.   *)
LEMMA KeptJobsAreNotLost ==
  ASSUME TypeOK, Keeps, NoJobLost, accepted' \subseteq accepted \union Stored'
  PROVE  NoJobLost'
  BY DEF TypeOK, Keeps, NoJobLost

(* Enough for a step that moves at most one worker to re-establish IInv.   *)
LEMMA StepKeepsIInv ==
  ASSUME IInv, NEW r \in Replicas, TypeOK', Keeps, SoundAt(r)',
         accepted' \subseteq accepted \union Stored',
         \A q \in Replicas \ {r} :
           pc'[q] = pc[q] /\ cur'[q] = cur[q] /\ inflight'[q] = inflight[q]
  PROVE  IInv'
<1>1. ASSUME NEW q \in Replicas \ {r} PROVE SoundAt(q)'
  BY UntouchedStaysSound DEF IInv, InHandSound
<1>2. InHandSound'
  BY <1>1 DEF InHandSound
<1> QED BY <1>2, KeptJobsAreNotLost DEF IInv

(* Enough for a step of the callers, who touch no worker. *)
LEMMA ClientKeepsIInv ==
  ASSUME IInv, TypeOK', Keeps, UNCHANGED worker,
         accepted' \subseteq accepted \union Stored'
  PROVE  IInv'
<1>1. ASSUME NEW q \in Replicas PROVE SoundAt(q)'
  BY UntouchedStaysSound DEF IInv, InHandSound, worker
<1> QED BY <1>1, KeptJobsAreNotLost DEF IInv, InHandSound

-----------------------------------------------------------------------------
(* The inductive invariant holds at first, and every step preserves it. *)

LEMMA InitIInv == Init => IInv
<1> SUFFICES ASSUME Init PROVE IInv
  OBVIOUS
<1> USE DEF Init
<1>1. <<>> \in Seq(Messages)
  OBVIOUS
<1>2. TypeOK
  BY <1>1, QueueAssumption DEF TypeOK, States, Messages
<1>3. InHandSound
  BY DEF InHandSound, SoundAt, InHand
<1>4. NoJobLost
  BY DEF NoJobLost
<1> QED BY <1>2, <1>3, <1>4 DEF IInv

(* The callers of enqueue preserve the inductive invariant. *)
LEMMA ClientStep ==
  ASSUME IInv, Client
  PROVE  IInv'
<1> USE DEF worker, counts
<1>0. TypeOK
  BY DEF IInv
<1>1. ASSUME NEW m \in Messages, queue' = LPush(queue, m), UNCHANGED <<processing, worker>>,
             handed' = handed, reviewed' = reviewed, raised' = raised, stops' = stops,
             faults' \in Nat, arrivals' \in Seq(Messages),
             accepted' \subseteq Jobs, accepted' \subseteq accepted \union {m}
      PROVE  IInv'
  <2>1. queue' \in Seq(Messages) /\ Stored' = Stored \union {m}
    BY <1>0, <1>1, LPushAdds
  <2>2. TypeOK'
    BY <1>0, <1>1, <2>1 DEF TypeOK
  <2>3. Keeps
    BY <1>1, <2>1 DEF Keeps
  <2> QED BY <1>1, <2>1, <2>2, <2>3, ClientKeepsIInv
<1>2. \A m \in Messages : Append(arrivals, m) \in Seq(Messages)
  BY <1>0, AppendProperties DEF TypeOK
<1>3. \A m \in Jobs : m \in Messages /\ accepted \union {m} \subseteq Jobs
  BY <1>0 DEF TypeOK, Messages
<1>4. \A m \in Poison : m \in Messages
  BY DEF Messages
<1>5. ASSUME NEW m \in Jobs, Enqueue(m) PROVE IInv'
  BY <1>0, <1>1, <1>2, <1>3, <1>5 DEF Enqueue, Push, TypeOK
<1>6. ASSUME NEW m \in Jobs, EnqueueReplyLost(m) PROVE IInv'
  BY <1>0, <1>1, <1>2, <1>3, <1>6 DEF EnqueueReplyLost, Push, MayFail, TypeOK
<1>7. ASSUME NEW m \in Jobs, EnqueueResent(m) PROVE IInv'
  BY <1>0, <1>1, <1>2, <1>3, <1>7 DEF EnqueueResent, TypeOK
<1>8. ASSUME NEW m \in Poison, ForeignPush(m) PROVE IInv'
  BY <1>0, <1>1, <1>2, <1>4, <1>8 DEF ForeignPush, TypeOK
<1> QED BY <1>5, <1>6, <1>7, <1>8 DEF Client

(* Whatever a replica does, in order or in failure, preserves it as well. *)
LEMMA ReplicaStep ==
  ASSUME IInv, NEW r \in Replicas, Step(r) \/ Fault(r)
  PROVE  IInv'
<1> USE DEF redis, worker, counts, GoTo, States
<1>0. TypeOK /\ SoundAt(r)
  BY DEF IInv, InHandSound
<1> DEFINE Others == \A q \in Replicas \ {r} :
                       pc'[q] = pc[q] /\ cur'[q] = cur[q] /\ inflight'[q] = inflight[q]
<1>1. CASE Start(r)
  <2>1. TypeOK'
    BY <1>0, <1>1 DEF Start, TypeOK
  <2>2. Keeps
    BY <1>0, <1>1 DEF Start, Keeps, Stored
  <2>3. SoundAt(r)'
    BY <1>0, <1>1 DEF Start, SoundAt, InHand, TypeOK, Stored
  <2>4. Others /\ accepted' \subseteq accepted \union Stored'
    BY <1>0, <1>1 DEF Start, TypeOK
  <2> QED BY <2>1, <2>2, <2>3, <2>4, StepKeepsIInv
<1>2. CASE RecoverDone(r)
  <2>1. TypeOK'
    BY <1>0, <1>2 DEF RecoverDone, TypeOK
  <2>2. Keeps
    BY <1>0, <1>2 DEF RecoverDone, Keeps, Stored
  <2>3. SoundAt(r)'
    BY <1>0, <1>2 DEF RecoverDone, SoundAt, InHand, TypeOK, Stored
  <2>4. Others /\ accepted' \subseteq accepted \union Stored'
    BY <1>0, <1>2 DEF RecoverDone, TypeOK
  <2> QED BY <2>1, <2>2, <2>3, <2>4, StepKeepsIInv
<1>3. CASE RecoverFails(r)
  <2>1. TypeOK'
    BY <1>0, <1>3 DEF RecoverFails, MayFail, TypeOK
  <2>2. Keeps
    BY <1>0, <1>3 DEF RecoverFails, MayFail, Keeps, Stored
  <2>3. SoundAt(r)'
    BY <1>0, <1>3 DEF RecoverFails, MayFail, SoundAt, InHand, TypeOK, Stored
  <2>4. Others /\ accepted' \subseteq accepted \union Stored'
    BY <1>0, <1>3 DEF RecoverFails, MayFail, TypeOK
  <2> QED BY <2>1, <2>2, <2>3, <2>4, StepKeepsIInv
<1>4. CASE PollEmpty(r)
  <2>1. TypeOK'
    BY <1>0, <1>4 DEF PollEmpty, vars, TypeOK
  <2>2. Keeps
    BY <1>0, <1>4 DEF PollEmpty, vars, Keeps, Stored
  <2>3. SoundAt(r)'
    BY <1>0, <1>4 DEF PollEmpty, vars, SoundAt, InHand, TypeOK, Stored
  <2>4. Others /\ accepted' \subseteq accepted \union Stored'
    BY <1>0, <1>4 DEF PollEmpty, vars, TypeOK
  <2> QED BY <2>1, <2>2, <2>3, <2>4, StepKeepsIInv
<1>5. CASE DequeueFails(r)
  <2>1. TypeOK'
    BY <1>0, <1>5 DEF DequeueFails, MayFail, TypeOK
  <2>2. Keeps
    BY <1>0, <1>5 DEF DequeueFails, MayFail, Keeps, Stored
  <2>3. SoundAt(r)'
    BY <1>0, <1>5 DEF DequeueFails, MayFail, SoundAt, InHand, TypeOK, Stored
  <2>4. Others /\ accepted' \subseteq accepted \union Stored'
    BY <1>0, <1>5 DEF DequeueFails, MayFail, TypeOK
  <2> QED BY <2>1, <2>2, <2>3, <2>4, StepKeepsIInv
<1>6. CASE DiscardFails(r)
  <2>1. TypeOK'
    BY <1>0, <1>6 DEF DiscardFails, MayFail, TypeOK
  <2>2. Keeps
    BY <1>0, <1>6 DEF DiscardFails, MayFail, Keeps, Stored
  <2>3. SoundAt(r)'
    BY <1>0, <1>6 DEF DiscardFails, MayFail, SoundAt, InHand, TypeOK, Stored
  <2>4. Others /\ accepted' \subseteq accepted \union Stored'
    BY <1>0, <1>6 DEF DiscardFails, MayFail, TypeOK
  <2> QED BY <2>1, <2>2, <2>3, <2>4, StepKeepsIInv
<1>7. CASE ReviewRaises(r)
  <2>1. TypeOK'
    BY <1>0, <1>7 DEF ReviewRaises, TypeOK
  <2>2. Keeps
    BY <1>0, <1>7 DEF ReviewRaises, Keeps, Stored
  <2>3. SoundAt(r)'
    BY <1>0, <1>7 DEF ReviewRaises, SoundAt, InHand, TypeOK, Stored
  <2>4. Others /\ accepted' \subseteq accepted \union Stored'
    BY <1>0, <1>7 DEF ReviewRaises, TypeOK
  <2> QED BY <2>1, <2>2, <2>3, <2>4, StepKeepsIInv
<1>8. CASE Cancel(r)
  <2>1. TypeOK'
    BY <1>0, <1>8 DEF Cancel, TypeOK
  <2>2. Keeps
    BY <1>0, <1>8 DEF Cancel, Keeps, Stored
  <2>3. SoundAt(r)'
    BY <1>0, <1>8 DEF Cancel, SoundAt, InHand, TypeOK, Stored
  <2>4. Others /\ accepted' \subseteq accepted \union Stored'
    BY <1>0, <1>8 DEF Cancel, TypeOK
  <2> QED BY <2>1, <2>2, <2>3, <2>4, StepKeepsIInv
<1>9. CASE RecoverOne(r)
  <2>1. /\ queue' \in Seq(Messages) /\ processing' \in Seq(Messages)
        /\ Stored' = Stored
    BY <1>0, <1>9, PutBackKeeps DEF RecoverOne
  <2>2. TypeOK'
    BY <1>0, <1>9, <2>1 DEF RecoverOne, TypeOK
  <2>3. Keeps
    BY <1>0, <1>9, <2>1 DEF RecoverOne, Keeps
  <2>4. SoundAt(r)'
    BY <1>0, <1>9, <2>1 DEF RecoverOne, SoundAt, InHand, TypeOK
  <2>5. Others /\ accepted' \subseteq accepted \union Stored'
    BY <1>0, <1>9 DEF RecoverOne, TypeOK
  <2> QED BY <2>1, <2>2, <2>3, <2>4, <2>5, StepKeepsIInv
<1>10. CASE DequeueJob(r)
  <2>1. /\ queue' \in Seq(Messages) /\ processing' \in Seq(Messages)
        /\ handed' \subseteq Messages /\ Stored' = Stored
        /\ Last(queue) \in Stored /\ Last(queue) \in Messages
    BY <1>0, <1>10, TakeNextKeeps DEF DequeueJob, Remember
  <2>2. TypeOK'
    BY <1>0, <1>10, <2>1 DEF DequeueJob, Remember, TypeOK
  <2>3. Keeps
    BY <1>0, <1>10, <2>1 DEF DequeueJob, Remember, Keeps
  <2>4. SoundAt(r)'
    BY <1>0, <1>10, <2>1 DEF DequeueJob, Remember, SoundAt, InHand, TypeOK
  <2>5. Others /\ accepted' \subseteq accepted \union Stored'
    BY <1>0, <1>10 DEF DequeueJob, Remember, TypeOK
  <2> QED BY <2>1, <2>2, <2>3, <2>4, <2>5, StepKeepsIInv
<1>11. CASE DequeuePoison(r)
  <2>1. /\ queue' \in Seq(Messages) /\ processing' \in Seq(Messages)
        /\ handed' \subseteq Messages /\ Stored' = Stored
        /\ Last(queue) \in Stored /\ Last(queue) \in Messages
    BY <1>0, <1>11, TakeNextKeeps DEF DequeuePoison
  <2>2. TypeOK'
    BY <1>0, <1>11, <2>1 DEF DequeuePoison, TypeOK
  <2>3. Keeps
    BY <1>0, <1>11, <2>1 DEF DequeuePoison, Keeps
  <2>4. SoundAt(r)'
    BY <1>0, <1>11, <2>1 DEF DequeuePoison, SoundAt, InHand, TypeOK
  <2>5. Others /\ accepted' \subseteq accepted \union Stored'
    BY <1>0, <1>11 DEF DequeuePoison, TypeOK
  <2> QED BY <2>1, <2>2, <2>3, <2>4, <2>5, StepKeepsIInv
<1>12. CASE DequeueReplyLost(r)
  <2>1. /\ queue' \in Seq(Messages) /\ processing' \in Seq(Messages)
        /\ handed' \subseteq Messages /\ Stored' = Stored
        /\ Last(queue) \in Stored /\ Last(queue) \in Messages
    BY <1>0, <1>12, TakeNextKeeps DEF DequeueReplyLost, MayFail
  <2>2. TypeOK'
    BY <1>0, <1>12, <2>1 DEF DequeueReplyLost, MayFail, TypeOK
  <2>3. Keeps
    BY <1>0, <1>12, <2>1 DEF DequeueReplyLost, MayFail, Keeps
  <2>4. SoundAt(r)'
    BY <1>0, <1>12, <2>1 DEF DequeueReplyLost, MayFail, SoundAt, InHand, TypeOK
  <2>5. Others /\ accepted' \subseteq accepted \union Stored'
    BY <1>0, <1>12 DEF DequeueReplyLost, MayFail, TypeOK
  <2> QED BY <2>1, <2>2, <2>3, <2>4, <2>5, StepKeepsIInv
<1>13. CASE Discard(r)
  <2>1. /\ queue' \in Seq(Messages) /\ processing' \in Seq(Messages)
        /\ Stored' \subseteq Stored /\ Stored \ {cur[r]} \subseteq Stored'
    BY <1>0, <1>13, RemoveKeepsOthers DEF Discard
  <2>2. TypeOK'
    BY <1>0, <1>13, <2>1 DEF Discard, TypeOK, SoundAt, InHand
  <2>3. Keeps
    BY <1>0, <1>13, <2>1, QueueAssumption DEF Discard, Keeps, SoundAt
  <2>4. SoundAt(r)'
    BY <1>0, <1>13, <2>1 DEF Discard, SoundAt, InHand, TypeOK
  <2>5. Others /\ accepted' \subseteq accepted \union Stored'
    BY <1>0, <1>13 DEF Discard, TypeOK
  <2> QED BY <2>1, <2>2, <2>3, <2>4, <2>5, StepKeepsIInv
<1>14. CASE Ack(r)
  <2>1. /\ queue' \in Seq(Messages) /\ processing' \in Seq(Messages)
        /\ Stored' \subseteq Stored /\ Stored \ {cur[r]} \subseteq Stored'
    BY <1>0, <1>14, RemoveKeepsOthers DEF Ack, Forget
  <2>2. TypeOK'
    BY <1>0, <1>14, <2>1 DEF Ack, Forget, TypeOK, SoundAt, InHand
  <2>3. Keeps
    BY <1>0, <1>14, <2>1, QueueAssumption DEF Ack, Forget, Keeps, SoundAt
  <2>4. SoundAt(r)'
    BY <1>0, <1>14, <2>1 DEF Ack, Forget, SoundAt, InHand, TypeOK
  <2>5. Others /\ accepted' \subseteq accepted \union Stored'
    BY <1>0, <1>14 DEF Ack, Forget, TypeOK
  <2> QED BY <2>1, <2>2, <2>3, <2>4, <2>5, StepKeepsIInv
<1>15. CASE ReviewDone(r)
  <2>1. TypeOK'
    BY <1>0, <1>15 DEF ReviewDone, TypeOK, SoundAt, InHand
  <2>2. Keeps
    BY <1>0, <1>15 DEF ReviewDone, Keeps, Stored
  <2>3. SoundAt(r)'
    BY <1>0, <1>15 DEF ReviewDone, SoundAt, InHand, TypeOK, Stored
  <2>4. Others /\ accepted' \subseteq accepted \union Stored'
    BY <1>0, <1>15 DEF ReviewDone, TypeOK
  <2> QED BY <2>1, <2>2, <2>3, <2>4, StepKeepsIInv
<1>16. CASE ThreadEnds(r)
  <2>1. TypeOK'
    BY <1>0, <1>16 DEF ThreadEnds, Exit, TypeOK, SoundAt, InHand
  <2>2. Keeps
    BY <1>0, <1>16 DEF ThreadEnds, Exit, Keeps, Stored
  <2>3. SoundAt(r)'
    BY <1>0, <1>16 DEF ThreadEnds, Exit, SoundAt, InHand, TypeOK, Stored
  <2>4. Others /\ accepted' \subseteq accepted \union Stored'
    BY <1>0, <1>16 DEF ThreadEnds, Exit, TypeOK
  <2> QED BY <2>1, <2>2, <2>3, <2>4, StepKeepsIInv
<1>17. CASE AckFails(r)
  <2>1. TypeOK'
    BY <1>0, <1>17 DEF AckFails, Forget, MayFail, TypeOK, SoundAt, InHand
  <2>2. Keeps
    BY <1>0, <1>17 DEF AckFails, Forget, MayFail, Keeps, Stored
  <2>3. SoundAt(r)'
    BY <1>0, <1>17 DEF AckFails, Forget, MayFail, SoundAt, InHand, TypeOK, Stored
  <2>4. Others /\ accepted' \subseteq accepted \union Stored'
    BY <1>0, <1>17 DEF AckFails, Forget, MayFail, TypeOK
  <2> QED BY <2>1, <2>2, <2>3, <2>4, StepKeepsIInv
<1>18. CASE Crash(r)
  <2>1. TypeOK'
    BY <1>0, <1>18 DEF Crash, Exit, TypeOK
  <2>2. Keeps
    BY <1>0, <1>18 DEF Crash, Exit, Keeps, Stored
  <2>3. SoundAt(r)'
    BY <1>0, <1>18 DEF Crash, Exit, SoundAt, InHand, TypeOK, Stored
  <2>4. Others /\ accepted' \subseteq accepted \union Stored'
    BY <1>0, <1>18 DEF Crash, Exit, TypeOK
  <2> QED BY <2>1, <2>2, <2>3, <2>4, StepKeepsIInv
<1> QED BY <1>1, <1>2, <1>3, <1>4, <1>5, <1>6, <1>7, <1>8, <1>9, <1>10, <1>11, <1>12, <1>13, <1>14, <1>15, <1>16, <1>17, <1>18 DEF Step, Fault

LEMMA NextStep == IInv /\ [Next]_vars => IInv'
<1> SUFFICES ASSUME IInv, [Next]_vars PROVE IInv'
  OBVIOUS
<1>1. CASE Client
  BY <1>1, ClientStep
<1>2. CASE \E r \in Replicas : Step(r) \/ Fault(r)
  BY <1>2, ReplicaStep
<1>3. CASE UNCHANGED vars
  BY <1>3 DEF IInv, TypeOK, InHandSound, SoundAt, InHand, NoJobLost, Stored,
              vars, redis, worker, counts
<1> QED BY <1>1, <1>2, <1>3 DEF Next

(* The inductive invariant is an invariant of the program. *)
THEOREM Inductive == Spec => []IInv
<1>1. Init => IInv
  BY InitIInv
<1>2. IInv /\ [Next]_vars => IInv'
  BY NextStep
<1> QED BY <1>1, <1>2, PTL DEF Spec

-----------------------------------------------------------------------------
(* The results *)

(* Every variable keeps its type; in particular the entries of _inflight   *)
(* never go below zero: no ack pops an entry that is not there.            *)
THEOREM TypeCorrect == Spec => []TypeOK
BY Inductive, PTL DEF IInv

(* A worker never acks a job it has not reviewed, never discards a job as  *)
(* poison, and the job it reviews is still stored or reviewed elsewhere.   *)
THEOREM WorkersAreSound == Spec => []InHandSound
BY Inductive, PTL DEF IInv

(* No job whose enqueue returned is lost before it has been reviewed.      *)
THEOREM NothingIsLost == Spec => []NoJobLost
BY Inductive, PTL DEF IInv

(* A step of the two lists is a step of the abstract promise: it stores a  *)
(* message, releases one that may go, reviews one it has, or changes       *)
(* nothing the promise sees.                                               *)
LEMMA StepImplements ==
  ASSUME IInv, Next
  PROVE  [Promise!Next]_(Promise!vars)
<1> USE DEF Promise!vars
<1>0. TypeOK /\ \A r \in Replicas : SoundAt(r)
  BY DEF IInv, InHandSound
<1>1. ASSUME NEW m \in Messages, queue' = LPush(queue, m), UNCHANGED <<processing, reviewed>>
      PROVE  Promise!Next
  BY <1>0, <1>1, LPushAdds DEF Promise!Next, Promise!Store, Messages
<1>2. CASE Client
  BY <1>1, <1>2 DEF Client, Enqueue, EnqueueReplyLost, EnqueueResent, ForeignPush, Push, Messages
<1>3. ASSUME NEW r \in Replicas, Step(r) \/ Fault(r)
      PROVE  [Promise!Next]_(Promise!vars)
  <2>1. CASE RecoverOne(r)
    BY <1>0, <2>1, PutBackKeeps DEF RecoverOne
  <2>2. CASE DequeueJob(r) \/ DequeuePoison(r) \/ DequeueReplyLost(r)
    BY <1>0, <2>2, TakeNextKeeps DEF DequeueJob, DequeuePoison, DequeueReplyLost
  <2>3. CASE Discard(r) \/ Ack(r)
    <3>1. cur[r] \in reviewed \union Poison /\ cur[r] \in Messages
      BY <1>0, <2>3 DEF Discard, Ack, SoundAt, InHand, Messages
    <3>2. Stored' \subseteq Stored /\ Stored \ {cur[r]} \subseteq Stored'
      BY <1>0, <2>3, RemoveKeepsOthers DEF Discard, Ack
    <3>3. Stored' = Stored \/ Stored' = Stored \ {cur[r]}
      BY <3>2
    <3>4. reviewed' = reviewed
      BY <2>3 DEF Discard, Ack
    <3> QED BY <3>1, <3>3, <3>4 DEF Promise!Next, Promise!Release, Messages
  <2>4. CASE ReviewDone(r) \/ ThreadEnds(r)
    <3>1. cur[r] \in Jobs /\ cur[r] \in Stored \union reviewed
      BY <1>0, <2>4 DEF ReviewDone, ThreadEnds, SoundAt, InHand
    <3>2. reviewed' = reviewed \union {cur[r]} /\ Stored' = Stored
      BY <2>4 DEF ReviewDone, ThreadEnds, redis, Stored
    <3> QED BY <3>1, <3>2 DEF Promise!Next, Promise!Review
  <2>5. CASE \/ Start(r) \/ RecoverDone(r) \/ RecoverFails(r)
             \/ PollEmpty(r) \/ DequeueFails(r) \/ DiscardFails(r)
             \/ ReviewRaises(r) \/ AckFails(r) \/ Crash(r) \/ Cancel(r)
    <3>1. Stored' = Stored /\ reviewed' = reviewed
      BY <2>5 DEF Start, RecoverDone, RecoverFails, PollEmpty, DequeueFails, DiscardFails,
                  ReviewRaises, AckFails, Crash, Cancel, redis, vars, Stored
    <3> QED BY <3>1
  <2> QED BY <1>3, <2>1, <2>2, <2>3, <2>4, <2>5 DEF Step, Fault
<1> QED BY <1>2, <1>3 DEF Next

(* The two Redis lists and their workers implement at-least-once delivery. *)
THEOREM Implementation == Spec => ImplementsAtLeastOnce
<1>1. Init => Promise!Init
  BY EmptySeq DEF Init, Promise!Init, Stored, Range
<1>2. IInv /\ [Next]_vars => [Promise!Next]_(Promise!vars)
  <2> SUFFICES ASSUME IInv, [Next]_vars PROVE [Promise!Next]_(Promise!vars)
    OBVIOUS
  <2>1. CASE Next
    BY <2>1, StepImplements
  <2>2. CASE UNCHANGED vars
    BY <2>2 DEF vars, redis, Stored, Promise!vars
  <2> QED BY <2>1, <2>2
<1> QED BY <1>1, <1>2, Inductive, PTL DEF Spec, ImplementsAtLeastOnce, Promise!Spec

-----------------------------------------------------------------------------
(* The order of the first hand-out                                         *)
(*                                                                         *)
(* FirstHandOutInOrder says nothing of a message that waits.  The          *)
(* inductive invariant adds: whatever is in a list or was handed out has   *)
(* arrived; a message never handed out is in the queue; and it stands to   *)
(* the right of every copy of a message that arrived after it.             *)

Known == Range(queue) \union Range(processing) \union handed \subseteq Range(arrivals)

WaitingIsQueued ==
  \A i \in 1..Len(arrivals) : arrivals[i] \notin handed => arrivals[i] \in Range(queue)

QueueInOrder ==
  \A p \in 1..Len(queue), k \in 1..Len(arrivals) : \A i \in 1..(k - 1) :
    queue[p] = arrivals[k] /\ arrivals[i] \notin handed =>
      \E q \in (p + 1)..Len(queue) : queue[q] = arrivals[i]

OrderInv == Known /\ WaitingIsQueued /\ QueueInOrder /\ FirstHandOutInOrder

(* A step that leaves the queue alone loses messages of the processing list only. *)
Stays ==
  /\ UNCHANGED <<queue, handed, arrivals>>
  /\ Range(processing') \subseteq Range(processing)

(* A message arrives for the first time. *)
Arrives(m) ==
  /\ m \in Messages \ Range(arrivals)
  /\ queue' = LPush(queue, m)
  /\ arrivals' = Append(arrivals, m)
  /\ UNCHANGED <<processing, handed>>

(* A message that arrived before is queued again. *)
Returns(m) ==
  /\ m \in Messages \cap Range(arrivals)
  /\ queue' = LPush(queue, m)
  /\ Range(processing') \subseteq Range(processing)
  /\ UNCHANGED <<handed, arrivals>>

(* The oldest message of the queue is handed out. *)
Leaves == TakeNext /\ UNCHANGED arrivals

(* All the program ever does to the queue is one of these four. *)
LEMMA QueueMoves ==
  ASSUME TypeOK, Known, [Next]_vars
  PROVE  Stays \/ (\E m \in Messages : Arrives(m) \/ Returns(m)) \/ Leaves
<1> USE DEF redis, worker, counts
<1>1. CASE Client
  <2>1. ASSUME NEW m \in Jobs, Enqueue(m) \/ EnqueueReplyLost(m) PROVE Arrives(m) /\ m \in Messages
    BY <2>1 DEF Enqueue, EnqueueReplyLost, Push, Arrives, Messages
  <2>2. ASSUME NEW m \in Jobs, EnqueueResent(m) PROVE Returns(m) /\ m \in Messages
    BY <2>2 DEF EnqueueResent, Returns, Messages
  <2>3. ASSUME NEW m \in Poison, ForeignPush(m) PROVE Arrives(m) /\ m \in Messages
    BY <2>3 DEF ForeignPush, Arrives, Messages
  <2> QED BY <1>1, <2>1, <2>2, <2>3 DEF Client
<1>2. ASSUME NEW r \in Replicas, Step(r) \/ Fault(r)
      PROVE  Stays \/ (\E m \in Messages : Arrives(m) \/ Returns(m)) \/ Leaves
  <2>1. CASE RecoverOne(r)
    <3>1. /\ Front(processing) \in Seq(Messages)
          /\ Last(processing) \in Range(processing)
          /\ Range(processing) = {Last(processing)} \union Range(Front(processing))
      BY <2>1, FrontLastRange DEF TypeOK, RecoverOne, PutBack
    <3>2. Last(processing) \in Messages \cap Range(arrivals)
      BY <3>1, RangeOfSeq DEF TypeOK, Known
    <3>3. Returns(Last(processing))
      BY <2>1, <3>1, <3>2 DEF Returns, RecoverOne, PutBack
    <3> QED BY <3>2, <3>3
  <2>2. CASE DequeueJob(r) \/ DequeuePoison(r) \/ DequeueReplyLost(r)
    BY <2>2 DEF DequeueJob, DequeuePoison, DequeueReplyLost, Leaves
  <2>3. CASE Discard(r) \/ Ack(r)
    <3>1. Range(LRem(processing, cur[r])) \subseteq Range(processing)
      BY LRemRange DEF TypeOK
    <3> QED BY <2>3, <3>1 DEF Discard, Ack, RemoveProcessing, Stays
  <2>4. CASE \/ Start(r) \/ RecoverDone(r) \/ RecoverFails(r)
             \/ PollEmpty(r) \/ DequeueFails(r) \/ DiscardFails(r)
             \/ ReviewRaises(r) \/ AckFails(r) \/ Crash(r) \/ Cancel(r)
             \/ ReviewDone(r) \/ ThreadEnds(r)
    BY <2>4 DEF Start, RecoverDone, RecoverFails, PollEmpty, DequeueFails, DiscardFails,
                ReviewRaises, AckFails, Crash, Cancel, ReviewDone, ThreadEnds, vars, Stays
  <2> QED BY <1>2, <2>1, <2>2, <2>3, <2>4 DEF Step, Fault
<1>3. CASE UNCHANGED vars
  BY <1>3 DEF vars, Stays
<1> QED BY <1>1, <1>2, <1>3 DEF Next

(* A message that arrives, or returns, stands to the left of all others. *)
LEMMA PushKeepsOrder ==
  ASSUME TypeOK, OrderInv, NEW m \in Messages, Arrives(m) \/ Returns(m)
  PROVE  OrderInv'
<1> DEFINE n == Len(queue)
           N == Len(arrivals)
           t == LPush(queue, m)
<1>1. /\ n \in Nat /\ N \in Nat
      /\ Range(queue) = {queue[p] : p \in 1..n}
      /\ Range(arrivals) = {arrivals[k] : k \in 1..N}
  <2>1. n \in Nat /\ N \in Nat
    BY LenProperties DEF TypeOK
  <2>2. /\ \A x : x \in Range(queue) <=> \E i \in 1..n : x = queue[i]
        /\ \A x : x \in Range(arrivals) <=> \E i \in 1..N : x = arrivals[i]
    BY RangeOfIndices DEF TypeOK
  <2> QED BY <2>1, <2>2
<1>2. /\ t \in Seq(Messages)
      /\ Range(t) = {m} \union Range(queue)
      /\ Len(t) = n + 1 /\ t[1] = m
      /\ \A p \in 1..n : t[p + 1] = queue[p]
  <2>1. queue \in Seq(Messages)
    BY DEF TypeOK
  <2>2. t \in Seq(Messages) /\ Range(t) = {m} \union Range(queue)
    BY <2>1, LPushRange
  <2>3. Len(t) = n + 1 /\ t[1] = m /\ \A p \in 1..n : t[p + 1] = queue[p]
    BY <2>1, LPushIndices
  <2> QED BY <2>2, <2>3
<1>3. queue' = t /\ handed' = handed /\ Range(processing') \subseteq Range(processing)
  BY DEF Arrives, Returns
<1>4. CASE Returns(m)
  <2>1. arrivals' = arrivals /\ m \in Range(arrivals)
    BY <1>4 DEF Returns
  <2>2. Known'
    BY <1>2, <1>3, <2>1 DEF OrderInv, Known
  <2>3. WaitingIsQueued'
    BY <1>2, <1>3, <2>1 DEF OrderInv, WaitingIsQueued
  <2>4. FirstHandOutInOrder'
    BY <1>3, <2>1 DEF OrderInv, FirstHandOutInOrder
  <2>5. QueueInOrder'
    <3> SUFFICES ASSUME NEW p \in 1..(n + 1), NEW k \in 1..N, NEW i \in 1..(k - 1),
                        t[p] = arrivals[k], arrivals[i] \notin handed
                 PROVE  \E q \in (p + 1)..(n + 1) : t[q] = arrivals[i]
      BY <1>2, <1>3, <2>1 DEF QueueInOrder
    <3>1. i \in 1..N
      BY <1>1
    <3>2. CASE p = 1
      <4>1. PICK q \in 1..n : queue[q] = arrivals[i]
        BY <1>1, <3>1 DEF OrderInv, WaitingIsQueued
      <4>2. q + 1 \in (p + 1)..(n + 1) /\ t[q + 1] = arrivals[i]
        BY <1>1, <1>2, <3>2, <4>1
      <4> QED BY <4>2
    <3>3. CASE p # 1
      <4>1. p - 1 \in 1..n /\ (p - 1) + 1 = p
        BY <1>1, <3>3
      <4>2. queue[p - 1] = arrivals[k]
        BY <1>2, <4>1
      <4>3. PICK q \in ((p - 1) + 1)..n : queue[q] = arrivals[i]
        BY <4>1, <4>2 DEF OrderInv, QueueInOrder
      <4>4. q \in 1..n /\ q + 1 \in (p + 1)..(n + 1)
        BY <1>1, <4>1, <4>3
      <4> QED BY <1>2, <4>3, <4>4
    <3> QED BY <3>2, <3>3
  <2> QED BY <2>2, <2>3, <2>4, <2>5 DEF OrderInv
<1>5. CASE Arrives(m)
  <2>1. m \notin Range(arrivals) /\ arrivals' = Append(arrivals, m)
    BY <1>5 DEF Arrives
  <2>2. /\ Append(arrivals, m) \in Seq(Messages)
        /\ Len(Append(arrivals, m)) = N + 1
        /\ \A k \in 1..N : Append(arrivals, m)[k] = arrivals[k]
        /\ Append(arrivals, m)[N + 1] = m
    BY AppendProperties DEF TypeOK
  <2> DEFINE a == Append(arrivals, m)
  <2>a. a \in Seq(Messages) /\ Len(a) = N + 1
    BY <2>2
  <2> HIDE DEF a
  <2>3. \A k \in 1..(N + 1) : k = N + 1 \/ k \in 1..N
    BY <1>1
  <2>4. Range(a) = Range(arrivals) \union {m}
    <3>1. \A x : x \in Range(a) <=> \E k \in 1..(N + 1) : x = a[k]
      BY <2>a, RangeOfIndices
    <3>2. \A k \in 1..N : k \in 1..(N + 1)
      BY <1>1
    <3>3. N + 1 \in 1..(N + 1)
      BY <1>1
    <3> QED BY <1>1, <2>2, <2>3, <3>1, <3>2, <3>3 DEF a
  <2>5. arrivals' = a /\ Len(a) = N + 1 /\ a[N + 1] = m /\ \A k \in 1..N : a[k] = arrivals[k]
    BY <2>1, <2>2 DEF a
  <2>6. m \notin handed
    BY <2>1 DEF OrderInv, Known
  <2>7. Known'
    BY <1>2, <1>3, <2>4, <2>5 DEF OrderInv, Known
  <2>8. WaitingIsQueued'
    BY <1>2, <1>3, <2>3, <2>5 DEF OrderInv, WaitingIsQueued
  <2>9. FirstHandOutInOrder'
    <3> SUFFICES ASSUME NEW j \in 1..(N + 1), a[j] \in handed, NEW i \in 1..j
                 PROVE  a[i] \in handed
      <4>1. DOMAIN a = 1..(N + 1)
        BY <2>2, LenProperties DEF a
      <4> QED BY <1>3, <2>5, <4>1 DEF FirstHandOutInOrder
    <3>1. j \in 1..N /\ i \in 1..N
      BY <1>1, <2>3, <2>5, <2>6
    <3>2. DOMAIN arrivals = 1..N
      BY LenProperties DEF TypeOK
    <3> QED BY <2>5, <3>1, <3>2 DEF OrderInv, FirstHandOutInOrder
  <2>10. QueueInOrder'
    <3> SUFFICES ASSUME NEW p \in 1..(n + 1), NEW k \in 1..(N + 1), NEW i \in 1..(k - 1),
                        t[p] = a[k], a[i] \notin handed
                 PROVE  \E q \in (p + 1)..(n + 1) : t[q] = a[i]
      BY <1>2, <1>3, <2>5 DEF QueueInOrder
    <3>1. i \in 1..N /\ a[i] = arrivals[i]
      BY <1>1, <2>5
    <3>2. CASE p = 1
      <4>1. PICK q \in 1..n : queue[q] = arrivals[i]
        BY <1>1, <3>1 DEF OrderInv, WaitingIsQueued
      <4>2. q + 1 \in (p + 1)..(n + 1) /\ t[q + 1] = arrivals[i]
        BY <1>1, <1>2, <3>2, <4>1
      <4> QED BY <3>1, <4>2
    <3>3. CASE p # 1
      <4>1. p - 1 \in 1..n /\ (p - 1) + 1 = p
        BY <1>1, <3>3
      <4>2. queue[p - 1] = a[k]
        BY <1>2, <4>1
      <4>3. queue[p - 1] \in Range(arrivals)
        BY <1>1, <4>1 DEF OrderInv, Known
      <4>4. k \in 1..N /\ queue[p - 1] = arrivals[k]
        BY <2>1, <2>3, <2>5, <4>2, <4>3
      <4>5. PICK q \in ((p - 1) + 1)..n : queue[q] = arrivals[i]
        BY <3>1, <4>1, <4>4 DEF OrderInv, QueueInOrder
      <4>6. q \in 1..n /\ q + 1 \in (p + 1)..(n + 1)
        BY <1>1, <4>1, <4>5
      <4> QED BY <1>2, <3>1, <4>5, <4>6
    <3> QED BY <3>2, <3>3
  <2> QED BY <2>7, <2>8, <2>9, <2>10 DEF OrderInv
<1> QED BY <1>4, <1>5

(* The message that leaves has no unhanded message to its right: all that  *)
(* arrived before it are handed out already.                               *)
LEMMA LeavingKeepsOrder ==
  ASSUME TypeOK, OrderInv, Leaves
  PROVE  OrderInv'
<1> DEFINE n == Len(queue)
           N == Len(arrivals)
           m == Last(queue)
           f == Front(queue)
<1>1. N \in Nat /\ DOMAIN arrivals = 1..N
  BY LenProperties DEF TypeOK
<1>2. /\ f \in Seq(Messages)
      /\ m \in Range(queue)
      /\ Range(queue) = {m} \union Range(f)
  BY FrontLastRange DEF TypeOK, Leaves, TakeNext
<1>3. /\ n \in Nat /\ n >= 1 /\ Len(f) = n - 1 /\ m = queue[n]
      /\ \A p \in 1..(n - 1) : f[p] = queue[p]
  BY FrontIndices DEF TypeOK, Leaves, TakeNext
<1>4. m \in Messages
  BY <1>2, RangeOfSeq DEF TypeOK
<1>5. Range(LPush(processing, m)) = {m} \union Range(processing)
  BY <1>4, LPushRange DEF TypeOK
<1>6. /\ queue' = f /\ handed' = handed \union {m} /\ arrivals' = arrivals
      /\ Range(processing') = {m} \union Range(processing)
  BY <1>5 DEF Leaves, TakeNext
<1> HIDE DEF m, f
<1>7. Known'
  BY <1>2, <1>6 DEF OrderInv, Known
<1>8. WaitingIsQueued'
  BY <1>2, <1>6 DEF OrderInv, WaitingIsQueued
<1>9. FirstHandOutInOrder'
  <2> SUFFICES ASSUME NEW j \in 1..N, arrivals[j] \in handed \union {m}, NEW i \in 1..j
               PROVE  arrivals[i] \in handed \union {m}
    BY <1>1, <1>6 DEF FirstHandOutInOrder
  <2>1. CASE arrivals[j] \in handed
    BY <1>1, <2>1 DEF OrderInv, FirstHandOutInOrder
  <2>2. CASE arrivals[j] = m
    <3>1. i = j \/ i \in 1..(j - 1)
      BY <1>1
    <3>2. n \in 1..n /\ (n + 1)..n = {}
      BY <1>3
    <3>3. ASSUME i \in 1..(j - 1), arrivals[i] \notin handed PROVE FALSE
      BY <1>3, <2>2, <3>2, <3>3 DEF OrderInv, QueueInOrder
    <3> QED BY <2>2, <3>1, <3>3
  <2> QED BY <2>1, <2>2
<1>10. QueueInOrder'
  <2> SUFFICES ASSUME NEW p \in 1..(n - 1), NEW k \in 1..N, NEW i \in 1..(k - 1),
                      f[p] = arrivals[k], arrivals[i] \notin handed \union {m}
               PROVE  \E q \in (p + 1)..(n - 1) : f[q] = arrivals[i]
    BY <1>3, <1>6 DEF QueueInOrder
  <2>1. p \in 1..n /\ queue[p] = arrivals[k]
    BY <1>3
  <2>2. PICK q \in (p + 1)..n : queue[q] = arrivals[i]
    BY <2>1 DEF OrderInv, QueueInOrder
  <2>3. q # n
    BY <1>3, <2>2
  <2>4. q \in (p + 1)..(n - 1) /\ q \in 1..(n - 1)
    BY <1>3, <2>2, <2>3
  <2> QED BY <1>3, <2>2, <2>4
<1> QED BY <1>7, <1>8, <1>9, <1>10 DEF OrderInv

LEMMA NextKeepsOrder == TypeOK /\ OrderInv /\ [Next]_vars => OrderInv'
<1> SUFFICES ASSUME TypeOK, OrderInv, [Next]_vars PROVE OrderInv'
  OBVIOUS
<1>1. CASE Stays
  BY <1>1 DEF Stays, OrderInv, Known, WaitingIsQueued, QueueInOrder, FirstHandOutInOrder
<1>2. CASE \E m \in Messages : Arrives(m) \/ Returns(m)
  BY <1>2, PushKeepsOrder
<1>3. CASE Leaves
  BY <1>3, LeavingKeepsOrder
<1> QED BY <1>1, <1>2, <1>3, QueueMoves DEF OrderInv

(* A message is handed out for the first time only after every message     *)
(* that was pushed before it: recovery, a second push of an envelope and a *)
(* lost reply may repeat a message, but none of them overtakes.            *)
THEOREM OldestFirst == Spec => []FirstHandOutInOrder
<1>1. Init => OrderInv
  <2>1. Len(<<>>) = 0 /\ Range(<<>>) = {} /\ DOMAIN <<>> = {}
    BY EmptySeq DEF Range
  <2>2. 1..0 = {}
    OBVIOUS
  <2> QED BY <2>1, <2>2 DEF Init, OrderInv, Known, WaitingIsQueued, QueueInOrder,
                            FirstHandOutInOrder
<1>2. TypeOK /\ OrderInv /\ [Next]_vars => OrderInv'
  BY NextKeepsOrder
<1> QED BY <1>1, <1>2, TypeCorrect, PTL DEF Spec, OrderInv

-----------------------------------------------------------------------------
(* One worker                                                              *)

(* With one replica nobody else puts a message back or removes it: the job *)
(* in hand is in the processing list at every moment, whatever fails.      *)
(* (With two replicas it is not: the recovery of the second puts back what *)
(* the first has in hand.)                                                 *)
THEOREM OneWorkerRecovers ==
  ASSUME NEW R, Replicas = {R}
  PROVE  Spec => []InHandIsRecoverable
<1> USE DEF InHandIsRecoverable, InHand, redis, worker, counts
<1>1. Init => InHandIsRecoverable
  BY DEF Init
<1>2. TypeOK /\ InHandIsRecoverable /\ [Next]_vars => InHandIsRecoverable'
  <2> SUFFICES ASSUME TypeOK, InHandIsRecoverable, [Next]_vars
               PROVE  InHandIsRecoverable'
    OBVIOUS
  <2>1. CASE Client
    BY <2>1 DEF Client, Enqueue, EnqueueReplyLost, EnqueueResent, ForeignPush, Push
  <2>2. CASE Step(R) \/ Fault(R)
    <3> USE DEF GoTo, TypeOK
    <3>1. CASE RecoverOne(R)
      BY <3>1 DEF RecoverOne
    <3>2. CASE DequeueJob(R)
      <4>1. Last(queue) \in Messages /\ processing \in Seq(Messages)
        BY <3>2, TakeNextKeeps DEF DequeueJob, Remember
      <4>2. Range(LPush(processing, Last(queue))) = {Last(queue)} \union Range(processing)
        BY <4>1, LPushRange
      <4> QED BY <3>2, <4>2 DEF DequeueJob, TakeNext
    <3>3. CASE ReviewDone(R) \/ Cancel(R)
      BY <3>3 DEF ReviewDone, Cancel
    <3>4. CASE \/ Start(R) \/ RecoverDone(R) \/ RecoverFails(R) \/ DequeuePoison(R)
               \/ Discard(R) \/ DiscardFails(R) \/ ReviewRaises(R) \/ Ack(R)
               \/ AckFails(R) \/ Crash(R) \/ ThreadEnds(R)
      BY <3>4 DEF Start, RecoverDone, RecoverFails, DequeuePoison, Discard, DiscardFails,
                  ReviewRaises, Ack, AckFails, Crash, ThreadEnds, Exit
    <3>5. CASE PollEmpty(R) \/ DequeueFails(R)
      BY <3>5 DEF PollEmpty, DequeueFails, vars
    <3>6. CASE DequeueReplyLost(R)
      BY <3>6 DEF DequeueReplyLost
    <3> QED BY <2>2, <3>1, <3>2, <3>3, <3>4, <3>5, <3>6 DEF Step, Fault
  <2>3. CASE UNCHANGED vars
    BY <2>3 DEF vars
  <2> QED BY <2>1, <2>2, <2>3 DEF Next
<1> QED BY <1>1, <1>2, TypeCorrect, PTL DEF Spec

-----------------------------------------------------------------------------
(* The entries of _inflight                                                *)
(*                                                                         *)
(* MapThenSumSet is a recursive function over the subsets of Jobs; that it *)
(* has a solution, and what the sum is after one entry more or less, is an *)
(* induction over the size of a subset.                                    *)

Pick(s) == CHOOSE x \in s : TRUE

Total(f) == MapThenSumSet(LAMBDA m : f[m], Jobs)

(* sum adds up f over the members of D, a set of sets of jobs. *)
Sums(sum, f, D) ==
  sum = [s \in D |-> IF s = {} THEN 0 ELSE f[Pick(s)] + sum[s \ {Pick(s)}]]

Small(n) == {s \in SUBSET Jobs : Cardinality(s) <= n}

LEMMA SmallSets ==
  ASSUME IsFiniteSet(Jobs)
  PROVE  /\ Cardinality(Jobs) \in Nat /\ Small(Cardinality(Jobs)) = SUBSET Jobs
         /\ Small(0) = {{}}
         /\ \A s \in SUBSET Jobs : IsFiniteSet(s) /\ Cardinality(s) \in Nat
         /\ \A s \in SUBSET Jobs : s # {} =>
              /\ Pick(s) \in s /\ s \ {Pick(s)} \in SUBSET Jobs
              /\ Cardinality(s \ {Pick(s)}) = Cardinality(s) - 1
              /\ Cardinality(s) >= 1
<1>1. Cardinality(Jobs) \in Nat
  BY FS_CardinalityType
<1>2. \A s \in SUBSET Jobs : IsFiniteSet(s) /\ Cardinality(s) \in Nat /\ Cardinality(s) <= Cardinality(Jobs)
  BY FS_Subset, FS_CardinalityType
<1>3. \A s \in SUBSET Jobs : Cardinality(s) = 0 <=> s = {}
  BY <1>2, FS_EmptySet
<1>4. Small(Cardinality(Jobs)) = SUBSET Jobs
  BY <1>2 DEF Small
<1>5. Small(0) = {{}}
  <2>1. \A s \in SUBSET Jobs : Cardinality(s) <= 0 <=> s = {}
    BY <1>2, <1>3
  <2> QED BY <2>1 DEF Small
<1>6. ASSUME NEW s \in SUBSET Jobs, s # {}
      PROVE  /\ Pick(s) \in s /\ s \ {Pick(s)} \in SUBSET Jobs
             /\ Cardinality(s \ {Pick(s)}) = Cardinality(s) - 1
             /\ Cardinality(s) >= 1
  <2>1. Pick(s) \in s
    BY <1>6 DEF Pick
  <2>2. Cardinality(s \ {Pick(s)}) = Cardinality(s) - 1
    BY <1>2, <2>1, FS_RemoveElement
  <2>3. Cardinality(s) # 0
    BY <1>3, <1>6
  <2> QED BY <1>2, <2>1, <2>2, <2>3
<1> QED BY <1>1, <1>2, <1>4, <1>5, <1>6

LEMMA TotalUnfolds ==
  ASSUME IsFiniteSet(Jobs), NEW f
  PROVE  \E sum : Sums(sum, f, SUBSET Jobs) /\ Total(f) = sum[Jobs]
<1> DEFINE N == Cardinality(Jobs)
           T == {n \in 0..N : \E sum : Sums(sum, f, Small(n))}
<1>1. N \in Nat
  BY SmallSets
<1>2. 0 \in T
  <2>1. [s \in {{}} |-> 0] = [s \in {{}} |-> IF s = {} THEN 0
                             ELSE f[Pick(s)] + [z \in {{}} |-> 0][s \ {Pick(s)}]]
    OBVIOUS
  <2>2. Sums([s \in {{}} |-> 0], f, Small(0))
    BY <2>1, SmallSets DEF Sums
  <2> QED BY <1>1, <2>2
<1>3. ASSUME NEW n \in 0..(N - 1), n \in T PROVE n + 1 \in T
  <2>1. PICK sum : Sums(sum, f, Small(n))
    BY <1>3
  <2> DEFINE next == [s \in Small(n + 1) |->
                        IF s = {} THEN 0 ELSE f[Pick(s)] + sum[s \ {Pick(s)}]]
  <2>2. \A s \in Small(n) : sum[s] = IF s = {} THEN 0 ELSE f[Pick(s)] + sum[s \ {Pick(s)}]
    BY <2>1 DEF Sums
  <2>3. \A s \in Small(n + 1) : s # {} =>
          s \ {Pick(s)} \in Small(n) /\ s \ {Pick(s)} \in Small(n + 1)
    BY <1>1, SmallSets DEF Small
  <2>4. \A s \in Small(n) : s \in Small(n + 1)
    BY <1>1, SmallSets DEF Small
  <2>5. \A s \in Small(n) : next[s] = sum[s]
    BY <2>2, <2>4
  <2>6. \A s \in Small(n + 1) :
          next[s] = IF s = {} THEN 0 ELSE f[Pick(s)] + next[s \ {Pick(s)}]
    BY <2>3, <2>5
  <2>7. next = [s \in Small(n + 1) |-> next[s]]
    OBVIOUS
  <2> HIDE DEF next
  <2>8. Sums(next, f, Small(n + 1))
    BY <2>6, <2>7 DEF Sums
  <2> QED BY <1>1, <2>8
<1>4. N \in T
  <2> HIDE DEF T
  <2>1. \A n \in 0..N : n \in T
    BY <1>1, <1>2, <1>3, NatSetInduction
  <2> QED BY <1>1, <2>1
<1>5. PICK some : Sums(some, f, SUBSET Jobs)
  BY <1>4, SmallSets
<1> DEFINE sum == CHOOSE g : Sums(g, f, SUBSET Jobs)
<1>6. Sums(sum, f, SUBSET Jobs)
  BY <1>5
<1>7. Total(f) = sum[Jobs]
  BY DEF Total, MapThenSumSet, MapThenFoldSet, Sums, Pick
<1> QED BY <1>6, <1>7

(* No entry adds up to nothing. *)
LEMMA TotalOfNone ==
  ASSUME IsFiniteSet(Jobs)
  PROVE  Total([m \in Jobs |-> 0]) = 0
<1> DEFINE f == [m \in Jobs |-> 0]
           N == Cardinality(Jobs)
<1>1. PICK sum : Sums(sum, f, SUBSET Jobs) /\ Total(f) = sum[Jobs]
  BY TotalUnfolds
<1>2. \A s \in SUBSET Jobs : sum[s] = IF s = {} THEN 0 ELSE f[Pick(s)] + sum[s \ {Pick(s)}]
  BY <1>1 DEF Sums
<1> DEFINE T == {n \in 0..N : \A s \in Small(n) : sum[s] = 0}
<1>3. 0 \in T
  <2>1. {} \in SUBSET Jobs
    OBVIOUS
  <2>2. sum[{}] = 0
    BY <1>2, <2>1
  <2>3. 0 \in 0..N
    BY SmallSets
  <2> QED BY <2>2, <2>3, SmallSets
<1>4. ASSUME NEW n \in 0..(N - 1), n \in T PROVE n + 1 \in T
  <2>1. ASSUME NEW s \in Small(n + 1) PROVE sum[s] = 0
    <3>1. CASE s = {}
      BY <1>2, <3>1
    <3>2. CASE s # {}
      <4>1. s \in SUBSET Jobs /\ Pick(s) \in Jobs /\ s \ {Pick(s)} \in Small(n)
        BY <3>2, SmallSets DEF Small
      <4>2. sum[s \ {Pick(s)}] = 0 /\ f[Pick(s)] = 0
        BY <1>4, <4>1
      <4> QED BY <1>2, <3>2, <4>1, <4>2
    <3> QED BY <3>1, <3>2
  <2>2. n + 1 \in 0..N
    BY SmallSets
  <2> QED BY <2>1, <2>2
<1>5. N \in T
  <2> HIDE DEF T
  <2>1. \A n \in 0..N : n \in T
    BY <1>3, <1>4, SmallSets, NatSetInduction
  <2> QED BY <2>1, SmallSets
<1> QED BY <1>1, <1>5, SmallSets

(* One entry more adds one. *)
LEMMA TotalOfOneMore ==
  ASSUME IsFiniteSet(Jobs), NEW f \in [Jobs -> Nat], NEW g \in [Jobs -> Nat],
         NEW m \in Jobs, g[m] = f[m] + 1, \A x \in Jobs \ {m} : g[x] = f[x]
  PROVE  Total(f) \in Nat /\ Total(g) = Total(f) + 1
<1> DEFINE N == Cardinality(Jobs)
<1>1. PICK sum : Sums(sum, f, SUBSET Jobs) /\ Total(f) = sum[Jobs]
  BY TotalUnfolds
<1>2. PICK new : Sums(new, g, SUBSET Jobs) /\ Total(g) = new[Jobs]
  BY TotalUnfolds
<1>3. \A s \in SUBSET Jobs :
        /\ sum[s] = IF s = {} THEN 0 ELSE f[Pick(s)] + sum[s \ {Pick(s)}]
        /\ new[s] = IF s = {} THEN 0 ELSE g[Pick(s)] + new[s \ {Pick(s)}]
  BY <1>1, <1>2 DEF Sums
<1> DEFINE Right(s) == sum[s] \in Nat /\ new[s] = sum[s] + (IF m \in s THEN 1 ELSE 0)
           T == {n \in 0..N : \A s \in Small(n) : Right(s)}
<1>4. 0 \in T
  <2>1. {} \in SUBSET Jobs /\ m \notin {}
    OBVIOUS
  <2>2. sum[{}] = 0 /\ new[{}] = 0
    BY <1>3, <2>1
  <2>3. Right({})
    BY <2>1, <2>2
  <2>4. 0 \in 0..N
    BY SmallSets
  <2> HIDE DEF Right
  <2> QED BY <2>3, <2>4, SmallSets
<1>5. ASSUME NEW n \in 0..(N - 1), n \in T PROVE n + 1 \in T
  <2>1. ASSUME NEW s \in Small(n + 1) PROVE Right(s)
    <3>1. CASE s = {}
      <4>1. {} \in SUBSET Jobs /\ m \notin {}
        OBVIOUS
      <4>2. sum[{}] = 0 /\ new[{}] = 0
        BY <1>3, <4>1
      <4> QED BY <3>1, <4>1, <4>2
    <3>2. CASE s # {}
      <4>1. s \in SUBSET Jobs /\ Pick(s) \in Jobs /\ Pick(s) \in s /\ s \ {Pick(s)} \in Small(n)
        BY <3>2, SmallSets DEF Small
      <4>2. Right(s \ {Pick(s)})
        BY <1>5, <4>1
      <4>3. /\ sum[s] = f[Pick(s)] + sum[s \ {Pick(s)}]
            /\ new[s] = g[Pick(s)] + new[s \ {Pick(s)}]
        BY <1>3, <3>2, <4>1
      <4>4. f[Pick(s)] \in Nat /\ g[Pick(s)] \in Nat
        BY <4>1
      <4>5. CASE Pick(s) = m
        BY <4>1, <4>2, <4>3, <4>4, <4>5
      <4>6. CASE Pick(s) # m
        <5>1. g[Pick(s)] = f[Pick(s)] /\ (m \in s <=> m \in s \ {Pick(s)})
          BY <4>1, <4>6
        <5> QED BY <4>2, <4>3, <4>4, <5>1
      <4> QED BY <4>5, <4>6
    <3> QED BY <3>1, <3>2
  <2>2. n + 1 \in 0..N
    BY SmallSets
  <2> HIDE DEF Right
  <2> QED BY <2>1, <2>2
<1>6. N \in T
  <2> HIDE DEF T
  <2>1. \A n \in 0..N : n \in T
    BY <1>4, <1>5, SmallSets, NatSetInduction
  <2> QED BY <2>1, SmallSets
<1>7. Right(Jobs)
  <2> HIDE DEF Right
  <2> QED BY <1>6, SmallSets
<1> QED BY <1>1, <1>2, <1>7

-----------------------------------------------------------------------------
(* What one worker remembers fits what it is doing. *)
Fits(r) == Total(inflight[r]) = raised[r] + IF InHand(r) THEN 1 ELSE 0

LEMMA ExactFits == InflightExact <=> \A r \in Replicas : Fits(r)
BY DEF InflightExact, Fits, Total, MapThenSumSet, MapThenFoldSet

LEMMA Undisturbed ==
  ASSUME NEW o \in Replicas, Fits(o), inflight'[o] = inflight[o],
         raised'[o] = raised[o], InHand(o)' <=> InHand(o)
  PROVE  Fits(o)'
BY DEF Fits

(* Entering a job as it is taken in hand, giving its entry back as it is    *)
(* acked, and keeping the entry of a job whose pipeline raised.             *)
LEMMA EntersFits ==
  ASSUME IsFiniteSet(Jobs), TypeOK, NEW r \in Replicas, NEW m \in Jobs, Fits(r),
         ~ InHand(r), InHand(r)', Remember(r, m), raised' = raised
  PROVE  Fits(r)'
<1>1. /\ inflight[r] \in [Jobs -> Nat] /\ raised[r] \in Nat
      /\ inflight'[r] = [inflight[r] EXCEPT ![m] = @ + 1]
  BY DEF TypeOK, Remember
<1> DEFINE f == inflight[r]
           g == inflight'[r]
<1>2. /\ f \in [Jobs -> Nat] /\ g \in [Jobs -> Nat]
      /\ g[m] = f[m] + 1 /\ \A x \in Jobs \ {m} : g[x] = f[x]
  BY <1>1
<1> HIDE DEF f, g
<1>3. Total(f) \in Nat /\ Total(g) = Total(f) + 1
  BY <1>2, TotalOfOneMore
<1> QED BY <1>1, <1>3 DEF Fits, f, g

LEMMA LeavesFits ==
  ASSUME IsFiniteSet(Jobs), TypeOK, NEW r \in Replicas, SoundAt(r), Fits(r),
         InHand(r), ~ InHand(r)', Forget(r, cur[r]), raised' = raised
  PROVE  Fits(r)'
<1> DEFINE m == cur[r]
           f == inflight[r]
           g == inflight'[r]
<1>1. f \in [Jobs -> Nat] /\ raised[r] \in Nat /\ m \in Jobs /\ f[m] >= 1
  BY DEF TypeOK, SoundAt
<1>2. g = [f EXCEPT ![m] = @ - 1]
  BY DEF TypeOK, Forget
<1>3. /\ g \in [Jobs -> Nat]
      /\ f[m] = g[m] + 1 /\ \A x \in Jobs \ {m} : f[x] = g[x]
  BY <1>1, <1>2
<1> HIDE DEF f, g, m
<1>4. Total(g) \in Nat /\ Total(f) = Total(g) + 1
  BY <1>1, <1>3, TotalOfOneMore
<1> QED BY <1>1, <1>4 DEF Fits, f, g

LEMMA NextKeepsFits ==
  ASSUME IsFiniteSet(Jobs), TypeOK, InHandSound, \A r \in Replicas : Fits(r), [Next]_vars
  PROVE  \A r \in Replicas : Fits(r)'
<1> SUFFICES ASSUME NEW o \in Replicas PROVE Fits(o)'
  OBVIOUS
<1> DEFINE Same(q) == /\ inflight'[q] = inflight[q] /\ raised'[q] = raised[q]
                      /\ pc'[q] = pc[q]
<1>1. ASSUME Same(o) PROVE Fits(o)'
  <2>1. InHand(o)' <=> InHand(o)
    BY <1>1 DEF InHand
  <2> QED BY <1>1, <2>1, Undisturbed
<1>2. CASE UNCHANGED <<inflight, raised, pc>>
  BY <1>1, <1>2
<1>3. ASSUME NEW r \in Replicas, Step(r) \/ Fault(r)
      PROVE  Fits(o)'
  <2>1. CASE o # r
    <3>1. Same(o)
      BY <1>3, <2>1 DEF TypeOK, Step, Fault, Start, RecoverOne, RecoverDone, PollEmpty,
        DequeueJob, DequeuePoison, Discard, ReviewDone, Ack, ThreadEnds, RecoverFails,
        DequeueFails, DequeueReplyLost, DiscardFails, ReviewRaises, AckFails, Crash,
        Cancel, Exit, GoTo, Remember, Forget, vars, worker, counts
    <3> QED BY <1>1, <3>1
  <2>2. CASE o = r
    <3>1. CASE RecoverOne(r) \/ PollEmpty(r) \/ DequeueFails(r) \/ DequeueReplyLost(r)
      BY <1>2, <3>1 DEF RecoverOne, PollEmpty, DequeueFails, DequeueReplyLost, vars,
        worker, counts
    <3>2. CASE \/ Start(r) \/ RecoverDone(r) \/ RecoverFails(r) \/ DequeuePoison(r)
               \/ Discard(r) \/ DiscardFails(r) \/ ReviewDone(r) \/ Cancel(r)
      <4>1. inflight' = inflight /\ raised' = raised
        BY <3>2 DEF Start, RecoverDone, RecoverFails, DequeuePoison, Discard, DiscardFails,
          ReviewDone, Cancel, counts
      <4>2. InHand(r)' <=> InHand(r)
        BY <3>2 DEF TypeOK, Start, RecoverDone, RecoverFails, DequeuePoison, Discard,
          DiscardFails, ReviewDone, Cancel, GoTo, InHand
      <4> QED BY <2>2, <4>1, <4>2, Undisturbed
    <3>3. CASE DequeueJob(r)
      <4>1. ~ InHand(r) /\ InHand(r)' /\ raised' = raised
        BY <3>3 DEF DequeueJob, GoTo, TypeOK, InHand, counts
      <4>2. Last(queue) \in Jobs /\ Remember(r, Last(queue))
        BY <3>3 DEF DequeueJob
      <4> QED BY <2>2, <4>1, <4>2, EntersFits
    <3>4. CASE Ack(r) \/ AckFails(r)
      <4>1. InHand(r) /\ ~ InHand(r)' /\ raised' = raised /\ Forget(r, cur[r])
        BY <3>4 DEF Ack, AckFails, GoTo, TypeOK, InHand, counts
      <4>2. SoundAt(r)
        BY DEF InHandSound
      <4> QED BY <2>2, <4>1, <4>2, LeavesFits
    <3>5. CASE ReviewRaises(r)
      <4>1. InHand(r) /\ ~ InHand(r)' /\ inflight' = inflight
        BY <3>5 DEF ReviewRaises, GoTo, TypeOK, InHand
      <4>2. raised'[r] = raised[r] + 1 /\ raised[r] \in Nat
        BY <3>5 DEF ReviewRaises, TypeOK
      <4>3. Total(inflight[r]) = raised[r] + 1
        BY <4>1 DEF Fits
      <4>4. Total(inflight'[r]) = raised'[r] + 0
        BY <4>1, <4>2, <4>3
      <4> QED BY <2>2, <4>1, <4>4 DEF Fits
    <3>6. CASE Crash(r) \/ ThreadEnds(r)
      <4>1. /\ inflight'[r] = [m \in Jobs |-> 0] /\ raised'[r] = 0 /\ ~ InHand(r)'
        BY <3>6 DEF Crash, ThreadEnds, Exit, GoTo, TypeOK, InHand
      <4>2. Total(inflight'[r]) = 0
        BY <4>1, TotalOfNone
      <4> QED BY <2>2, <4>1, <4>2 DEF Fits
    <3> QED BY <1>3, <3>1, <3>2, <3>3, <3>4, <3>5, <3>6 DEF Step, Fault
  <2> QED BY <2>1, <2>2
<1>4. CASE Client
  BY <1>2, <1>4 DEF Client, Enqueue, EnqueueReplyLost, EnqueueResent, ForeignPush, Push,
    worker, counts
<1>5. CASE UNCHANGED vars
  BY <1>2, <1>5 DEF vars, worker, counts
<1> QED BY <1>3, <1>4, <1>5 DEF Next

(* _inflight of a process holds the job in hand and the jobs whose         *)
(* pipeline raised and nothing else, for finitely many jobs: an entry is   *)
(* never popped twice nor left behind (dequeue, ack).                      *)
THEOREM NoEntryLeaks ==
  ASSUME IsFiniteSet(Jobs)
  PROVE  Spec => []InflightExact
<1> DEFINE Exact == \A r \in Replicas : Fits(r)
<1>1. Init => Exact
  <2> SUFFICES ASSUME Init, NEW r \in Replicas PROVE Fits(r)
    OBVIOUS
  <2>1. inflight[r] = [m \in Jobs |-> 0] /\ raised[r] = 0 /\ ~ InHand(r)
    BY DEF Init, InHand
  <2> QED BY <2>1, TotalOfNone DEF Fits
<1>2. Exact /\ IInv /\ [Next]_vars => Exact'
  BY NextKeepsFits DEF IInv
<1>3. Exact => InflightExact
  BY ExactFits
<1> QED BY <1>1, <1>2, <1>3, Inductive, PTL DEF Spec

=============================================================================
