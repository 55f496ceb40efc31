--------------------------- MODULE ReviewJob_proofs ---------------------------
(***************************************************************************)
(* What surrounds the steps of a review, one section for each: the pull    *)
(* request it is aimed at, the calls of the LLM it may spend and the       *)
(* corpus it compares with.  Every section has the inductive invariant of  *)
(* its component (AimInv, BudgetInv, CorpusInv), which says nothing while  *)
(* another one runs, and the theorems that follow.                         *)
(***************************************************************************)
EXTENDS ReviewJob, TLAPS, SequenceTheorems

-----------------------------------------------------------------------------
(* The target *)

(* What is known of the pull request, of which some may be missing *)
Parts ==
  [owner  : {Aim!None, <<Owner>>},
   repo   : {Aim!None, <<Repo>>},
   number : {Aim!NoNumber, Number}]

(* The payloads IdentifiedIsReviewed is about *)
Identified(p) ==
  \/ ~Aim!HasAnyField(p) /\ Aim!EventIdentifies(p.event)
  \/ Aim!HasSlash(p.repo) /\ p.prNumber # Aim!NoNumber

(* A queued job names its pull request or a part of it, and all of it if   *)
(* its payload did.                                                        *)
JobAims ==
  mode = "queued" =>
    /\ Aim!Identity(job) \in Parts
    /\ Identified(payload) => Aim!Complete(Aim!Identity(job))

(* What the worker fetches and posts to is what it reads from the job.     *)
WorkerFollows ==
  LET read == Aim!Identity(job)
      goal == IF enabled /\ Aim!Complete(read) THEN read ELSE Aim!NoTarget
  IN  mode = "queued" =>
        /\ aiming \in {"queued", "assessed", "done"}
        /\ fetched = IF aiming = "queued" THEN Aim!NoTarget ELSE goal
        /\ posted  = IF aiming = "done" THEN goal ELSE Aim!NoTarget

RouteFirst ==
  /\ payload \in Aim!Payloads
  /\ aiming \in {"route", "queued", "assessed", "done"}
  /\ mode \in {"none", "queued", "sync"}
  /\ aiming = "route" <=> mode = "none"
  /\ mode = "sync" => aiming = "done"
  /\ aiming = "route" => fetched = Aim!NoTarget /\ posted = Aim!NoTarget

AimSound == RouteFirst /\ JobAims /\ WorkerFollows /\ Aim!SyncAimsRight

-----------------------------------------------------------------------------
(* Reading a payload *)

(* The forms a repository is given in *)
LEMMA Forms ==
  /\ Aim!None # <<Owner>> /\ Aim!None # <<Repo>> /\ Aim!None # <<Owner, Repo>>
  /\ ~Aim!HasSlash(Aim!None)
  /\ ~Aim!HasSlash(<<Repo>>) /\ ~Aim!HasSlash(<<Owner>>)
  /\ Aim!HasSlash(<<Owner, Repo>>)
  /\ Aim!Before(<<Owner, Repo>>) = <<Owner>> /\ Aim!After(<<Owner, Repo>>) = <<Repo>>
BY DEF Aim!HasSlash, Aim!None, Aim!Before, Aim!After

(* A payload is about one pull request, whatever it tells of it. *)
LEMMA OneTarget ==
  ASSUME NEW p \in Aim!Payloads
  PROVE  /\ p.repo \in {Aim!None, <<Repo>>, <<Owner, Repo>>}
         /\ Aim!ExtractOwner(p) \in {Aim!None, <<Owner>>}
         /\ Aim!ExtractRepo(p) \in {p.repo, Aim!None, <<Repo>>}
         /\ Aim!ExtractNumber(p) \in {Aim!NoNumber, Number}
         /\ p.prNumber \in {Aim!NoNumber, Number}
<1>1. /\ p.repo \in {Aim!None, <<Repo>>, <<Owner, Repo>>} /\ p.event \in Aim!Events
      /\ p.prNumber \in {Aim!NoNumber, Number}
  BY DEF Aim!Payloads
<1>2. /\ p.event.owner \in {Aim!None, <<Owner>>}
      /\ p.event.fullName \in {Aim!None, <<Owner, Repo>>}
      /\ p.event.name \in {Aim!None, <<Repo>>}
      /\ {p.event.prNumber, p.event.number} \subseteq {Aim!NoNumber, Number}
  BY <1>1 DEF Aim!Events, Aim!Optional
<1>3. Aim!ExtractOwner(p) \in {Aim!None, <<Owner>>}
  BY <1>1, <1>2, Forms DEF Aim!ExtractOwner
<1>4. Aim!ExtractRepo(p) \in {p.repo, Aim!None, <<Repo>>}
  BY <1>1, <1>2, Forms DEF Aim!ExtractRepo
<1>5. Aim!ExtractNumber(p) \in {Aim!NoNumber, Number}
  BY <1>1, <1>2 DEF Aim!ExtractNumber
<1> QED BY <1>1, <1>3, <1>4, <1>5

(* An event that identifies its pull request is read in full. *)
LEMMA EventRead ==
  ASSUME NEW p \in Aim!Payloads, ~Aim!HasAnyField(p), Aim!EventIdentifies(p.event)
  PROVE  /\ Aim!ExtractOwner(p) # Aim!None /\ Aim!ExtractRepo(p) # Aim!None
         /\ Aim!ExtractNumber(p) # Aim!NoNumber
<1>1. p.repo = Aim!None /\ p.prNumber = Aim!NoNumber /\ p.event \in Aim!Events
  BY DEF Aim!HasAnyField, Aim!HasSimpleFields, Aim!Payloads
<1>2. p.event.fullName \in {Aim!None, <<Owner, Repo>>}
  BY <1>1 DEF Aim!Events, Aim!Optional
<1>3. Aim!ExtractOwner(p) # Aim!None
  BY <1>1, <1>2, Forms DEF Aim!ExtractOwner, Aim!EventIdentifies
<1>4. Aim!ExtractRepo(p) # Aim!None
  BY <1>1, <1>2, Forms DEF Aim!ExtractRepo, Aim!EventIdentifies
<1>5. Aim!ExtractNumber(p) # Aim!NoNumber
  BY <1>1 DEF Aim!ExtractNumber, Aim!EventIdentifies
<1> QED BY <1>3, <1>4, <1>5

(* A target that is complete and made of the right parts is the target.    *)
LEMMA CompletePartsAreTarget ==
  ASSUME NEW t \in Parts, Aim!Complete(t)
  PROVE  t = Aim!Target
BY DEF Parts, Aim!Complete, Aim!Target

-----------------------------------------------------------------------------
(* The worker reads back what the route wrote. *)
LEMMA Queueing ==
  ASSUME AimSound, NEW i, Aim!Enqueue(i), Aim!Identity(i) \in Parts,
         Identified(payload) => Aim!Complete(Aim!Identity(i))
  PROVE  AimSound'
<1> USE DEF Aim!Enqueue
<1>1. RouteFirst' /\ Aim!SyncAimsRight'
  BY DEF AimSound, RouteFirst, Aim!SyncAimsRight
<1>2. JobAims'
  BY DEF JobAims
<1>3. WorkerFollows'
  BY DEF AimSound, RouteFirst, WorkerFollows
<1> QED BY <1>1, <1>2, <1>3 DEF AimSound

(* The fields of a payload *)
LEMMA FieldsQueued ==
  ASSUME AimSound, Aim!QueueFields
  PROVE  AimSound'
<1> DEFINE p == payload
           i == [owner  |-> IF Aim!HasSlash(p.repo) THEN Aim!Before(p.repo) ELSE Aim!None,
                 repo   |-> p.repo,
                 number |-> p.prNumber]
<1>1. p \in Aim!Payloads /\ Aim!HasSimpleFields(p)
  BY DEF AimSound, RouteFirst, Aim!QueueFields
<1>2. Aim!Identity(i) =
        [owner  |-> IF Aim!HasSlash(p.repo) THEN Aim!Before(p.repo) ELSE Aim!None,
         repo   |-> IF Aim!HasSlash(p.repo) THEN Aim!After(p.repo) ELSE p.repo,
         number |-> p.prNumber]
  BY DEF Aim!Identity
<1>3. /\ p.repo \in {Aim!None, <<Repo>>, <<Owner, Repo>>}
      /\ p.prNumber \in {Aim!NoNumber, Number}
  BY <1>1, OneTarget
<1>4. Aim!Identity(i) \in Parts
  BY <1>2, <1>3, Forms DEF Parts
<1>5. Identified(p) => Aim!Complete(Aim!Identity(i))
  BY <1>1, <1>2, <1>3, Forms DEF Identified, Aim!HasAnyField, Aim!Complete
<1> QED BY <1>4, <1>5, Queueing DEF Aim!QueueFields

(* The event it wraps *)
LEMMA EventQueued ==
  ASSUME AimSound, Aim!QueueEvent
  PROVE  AimSound'
<1> DEFINE p == payload
           i == IF Aim!HasAnyField(p) THEN Aim!NoTarget
                ELSE [owner  |-> Aim!ExtractOwner(p),
                      repo   |-> Aim!ExtractRepo(p),
                      number |-> Aim!ExtractNumber(p)]
<1>1. p \in Aim!Payloads /\ ~Aim!HasSimpleFields(p)
  BY DEF AimSound, RouteFirst, Aim!QueueEvent
<1>2. p.repo = Aim!None
  BY <1>1 DEF Aim!HasSimpleFields
<1>3. Aim!Identity(i) = i /\ i \in Parts
  <2>1. CASE Aim!HasAnyField(p)
    BY <2>1, Forms DEF Aim!NoTarget, Aim!Identity, Parts
  <2>2. CASE ~Aim!HasAnyField(p)
    BY <1>1, <1>2, <2>2, OneTarget, Forms DEF Aim!Identity, Parts
  <2> QED BY <2>1, <2>2
<1>4. Identified(p) => Aim!Complete(i)
  BY <1>1, <1>2, EventRead, Forms DEF Identified, Aim!Complete
<1> QED BY <1>3, <1>4, Queueing DEF Aim!QueueEvent

(* A synchronous review aims at what the event names, if it names an owner. *)
LEMMA SyncAims ==
  ASSUME AimSound, Aim!SyncReview
  PROVE  AimSound'
<1>1. RouteFirst' /\ JobAims' /\ WorkerFollows'
  BY DEF AimSound, RouteFirst, JobAims, WorkerFollows, Aim!SyncReview
<1>2. Aim!SyncAimsRight'
  <2> SUFFICES ASSUME ~Aim!HasSlash(payload.repo), Aim!ExtractOwner(payload) # Aim!None
               PROVE  posted' \in {Aim!Target, Aim!NoTarget}
    BY DEF Aim!SyncReview, Aim!SyncAimsRight
  <2> DEFINE t == [owner  |-> Aim!ExtractOwner(payload),
                   repo   |-> Aim!ExtractRepo(payload),
                   number |-> Aim!ExtractNumber(payload)]
  <2>1. t \in Parts
    BY OneTarget, Forms DEF Parts, AimSound, RouteFirst
  <2>2. posted' = IF enabled /\ Aim!Complete(t) THEN t ELSE Aim!NoTarget
    BY DEF Aim!SyncReview, AimSound, RouteFirst
  <2> QED BY <2>1, <2>2, CompletePartsAreTarget
<1> QED BY <1>1, <1>2 DEF AimSound

LEMMA AimStart ==
  ASSUME Aim!Init
  PROVE  AimSound
BY DEF Aim!Init, AimSound, RouteFirst, JobAims, WorkerFollows, Aim!SyncAimsRight

LEMMA AimStep ==
  ASSUME AimSound, [Aim!Next]_(Aim!vars)
  PROVE  AimSound'
<1>1. CASE UNCHANGED Aim!vars
  BY <1>1 DEF Aim!vars, AimSound, RouteFirst, JobAims, WorkerFollows, Aim!SyncAimsRight
<1>2. CASE Aim!FetchPRData
  BY <1>2 DEF Aim!FetchPRData, AimSound, RouteFirst, JobAims, WorkerFollows,
       Aim!SyncAimsRight
<1>3. CASE Aim!PostReview
  BY <1>3 DEF Aim!PostReview, AimSound, RouteFirst, JobAims, WorkerFollows,
       Aim!SyncAimsRight
<1> QED BY <1>1, <1>2, <1>3, FieldsQueued, EventQueued, SyncAims DEF Aim!Next

-----------------------------------------------------------------------------
(* It holds in every state of a behaviour that runs this component. *)
AimInv == part = "aim" => AimSound

LEMMA AimBegin == Init => AimInv
<1> SUFFICES ASSUME Init, part = "aim" PROVE AimSound
  BY DEF AimInv
<1>1. Aim!Init
  BY DEF Init
<1> QED BY <1>1, AimStart, JobAssumption DEF JobAssumption

LEMMA AimKeep == AimInv /\ [Next]_vars => AimInv'
<1> SUFFICES ASSUME AimInv, [Next]_vars, part' = "aim" PROVE AimSound'
  BY DEF AimInv
<1>1. part = "aim" /\ (Aim!Next \/ UNCHANGED aimVars)
  BY DEF Next, Runs, vars
<1>2. AimSound
  BY <1>1 DEF AimInv
<1>3. [Aim!Next]_(Aim!vars)
  BY <1>1 DEF aimVars, Aim!vars
<1> QED BY <1>2, <1>3, AimStep, JobAssumption DEF JobAssumption

(* A queued job never reads or answers another pull request than the one  *)
(* its payload is about (_webhook_impl, _identity).                        *)
THEOREM JobsAimRight == Spec => []QueuedAimsRight
<1>1. AimInv => QueuedAimsRight
  BY CompletePartsAreTarget
     DEF AimInv, AimSound, JobAims, WorkerFollows, QueuedAimsRight, Aim!QueuedAimsRight
<1> QED BY <1>1, AimBegin, AimKeep, PTL DEF Spec

(* What a queued payload identifies is fetched and answered, where the     *)
(* worker has a client of GitHub (_fetch_pr_data, _post_review).           *)
THEOREM NothingIdentifiedIsSkipped == Spec => []IdentifiedIsReviewed
<1>1. AimInv => IdentifiedIsReviewed
  BY CompletePartsAreTarget
     DEF AimInv, AimSound, JobAims, WorkerFollows, Identified, IdentifiedIsReviewed,
         Aim!IdentifiedIsReviewed
<1> QED BY <1>1, AimBegin, AimKeep, PTL DEF Spec

(* A synchronous review goes to its pull request, apart from the two forms *)
(* of a payload SyncAimsRight leaves out (_run_sync_review).               *)
THEOREM SyncAimsAtTarget == Spec => []SyncAimsRight
<1>1. AimInv => SyncAimsRight
  BY DEF AimInv, AimSound, SyncAimsRight
<1> QED BY <1>1, AimBegin, AimKeep, PTL DEF Spec

-----------------------------------------------------------------------------
(* The budget *)

ThreadStates ==
  {"idle", "enriching", "auditing", "translating", "asking",
   "deciding", "invoking", "counting", "requesting"}

BudgetTyped ==
  /\ ownService \in BOOLEAN
  /\ running \in [Threads -> ThreadStates]
  /\ reviews \in 0..MaxReviews
  /\ installed \in 0..reviews
  /\ count \in [Budget!Services -> Nat]
  /\ service \in [Threads -> 0..reviews]
  /\ loaded \in [Threads -> Nat]
  /\ todo \in [Threads -> Nat]
  /\ made \in [Threads -> Nat]
  /\ retried \in [Threads -> 0..Retries]
  /\ requests \in [Threads -> Nat]
  /\ fellBack \in [Threads -> BOOLEAN]
  /\ alone \in [Threads -> BOOLEAN]

(* A service no review has brought yet has spent nothing. *)
FreshUnspent == \A s \in Budget!Services : s > reviews => count[s] = 0

(* While a review is alone, every other thread is idle. *)
AloneIsAlone ==
  \A t \in Threads : alone[t] /\ running[t] # "idle" => Budget!Others(t) = {}

(* The service a review by itself works with is the one that is installed, *)
(* what it has read of it is still so, and its count is at least what the  *)
(* review has spent: exactly that, if the review brought it.               *)
CountHolds ==
  \A t \in Threads : alone[t] /\ running[t] # "idle" =>
    /\ running[t] = "enriching" => made[t] = 0
    /\ made[t] <= count[installed]
    /\ ownService => made[t] = count[installed]
    /\ running[t] \in {"deciding", "invoking", "counting"} => service[t] = installed
    /\ running[t] \in {"invoking", "counting"} => count[installed] < MaxCalls
    /\ running[t] = "counting" => loaded[t] = count[installed]

(* Every call made has paid for its requests, those it may yet need too.   *)
Price == Retries + 1

PaidFor ==
  \A t \in Threads :
    IF running[t] = "requesting"
    THEN requests[t] + (Price - retried[t]) <= Price * made[t]
    ELSE retried[t] = 0 /\ requests[t] <= Price * made[t]

(* What is spent, and what falls back, is as it should be.                 *)
SpentRight == Budget!BudgetPerReview /\ Budget!FallsBackWhenSpent

BudgetSound ==
  BudgetTyped /\ FreshUnspent /\ AloneIsAlone /\ CountHolds /\ PaidFor /\ SpentRight

-----------------------------------------------------------------------------

(* The variables keep their types. *)
LEMMA BudgetTypes ==
  ASSUME Budget!BudgetAssumption, BudgetTyped, [Budget!Next]_(Budget!vars)
  PROVE  BudgetTyped'
<1> USE DEF Budget!BudgetAssumption, Budget!thread, Budget!budget, Budget!chat,
     Budget!GoTo, BudgetTyped, ThreadStates, Budget!Services
<1>1. CASE UNCHANGED Budget!vars
  BY <1>1 DEF Budget!vars
<1>2. ASSUME NEW t \in Threads, Budget!Begin(t) PROVE BudgetTyped'
  <2>1. reviews' = reviews + 1 /\ reviews' \in 0..MaxReviews
    BY <1>2 DEF Budget!Begin, Budget!Enter
  <2>2. installed' \in 0..reviews' /\ service' \in [Threads -> 0..reviews']
    BY <1>2, <2>1 DEF Budget!Begin, Budget!Enter
  <2>3. alone' \in [Threads -> BOOLEAN]
    BY <1>2 DEF Budget!Begin, Budget!Enter
  <2>4. /\ todo' \in [Threads -> Nat] /\ made' \in [Threads -> Nat]
        /\ requests' \in [Threads -> Nat] /\ fellBack' \in [Threads -> BOOLEAN]
    BY <1>2 DEF Budget!Begin, Budget!Enter
  <2>5. running' \in [Threads -> ThreadStates]
    BY <1>2 DEF Budget!Begin, Budget!Enter
  <2> QED BY <1>2, <2>1, <2>2, <2>3, <2>4, <2>5 DEF Budget!Begin, Budget!Enter
<1>3. ASSUME NEW t \in Threads, Budget!NoFindings(t) PROVE BudgetTyped'
  BY <1>3 DEF Budget!NoFindings
<1>4. ASSUME NEW t \in Threads, Budget!ResetBudget(t) PROVE BudgetTyped'
  BY <1>4 DEF Budget!ResetBudget
<1>5. ASSUME NEW t \in Threads, Budget!NothingToExplain(t) PROVE BudgetTyped'
  BY <1>5 DEF Budget!NothingToExplain
<1>6. ASSUME NEW t \in Threads, Budget!NextLanguage(t) PROVE BudgetTyped'
  <2>1. todo[t] - 1 \in Nat
    BY <1>6 DEF Budget!NextLanguage
  <2> QED BY <1>6, <2>1 DEF Budget!NextLanguage
<1>7. ASSUME NEW t \in Threads, Budget!Ask(t) PROVE BudgetTyped'
  BY <1>7 DEF Budget!Ask
<1>8. ASSUME NEW t \in Threads, Budget!CanInvoke(t) PROVE BudgetTyped'
  BY <1>8 DEF Budget!CanInvoke
<1>9. ASSUME NEW t \in Threads, Budget!FallBack(t) PROVE BudgetTyped'
  BY <1>9 DEF Budget!FallBack
<1>10. ASSUME NEW t \in Threads, Budget!LoadCount(t) PROVE BudgetTyped'
  BY <1>10 DEF Budget!LoadCount
<1>11. ASSUME NEW t \in Threads, Budget!StoreCount(t) PROVE BudgetTyped'
  <2>1. count' \in [Budget!Services -> Nat]
    <3>1. loaded[t] + 1 \in Nat
      OBVIOUS
    <3> QED BY <1>11, <3>1 DEF Budget!StoreCount
  <2>2. made' \in [Threads -> Nat]
    <3>1. made[t] + 1 \in Nat
      OBVIOUS
    <3> QED BY <1>11, <3>1 DEF Budget!StoreCount
  <2> QED BY <1>11, <2>1, <2>2 DEF Budget!StoreCount
<1>12. ASSUME NEW t \in Threads, Budget!Finish(t) PROVE BudgetTyped'
  BY <1>12 DEF Budget!Finish
<1>13. ASSUME NEW t \in Threads, Budget!RateLimited(t) PROVE BudgetTyped'
  <2>1. retried[t] + 1 \in 0..Retries /\ requests[t] + 1 \in Nat
    BY <1>13 DEF Budget!RateLimited, Budget!Request
  <2> QED BY <1>13, <2>1 DEF Budget!RateLimited, Budget!Request
<1>14. ASSUME NEW t \in Threads, Budget!EndCall(t) PROVE BudgetTyped'
  <2>1. requests[t] + 1 \in Nat /\ 0 \in 0..Retries
    OBVIOUS
  <2>2. requests' \in [Threads -> Nat] /\ retried' \in [Threads -> 0..Retries]
    BY <1>14, <2>1 DEF Budget!EndCall, Budget!Request
  <2>3. running' \in [Threads -> ThreadStates]
    BY <1>14 DEF Budget!EndCall
  <2>4. UNCHANGED <<ownService, reviews, installed, count, service, loaded, todo, made,
                    fellBack, alone>>
    BY <1>14 DEF Budget!EndCall, Budget!Request
  <2> QED BY <2>2, <2>3, <2>4
<1> QED BY <1>1, <1>2, <1>3, <1>4, <1>5, <1>6, <1>7, <1>8, <1>9, <1>10, <1>11, <1>12,
     <1>13, <1>14 DEF Budget!Next

(* Whoever stores a count, it is that of a service that was brought. *)
LEMMA FreshKept ==
  ASSUME Budget!BudgetAssumption, BudgetTyped, FreshUnspent, [Budget!Next]_(Budget!vars)
  PROVE  FreshUnspent'
<1> USE DEF Budget!BudgetAssumption, Budget!thread, Budget!budget, Budget!chat,
     Budget!GoTo, BudgetTyped, FreshUnspent, Budget!Services
<1>1. CASE UNCHANGED Budget!vars
  BY <1>1 DEF Budget!vars
<1>2. ASSUME NEW t \in Threads, Budget!Begin(t) PROVE FreshUnspent'
  BY <1>2 DEF Budget!Begin, Budget!Enter
<1>3. ASSUME NEW t \in Threads, Budget!NoFindings(t) PROVE FreshUnspent'
  BY <1>3 DEF Budget!NoFindings
<1>4. ASSUME NEW t \in Threads, Budget!ResetBudget(t) PROVE FreshUnspent'
  BY <1>4 DEF Budget!ResetBudget
<1>5. ASSUME NEW t \in Threads, Budget!NothingToExplain(t) PROVE FreshUnspent'
  BY <1>5 DEF Budget!NothingToExplain
<1>6. ASSUME NEW t \in Threads, Budget!NextLanguage(t) PROVE FreshUnspent'
  BY <1>6 DEF Budget!NextLanguage
<1>7. ASSUME NEW t \in Threads, Budget!Ask(t) PROVE FreshUnspent'
  BY <1>7 DEF Budget!Ask
<1>8. ASSUME NEW t \in Threads, Budget!CanInvoke(t) PROVE FreshUnspent'
  BY <1>8 DEF Budget!CanInvoke
<1>9. ASSUME NEW t \in Threads, Budget!FallBack(t) PROVE FreshUnspent'
  BY <1>9 DEF Budget!FallBack
<1>10. ASSUME NEW t \in Threads, Budget!LoadCount(t) PROVE FreshUnspent'
  BY <1>10 DEF Budget!LoadCount
<1>11. ASSUME NEW t \in Threads, Budget!StoreCount(t) PROVE FreshUnspent'
  BY <1>11 DEF Budget!StoreCount
<1>12. ASSUME NEW t \in Threads, Budget!Finish(t) PROVE FreshUnspent'
  BY <1>12 DEF Budget!Finish
<1>13. ASSUME NEW t \in Threads, Budget!RateLimited(t) PROVE FreshUnspent'
  BY <1>13 DEF Budget!RateLimited, Budget!Request
<1>14. ASSUME NEW t \in Threads, Budget!EndCall(t) PROVE FreshUnspent'
  BY <1>14 DEF Budget!EndCall, Budget!Request
<1> QED BY <1>1, <1>2, <1>3, <1>4, <1>5, <1>6, <1>7, <1>8, <1>9, <1>10, <1>11, <1>12,
     <1>13, <1>14 DEF Budget!Next

(* A review that begins ends the solitude of all that are in progress, and *)
(* has its own only if there is none.                                      *)
LEMMA AloneKept ==
  ASSUME Budget!BudgetAssumption, BudgetTyped, AloneIsAlone, [Budget!Next]_(Budget!vars)
  PROVE  AloneIsAlone'
<1> USE DEF Budget!BudgetAssumption, Budget!thread, Budget!budget, Budget!chat,
     Budget!GoTo, BudgetTyped, AloneIsAlone, Budget!Others
<1>1. CASE UNCHANGED Budget!vars
  BY <1>1 DEF Budget!vars
<1>2. ASSUME NEW t \in Threads, Budget!Begin(t) PROVE AloneIsAlone'
  BY <1>2 DEF Budget!Begin, Budget!Enter
<1>3. ASSUME NEW t \in Threads, Budget!NoFindings(t) PROVE AloneIsAlone'
  BY <1>3 DEF Budget!NoFindings
<1>4. ASSUME NEW t \in Threads, Budget!ResetBudget(t) PROVE AloneIsAlone'
  BY <1>4 DEF Budget!ResetBudget
<1>5. ASSUME NEW t \in Threads, Budget!NothingToExplain(t) PROVE AloneIsAlone'
  BY <1>5 DEF Budget!NothingToExplain
<1>6. ASSUME NEW t \in Threads, Budget!NextLanguage(t) PROVE AloneIsAlone'
  BY <1>6 DEF Budget!NextLanguage
<1>7. ASSUME NEW t \in Threads, Budget!Ask(t) PROVE AloneIsAlone'
  BY <1>7 DEF Budget!Ask
<1>8. ASSUME NEW t \in Threads, Budget!CanInvoke(t) PROVE AloneIsAlone'
  BY <1>8 DEF Budget!CanInvoke
<1>9. ASSUME NEW t \in Threads, Budget!FallBack(t) PROVE AloneIsAlone'
  BY <1>9 DEF Budget!FallBack
<1>10. ASSUME NEW t \in Threads, Budget!LoadCount(t) PROVE AloneIsAlone'
  BY <1>10 DEF Budget!LoadCount
<1>11. ASSUME NEW t \in Threads, Budget!StoreCount(t) PROVE AloneIsAlone'
  BY <1>11 DEF Budget!StoreCount
<1>12. ASSUME NEW t \in Threads, Budget!Finish(t) PROVE AloneIsAlone'
  BY <1>12 DEF Budget!Finish
<1>13. ASSUME NEW t \in Threads, Budget!RateLimited(t) PROVE AloneIsAlone'
  BY <1>13 DEF Budget!RateLimited, Budget!Request
<1>14. ASSUME NEW t \in Threads, Budget!EndCall(t) PROVE AloneIsAlone'
  BY <1>14 DEF Budget!EndCall, Budget!Request
<1> QED BY <1>1, <1>2, <1>3, <1>4, <1>5, <1>6, <1>7, <1>8, <1>9, <1>10, <1>11, <1>12,
     <1>13, <1>14 DEF Budget!Next

(* Only a thread that is not idle writes a count. *)
LEMMA CountKept ==
  ASSUME Budget!BudgetAssumption, BudgetTyped, FreshUnspent, AloneIsAlone, CountHolds,
         [Budget!Next]_(Budget!vars)
  PROVE  CountHolds'
<1> USE DEF Budget!BudgetAssumption, Budget!thread, Budget!budget, Budget!chat,
     Budget!GoTo, BudgetTyped, FreshUnspent, AloneIsAlone, CountHolds, Budget!Others,
     Budget!Services
<1>1. CASE UNCHANGED Budget!vars
  BY <1>1 DEF Budget!vars
<1>2. ASSUME NEW t \in Threads, Budget!Begin(t) PROVE CountHolds'
  <2> SUFFICES ASSUME NEW u \in Threads, alone'[u], running'[u] # "idle"
               PROVE  u = t /\ made'[u] = 0 /\ (ownService => count'[installed'] = 0)
    <3>1. running'[t] = "enriching" /\ ownService' = ownService
      BY <1>2 DEF Budget!Begin, Budget!Enter
    <3>2. installed' \in Budget!Services /\ count' = count
      BY <1>2 DEF Budget!Begin, Budget!Enter
    <3>3. count'[installed'] \in Nat
      BY <3>2
    <3> HIDE DEF BudgetTyped, FreshUnspent, AloneIsAlone, Budget!Others, Budget!Services
    <3>4. \A n \in Nat : 0 <= n
      OBVIOUS
    <3> QED BY <3>1, <3>3, <3>4
  <2>1. u = t
    BY <1>2 DEF Budget!Begin, Budget!Enter
  <2>2. made'[u] = 0
    BY <1>2, <2>1 DEF Budget!Begin, Budget!Enter
  <2>3. ASSUME ownService PROVE count'[installed'] = 0
    BY <1>2, <2>3 DEF Budget!Begin, Budget!Enter
  <2> QED BY <2>1, <2>2, <2>3
<1>3. ASSUME NEW t \in Threads, Budget!NoFindings(t) PROVE CountHolds'
  BY <1>3 DEF Budget!NoFindings
<1>4. ASSUME NEW t \in Threads, Budget!ResetBudget(t) PROVE CountHolds'
  BY <1>4 DEF Budget!ResetBudget
<1>5. ASSUME NEW t \in Threads, Budget!NothingToExplain(t) PROVE CountHolds'
  BY <1>5 DEF Budget!NothingToExplain
<1>6. ASSUME NEW t \in Threads, Budget!NextLanguage(t) PROVE CountHolds'
  BY <1>6 DEF Budget!NextLanguage
<1>7. ASSUME NEW t \in Threads, Budget!Ask(t) PROVE CountHolds'
  BY <1>7 DEF Budget!Ask
<1>8. ASSUME NEW t \in Threads, Budget!CanInvoke(t) PROVE CountHolds'
  BY <1>8 DEF Budget!CanInvoke
<1>9. ASSUME NEW t \in Threads, Budget!FallBack(t) PROVE CountHolds'
  BY <1>9 DEF Budget!FallBack
<1>10. ASSUME NEW t \in Threads, Budget!LoadCount(t) PROVE CountHolds'
  BY <1>10 DEF Budget!LoadCount
<1>11. ASSUME NEW t \in Threads, Budget!StoreCount(t) PROVE CountHolds'
  <2> SUFFICES ASSUME NEW u \in Threads, alone'[u], running'[u] # "idle"
               PROVE  /\ u = t
                      /\ made'[u] <= count'[installed']
                      /\ ownService => made'[u] = count'[installed']
    BY <1>11 DEF Budget!StoreCount
  <2>1. u = t
    BY <1>11 DEF Budget!StoreCount
  <2>2. made'[u] = made[t] + 1 /\ count'[installed'] = count[installed] + 1
    BY <1>11, <2>1 DEF Budget!StoreCount
  <2> QED BY <1>11, <2>1, <2>2 DEF Budget!StoreCount
<1>12. ASSUME NEW t \in Threads, Budget!Finish(t) PROVE CountHolds'
  BY <1>12 DEF Budget!Finish
<1>13. ASSUME NEW t \in Threads, Budget!RateLimited(t) PROVE CountHolds'
  BY <1>13 DEF Budget!RateLimited, Budget!Request
<1>14. ASSUME NEW t \in Threads, Budget!EndCall(t) PROVE CountHolds'
  BY <1>14 DEF Budget!EndCall, Budget!Request
<1> QED BY <1>1, <1>2, <1>3, <1>4, <1>5, <1>6, <1>7, <1>8, <1>9, <1>10, <1>11, <1>12,
     <1>13, <1>14 DEF Budget!Next

(* A call is paid for before its requests are made. *)
LEMMA PaidKept ==
  ASSUME Budget!BudgetAssumption, BudgetTyped, PaidFor, [Budget!Next]_(Budget!vars)
  PROVE  PaidFor'
<1> USE DEF Budget!BudgetAssumption, Budget!thread, Budget!budget, Budget!chat,
     Budget!GoTo, BudgetTyped, PaidFor, Price
<1>1. CASE UNCHANGED Budget!vars
  BY <1>1 DEF Budget!vars
<1>2. ASSUME NEW t \in Threads, Budget!Begin(t) PROVE PaidFor'
  BY <1>2 DEF Budget!Begin, Budget!Enter
<1>3. ASSUME NEW t \in Threads, Budget!NoFindings(t) PROVE PaidFor'
  BY <1>3 DEF Budget!NoFindings
<1>4. ASSUME NEW t \in Threads, Budget!ResetBudget(t) PROVE PaidFor'
  BY <1>4 DEF Budget!ResetBudget
<1>5. ASSUME NEW t \in Threads, Budget!NothingToExplain(t) PROVE PaidFor'
  BY <1>5 DEF Budget!NothingToExplain
<1>6. ASSUME NEW t \in Threads, Budget!NextLanguage(t) PROVE PaidFor'
  BY <1>6 DEF Budget!NextLanguage
<1>7. ASSUME NEW t \in Threads, Budget!Ask(t) PROVE PaidFor'
  BY <1>7 DEF Budget!Ask
<1>8. ASSUME NEW t \in Threads, Budget!CanInvoke(t) PROVE PaidFor'
  BY <1>8 DEF Budget!CanInvoke
<1>9. ASSUME NEW t \in Threads, Budget!FallBack(t) PROVE PaidFor'
  BY <1>9 DEF Budget!FallBack
<1>10. ASSUME NEW t \in Threads, Budget!LoadCount(t) PROVE PaidFor'
  BY <1>10 DEF Budget!LoadCount
<1>11. ASSUME NEW t \in Threads, Budget!StoreCount(t) PROVE PaidFor'
  BY <1>11 DEF Budget!StoreCount
<1>12. ASSUME NEW t \in Threads, Budget!Finish(t) PROVE PaidFor'
  BY <1>12 DEF Budget!Finish
<1>13. ASSUME NEW t \in Threads, Budget!RateLimited(t) PROVE PaidFor'
  BY <1>13 DEF Budget!RateLimited, Budget!Request
<1>14. ASSUME NEW t \in Threads, Budget!EndCall(t) PROVE PaidFor'
  BY <1>14 DEF Budget!EndCall, Budget!Request
<1> QED BY <1>1, <1>2, <1>3, <1>4, <1>5, <1>6, <1>7, <1>8, <1>9, <1>10, <1>11, <1>12,
     <1>13, <1>14 DEF Budget!Next

(* What is spent, and what falls back *)
LEMMA BudgetKept ==
  ASSUME Budget!BudgetAssumption, BudgetTyped, AloneIsAlone, CountHolds, SpentRight,
         [Budget!Next]_(Budget!vars)
  PROVE  SpentRight'
<1> USE DEF Budget!BudgetAssumption, Budget!thread, Budget!budget, Budget!chat,
     Budget!GoTo, BudgetTyped, AloneIsAlone, CountHolds, SpentRight, Budget!BudgetPerReview,
     Budget!FallsBackWhenSpent, Budget!Others
<1>1. CASE UNCHANGED Budget!vars
  BY <1>1 DEF Budget!vars
<1>2. ASSUME NEW t \in Threads, Budget!Begin(t) PROVE SpentRight'
  BY <1>2 DEF Budget!Begin, Budget!Enter
<1>3. ASSUME NEW t \in Threads, Budget!NoFindings(t) PROVE SpentRight'
  BY <1>3 DEF Budget!NoFindings
<1>4. ASSUME NEW t \in Threads, Budget!ResetBudget(t) PROVE SpentRight'
  BY <1>4 DEF Budget!ResetBudget
<1>5. ASSUME NEW t \in Threads, Budget!NothingToExplain(t) PROVE SpentRight'
  BY <1>5 DEF Budget!NothingToExplain
<1>6. ASSUME NEW t \in Threads, Budget!NextLanguage(t) PROVE SpentRight'
  BY <1>6 DEF Budget!NextLanguage
<1>7. ASSUME NEW t \in Threads, Budget!Ask(t) PROVE SpentRight'
  BY <1>7 DEF Budget!Ask
<1>8. ASSUME NEW t \in Threads, Budget!CanInvoke(t) PROVE SpentRight'
  BY <1>8 DEF Budget!CanInvoke
<1>9. ASSUME NEW t \in Threads, Budget!FallBack(t) PROVE SpentRight'
  BY <1>9 DEF Budget!FallBack
<1>10. ASSUME NEW t \in Threads, Budget!LoadCount(t) PROVE SpentRight'
  BY <1>10 DEF Budget!LoadCount
<1>11. ASSUME NEW t \in Threads, Budget!StoreCount(t) PROVE SpentRight'
  BY <1>11 DEF Budget!StoreCount
<1>12. ASSUME NEW t \in Threads, Budget!Finish(t) PROVE SpentRight'
  BY <1>12 DEF Budget!Finish
<1>13. ASSUME NEW t \in Threads, Budget!RateLimited(t) PROVE SpentRight'
  BY <1>13 DEF Budget!RateLimited, Budget!Request
<1>14. ASSUME NEW t \in Threads, Budget!EndCall(t) PROVE SpentRight'
  BY <1>14 DEF Budget!EndCall, Budget!Request
<1> QED BY <1>1, <1>2, <1>3, <1>4, <1>5, <1>6, <1>7, <1>8, <1>9, <1>10, <1>11, <1>12,
     <1>13, <1>14 DEF Budget!Next

-----------------------------------------------------------------------------
(* The invariant holds at first *)
LEMMA BudgetStart ==
  ASSUME Budget!BudgetAssumption, Budget!Init
  PROVE  BudgetSound
BY DEF Budget!BudgetAssumption, Budget!Init, BudgetSound, BudgetTyped, ThreadStates,
     Budget!Services, FreshUnspent, AloneIsAlone, CountHolds, Price, PaidFor, SpentRight,
     Budget!BudgetPerReview, Budget!FallsBackWhenSpent

(* and every step keeps it. *)
LEMMA BudgetStep ==
  ASSUME Budget!BudgetAssumption, BudgetSound, [Budget!Next]_(Budget!vars)
  PROVE  BudgetSound'
BY BudgetTypes, FreshKept, AloneKept, CountKept, PaidKept, BudgetKept DEF BudgetSound

-----------------------------------------------------------------------------
(* It holds in every state of a behaviour that runs this component. *)
BudgetInv == part = "budget" => BudgetSound

LEMMA BudgetBegin == Init => BudgetInv
<1> SUFFICES ASSUME Init, part = "budget" PROVE BudgetSound
  BY DEF BudgetInv
<1>1. Budget!Init
  BY DEF Init
<1> QED BY <1>1, BudgetStart, JobAssumption DEF JobAssumption

LEMMA BudgetKeep == BudgetInv /\ [Next]_vars => BudgetInv'
<1> SUFFICES ASSUME BudgetInv, [Next]_vars, part' = "budget" PROVE BudgetSound'
  BY DEF BudgetInv
<1>1. part = "budget" /\ (Budget!Next \/ UNCHANGED budgetVars)
  BY DEF Next, Runs, vars
<1>2. BudgetSound
  BY <1>1 DEF BudgetInv
<1>3. [Budget!Next]_(Budget!vars)
  BY <1>1 DEF budgetVars, Budget!vars, Budget!thread, Budget!budget, Budget!chat
<1> QED BY <1>2, <1>3, BudgetStep, JobAssumption DEF JobAssumption

(* A review by itself makes no more than LLM_MAX_CALLS calls, whatever     *)
(* counts and half-done increments the reviews before it left.             *)
THEOREM BudgetIsKept == Spec => []BudgetPerReview
<1>1. BudgetInv => BudgetPerReview
  BY DEF BudgetInv, BudgetSound, SpentRight, BudgetPerReview
<1> QED BY <1>1, BudgetBegin, BudgetKeep, PTL DEF Spec

(* A synchronous review by itself has the whole budget: it falls back only *)
(* when it has spent all of it.                                            *)
THEOREM BudgetIsWhole == Spec => []FallsBackWhenSpent
<1>1. BudgetInv => FallsBackWhenSpent
  BY DEF BudgetInv, BudgetSound, SpentRight, FallsBackWhenSpent
<1> QED BY <1>1, BudgetBegin, BudgetKeep, PTL DEF Spec

(* No request is free, and those of a review by itself are bounded (_chat). *)
THEOREM RequestsAreBounded == Spec => []RequestsBounded
<1>1. BudgetInv => RequestsBounded
  <2> SUFFICES ASSUME BudgetSound, NEW t \in Threads
               PROVE  /\ requests[t] <= Price * made[t]
                      /\ alone[t] => requests[t] <= Price * MaxCalls
    BY DEF BudgetInv, RequestsBounded, Budget!RequestsBounded, Price
  <2>1. Price \in Nat /\ MaxCalls \in Nat /\ made[t] \in Nat /\ requests[t] \in Nat
    BY JobAssumption DEF JobAssumption, Budget!BudgetAssumption, BudgetSound,
         BudgetTyped, Price
  <2>2. requests[t] <= Price * made[t]
    BY <2>1, JobAssumption
       DEF JobAssumption, Budget!BudgetAssumption, BudgetSound, BudgetTyped, PaidFor, Price
  <2>3. ASSUME alone[t] PROVE Price * made[t] <= Price * MaxCalls
    <3>1. made[t] <= MaxCalls
      BY <2>3 DEF BudgetSound, SpentRight, Budget!BudgetPerReview
    <3> QED BY <2>1, <3>1
  <2> QED BY <2>1, <2>2, <2>3
<1> QED BY <1>1, BudgetBegin, BudgetKeep, PTL DEF Spec

-----------------------------------------------------------------------------
(* The corpus *)

Entries == [ref : Refs, corpus : SUBSET (1..Blobs), failed : SUBSET (1..Blobs)]

CallTyped ==
  /\ fetching \in {"idle", "token", "tree", "blobs"}
  /\ ref \in Refs /\ token \in Nat
  /\ blob \in 1..(Blobs + 1)
  /\ corpus \in SUBSET (1..(blob - 1)) /\ failed \in SUBSET (1..(blob - 1))
  /\ fetching \in {"token", "tree"} => blob = 1

CorpusTyped ==
  /\ now \in Nat /\ expiry \in Nat /\ faults \in Nat
  /\ cache \in Seq(Entries)
  /\ CallTyped

(* A commit is cached once, and not while it is being fetched.             *)
CachedOnce ==
  /\ \A i, j \in DOMAIN cache : i # j => cache[i].ref # cache[j].ref
  /\ fetching # "idle" => ~ Corpus!Cached(ref)

(* The token is good for Slack when it is taken, and for a call less with  *)
(* every call.                                                             *)
TokenGood ==
  /\ fetching = "tree"  => now + Slack < token
  /\ fetching = "blobs" => now + Slack < token + blob * CallTime

(* A blob that is not there, though its call did not fail, was refused,    *)
(* late enough and for good.                                               *)
RefusedLate ==
  fetching = "blobs" =>
    \A b \in (1..(blob - 1)) \ (corpus \union failed) :
      /\ Slack < (b + 1) * CallTime
      /\ token <= now
      /\ \A later \in b..Blobs : later \notin corpus

CorpusSound ==
  /\ CorpusTyped /\ TokenGood /\ RefusedLate
  /\ Corpus!MissingFailedOrLate

-----------------------------------------------------------------------------
(* One call more takes CallTime more. *)
LEMMA OneCallMore ==
  ASSUME Corpus!CacheAssumption, NEW n \in Nat
  PROVE  n * CallTime \in Nat /\ (n + 1) * CallTime = n * CallTime + CallTime
BY DEF Corpus!CacheAssumption

(* What is known of the token after one call, from what was known before.  *)
LEMMA AfterACall ==
  ASSUME NEW before \in Nat, NEW after \in Nat, NEW one \in Nat, NEW slack \in Nat,
         NEW end \in Nat, NEW sofar \in Nat,
         before + slack < end + sofar, after <= before + one
  PROVE  /\ after + slack < end + (sofar + one)
         /\ end <= after => slack < sofar + one
OBVIOUS

(* A new token lives from the moment it is asked for.                      *)
LEMMA ANewToken ==
  ASSUME NEW before \in Nat, NEW after \in Nat, NEW one \in Nat, NEW slack \in Nat,
         NEW life \in Nat, slack + one < life, after <= before + one
  PROVE  after + slack < before + life
OBVIOUS

(* The corpora that stay and the new one *)
LEMMA Storing ==
  ASSUME Corpus!CacheAssumption, CorpusTyped, Corpus!Store
  PROVE  /\ cache' \in Seq(Entries)
         /\ \E f \in [1..(Len(cache') - 1) -> DOMAIN cache] :
              /\ \A i \in 1..(Len(cache') - 1) : cache'[i] = cache[f[i]]
              /\ \A i, j \in 1..(Len(cache') - 1) : i # j => f[i] # f[j]
         /\ Len(cache') >= 1 /\ cache'[Len(cache')] = Corpus!Entry
<1> USE DEF CorpusTyped
<1>1. Corpus!Entry \in Entries
  <2>1. corpus \subseteq 1..Blobs /\ failed \subseteq 1..Blobs
    BY DEF CallTyped, Corpus!CacheAssumption
  <2> QED BY <2>1 DEF Corpus!Entry, Entries, CallTyped
<1>2. PICK n \in Nat : n = Len(cache) /\ DOMAIN cache = 1..n
  BY LenProperties
<1>3. CASE Len(cache) < Capacity
  <2>1. cache' = Append(cache, Corpus!Entry)
    BY <1>3 DEF Corpus!Store
  <2>2. /\ cache' \in Seq(Entries) /\ Len(cache') = n + 1 /\ cache'[n + 1] = Corpus!Entry
        /\ \A i \in 1..n : cache'[i] = cache[i]
    BY <1>1, <1>2, <2>1, AppendProperties
  <2> DEFINE f == [i \in 1..n |-> i]
  <2>3. f \in [1..n -> DOMAIN cache] /\ \A i \in 1..n : f[i] = i
    BY <1>2
  <2> HIDE DEF f
  <2>4. Len(cache') - 1 = n /\ Len(cache') >= 1
    BY <2>2
  <2> QED BY <2>2, <2>3, <2>4
<1>4. CASE ~ (Len(cache) < Capacity)
  <2>1. cache' = Append(Tail(cache), Corpus!Entry) /\ n >= 1 /\ cache # <<>>
    BY <1>2, <1>4, EmptySeq DEF Corpus!Store, Corpus!CacheAssumption
  <2>2. /\ Tail(cache) \in Seq(Entries) /\ Len(Tail(cache)) = n - 1
        /\ \A i \in 1..(n - 1) : Tail(cache)[i] = cache[i + 1]
    BY <1>2, <2>1, HeadTailProperties
  <2>3. /\ cache' \in Seq(Entries) /\ Len(cache') = n /\ cache'[n] = Corpus!Entry
        /\ \A i \in 1..(n - 1) : cache'[i] = Tail(cache)[i]
    BY <1>1, <2>1, <2>2, AppendProperties
  <2>4. DEFINE f == [i \in 1..(n - 1) |-> i + 1]
  <2>5. f \in [1..(n - 1) -> DOMAIN cache]
    BY <1>2
  <2>6. /\ \A i \in 1..(n - 1) : cache'[i] = cache[f[i]]
        /\ \A i, j \in 1..(n - 1) : i # j => f[i] # f[j]
    BY <2>2, <2>3
  <2> HIDE DEF f
  <2>7. /\ Len(cache') - 1 = n - 1 /\ Len(cache') >= 1
        /\ cache'[Len(cache')] = Corpus!Entry
    BY <2>1, <2>3
  <2> QED BY <2>3, <2>5, <2>6, <2>7
<1> QED BY <1>3, <1>4

(* The call of get_repo_code_corpus and the clock keep their types. *)
LEMMA CorpusTypes ==
  ASSUME Corpus!CacheAssumption, CorpusTyped, [Corpus!Next]_(Corpus!vars)
  PROVE  CorpusTyped'
<1> USE DEF Corpus!CacheAssumption, CorpusTyped, CallTyped, Corpus!TimePasses,
     Corpus!GoTo, Corpus!call, Corpus!None
<1>1. CASE UNCHANGED Corpus!vars
  BY <1>1 DEF Corpus!vars
<1>2. ASSUME NEW r \in Refs, Corpus!Ask(r) PROVE CorpusTyped'
  BY <1>2 DEF Corpus!Ask
<1>3. ASSUME Corpus!KeepToken PROVE CorpusTyped'
  BY <1>3 DEF Corpus!KeepToken
<1>4. ASSUME Corpus!NewToken PROVE CorpusTyped'
  <2>1. now + Life \in Nat /\ now' \in Nat
    <3>1. now + Life \in Nat
      OBVIOUS
    <3>2. now' \in Nat
      BY <1>4 DEF Corpus!NewToken
    <3> QED BY <3>1, <3>2
  <2> QED BY <1>4, <2>1 DEF Corpus!NewToken
<1>5. ASSUME Corpus!TokenFails PROVE CorpusTyped'
  BY <1>5 DEF Corpus!TokenFails, Corpus!GiveUp, Corpus!Fault
<1>6. ASSUME Corpus!ListTree PROVE CorpusTyped'
  BY <1>6 DEF Corpus!ListTree
<1>7. ASSUME Corpus!TreeFails PROVE CorpusTyped'
  <2>1. faults' \in Nat
    BY <1>7 DEF Corpus!TreeFails, Corpus!Refused, Corpus!Fault
  <2> QED BY <1>7, <2>1 DEF Corpus!TreeFails, Corpus!GiveUp
<1>8. ASSUME Corpus!FetchBlob PROVE CorpusTyped'
  BY <1>8 DEF Corpus!FetchBlob
<1>9. ASSUME Corpus!BlobFails PROVE CorpusTyped'
  <2>1. faults' \in Nat /\ now' \in Nat
    BY <1>9 DEF Corpus!BlobFails, Corpus!Fault
  <2>2. /\ blob' \in 1..(Blobs + 1)
        /\ corpus' \in SUBSET (1..(blob' - 1)) /\ failed' \in SUBSET (1..(blob' - 1))
    <3>1. blob' = blob + 1 /\ corpus' = corpus /\ failed' = failed \union {blob} /\ blob <= Blobs
      BY <1>9 DEF Corpus!BlobFails
    <3>2. blob' \in 1..(Blobs + 1) /\ corpus' \subseteq 1..blob
      BY <3>1
    <3>3. failed' \subseteq 1..blob
      BY <3>1
    <3> QED BY <3>1, <3>2, <3>3
  <2> QED BY <1>9, <2>1, <2>2 DEF Corpus!BlobFails
<1>10. ASSUME Corpus!BlobRefused PROVE CorpusTyped'
  BY SMTT(30), <1>10 DEF Corpus!BlobRefused, Corpus!Refused
<1>11. ASSUME Corpus!Store PROVE CorpusTyped'
  <2>1. cache' \in Seq(Entries)
    BY <1>11, Storing
  <2> QED BY <1>11, <2>1 DEF Corpus!Store
<1>12. ASSUME Corpus!Pause PROVE CorpusTyped'
  BY <1>12 DEF Corpus!Pause
<1> QED BY <1>1, <1>2, <1>3, <1>4, <1>5, <1>6, <1>7, <1>8, <1>9, <1>10, <1>11, <1>12
     DEF Corpus!Next

(* A commit is only asked for while it is not cached. *)
LEMMA CachedOnceKept ==
  ASSUME Corpus!CacheAssumption, CorpusTyped, CachedOnce, [Corpus!Next]_(Corpus!vars)
  PROVE  CachedOnce'
<1> USE DEF CachedOnce, Corpus!Cached, Corpus!GoTo, Corpus!call
<1>1. CASE Corpus!Store
  <2>1. PICK f \in [1..(Len(cache') - 1) -> DOMAIN cache] :
          /\ \A i \in 1..(Len(cache') - 1) : cache'[i] = cache[f[i]]
          /\ \A i, j \in 1..(Len(cache') - 1) : i # j => f[i] # f[j]
    BY <1>1, Storing
  <2>2. /\ DOMAIN cache' = 1..Len(cache') /\ Len(cache') \in Nat /\ Len(cache') >= 1
        /\ cache'[Len(cache')].ref = ref
    BY <1>1, Storing, LenProperties DEF Corpus!Entry
  <2>3. ASSUME NEW i \in DOMAIN cache', NEW j \in DOMAIN cache', i < j
        PROVE  cache'[i].ref # cache'[j].ref
    <3>1. i \in 1..(Len(cache') - 1)
      BY <2>2, <2>3
    <3>2. CASE j = Len(cache')
      <4>1. \A k \in DOMAIN cache : cache[k].ref # ref
        BY <1>1 DEF Corpus!Store
      <4>2. f[i] \in DOMAIN cache /\ cache'[i] = cache[f[i]]
        BY <2>1, <3>1
      <4> QED BY <2>2, <3>2, <4>1, <4>2
    <3>3. CASE j # Len(cache')
      <4>1. j \in 1..(Len(cache') - 1) /\ i # j
        BY <2>2, <2>3, <3>3
      <4> QED BY <2>1, <3>1, <4>1
    <3> QED BY <3>2, <3>3
  <2>4. \A i, j \in DOMAIN cache' : i # j => i < j \/ j < i
    BY <2>2
  <2>5. fetching' = "idle"
    BY <1>1 DEF Corpus!Store
  <2> QED BY <2>3, <2>4, <2>5
<1>2. CASE \E r \in Refs : Corpus!Ask(r)
  BY <1>2 DEF Corpus!Ask
<1>3. CASE ~ Corpus!Store /\ ~ \E r \in Refs : Corpus!Ask(r)
  <2>1. cache' = cache /\ ref' = ref /\ (fetching = "idle" => fetching' = "idle")
    BY <1>3 DEF Corpus!Next, Corpus!vars, Corpus!KeepToken, Corpus!NewToken,
         Corpus!TokenFails, Corpus!ListTree, Corpus!TreeFails,
         Corpus!FetchBlob, Corpus!BlobFails, Corpus!BlobRefused,
         Corpus!GiveUp, Corpus!Pause
  <2> QED BY <2>1
<1> QED BY <1>1, <1>2, <1>3

(* A token that is taken is good for Slack; every call that follows takes  *)
(* no longer than CallTime.                                                *)
LEMMA TokenGoodKept ==
  ASSUME Corpus!CacheAssumption, CorpusTyped, TokenGood, [Corpus!Next]_(Corpus!vars)
  PROVE  TokenGood'
<1> USE DEF Corpus!TimePasses, Corpus!GoTo, Corpus!call
<1>1. /\ now \in Nat /\ token \in Nat /\ expiry \in Nat /\ blob \in Nat
      /\ CallTime \in Nat /\ Slack \in Nat /\ Life \in Nat /\ Slack + CallTime < Life
      /\ fetching \in {"token", "tree"} => blob = 1
  BY DEF CorpusTyped, CallTyped, Corpus!CacheAssumption
<1>2. CASE UNCHANGED Corpus!vars
  BY <1>2 DEF Corpus!vars, TokenGood
<1>3. CASE \E r \in Refs : Corpus!Ask(r)
  BY <1>3 DEF Corpus!Ask, TokenGood
<1>4. CASE Corpus!KeepToken
  BY <1>1, <1>4 DEF Corpus!KeepToken, Corpus!Usable, TokenGood
<1>5. CASE Corpus!NewToken
  <2>1. /\ now' <= now + CallTime /\ now' \in Nat
        /\ token' = now + Life /\ fetching' = "tree"
    BY <1>1, <1>5 DEF Corpus!NewToken
  <2>2. now' + Slack < now + Life
    BY <1>1, <2>1, ANewToken
  <2> QED BY <2>1, <2>2 DEF TokenGood
<1>6. CASE Corpus!ListTree
  <2>1. /\ now' <= now + CallTime /\ now' \in Nat /\ now + Slack < token + 0
        /\ blob' = 1 /\ token' = token /\ fetching' = "blobs"
    BY <1>1, <1>6 DEF Corpus!ListTree, TokenGood
  <2>2. 0 * CallTime = 0 /\ 1 * CallTime = 0 + CallTime
    <3>1. CallTime \in Nat
      BY <1>1
    <3>2. 0 * CallTime = 0
      BY <3>1
    <3>3. 1 * CallTime = CallTime
      BY <3>1
    <3> QED BY <3>1, <3>2, <3>3
  <2>3. now' + Slack < token + (0 + CallTime)
    BY <1>1, <2>1, AfterACall
  <2> QED BY <2>1, <2>2, <2>3 DEF TokenGood
<1>7. CASE Corpus!FetchBlob \/ Corpus!BlobFails \/ Corpus!BlobRefused
  <2>1. /\ now' <= now + CallTime /\ now' \in Nat
        /\ fetching = "blobs" /\ blob' = blob + 1 /\ token' = token /\ fetching' = "blobs"
    <3>1. CASE Corpus!FetchBlob
      BY <1>1, <3>1 DEF Corpus!FetchBlob
    <3>2. CASE Corpus!BlobFails
      BY <1>1, <3>2 DEF Corpus!BlobFails
    <3>3. CASE Corpus!BlobRefused
      BY <1>1, <3>3 DEF Corpus!BlobRefused
    <3> QED BY <1>7, <3>1, <3>2, <3>3
  <2>2. blob * CallTime \in Nat /\ (blob + 1) * CallTime = blob * CallTime + CallTime
    BY <1>1, OneCallMore
  <2>3. now + Slack < token + blob * CallTime
    BY <2>1 DEF TokenGood
  <2>4. now' + Slack < token + (blob * CallTime + CallTime)
    BY <1>1, <2>1, <2>2, <2>3, AfterACall
  <2> QED BY <2>1, <2>2, <2>4 DEF TokenGood
<1>8. CASE Corpus!TokenFails \/ Corpus!TreeFails \/ Corpus!Store \/ Corpus!Pause
  BY <1>8 DEF TokenGood, Corpus!TokenFails, Corpus!TreeFails, Corpus!GiveUp,
       Corpus!Store, Corpus!Pause
<1> QED BY <1>2, <1>3, <1>4, <1>5, <1>6, <1>7, <1>8 DEF Corpus!Next

(* The answer that refuses a blob comes after the end of the token.  What  *)
(* is refused once is not followed by a blob that is fetched.              *)
LEMMA RefusedLateKept ==
  ASSUME Corpus!CacheAssumption, CorpusTyped, TokenGood, RefusedLate,
         [Corpus!Next]_(Corpus!vars)
  PROVE  RefusedLate'
<1> USE DEF Corpus!CacheAssumption, CorpusTyped, CallTyped, Corpus!GoTo, Corpus!call
<1>1. CASE UNCHANGED Corpus!vars
  BY <1>1 DEF Corpus!vars, RefusedLate
<1>2. CASE Corpus!ListTree
  <2>1. blob' = 1
    BY <1>2 DEF Corpus!ListTree
  <2> QED BY <2>1 DEF RefusedLate
<1>3. CASE Corpus!FetchBlob
  <2>1. /\ now < token /\ fetching = "blobs" /\ blob' = blob + 1
        /\ corpus' = corpus \union {blob} /\ failed' = failed
    BY <1>3 DEF Corpus!FetchBlob, Corpus!Authorised
  <2>2. (1..(blob - 1)) \ (corpus \union failed) = {}
    BY <2>1 DEF RefusedLate
  <2>3. (1..(blob' - 1)) \ (corpus' \union failed') = {}
    BY <2>1, <2>2
  <2> QED BY <2>3 DEF RefusedLate
<1>4. CASE Corpus!BlobFails
  <2>1. /\ fetching = "blobs" /\ blob' = blob + 1 /\ corpus' = corpus
        /\ failed' = failed \union {blob} /\ token' = token /\ now' >= now /\ now' \in Nat
    BY <1>4 DEF Corpus!BlobFails, Corpus!TimePasses
  <2> SUFFICES ASSUME NEW b \in (1..(blob' - 1)) \ (corpus' \union failed')
               PROVE  /\ Slack < (b + 1) * CallTime /\ token' <= now'
                      /\ \A later \in b..Blobs : later \notin corpus'
    BY DEF RefusedLate
  <2>2. b \in (1..(blob - 1)) \ (corpus \union failed)
    BY <2>1
  <2>3. /\ Slack < (b + 1) * CallTime /\ token <= now
        /\ \A later \in b..Blobs : later \notin corpus
    BY <2>1, <2>2 DEF RefusedLate
  <2> QED BY <2>1, <2>3
<1>5. CASE Corpus!BlobRefused
  <2>1. /\ fetching = "blobs" /\ blob' = blob + 1 /\ corpus' = corpus /\ failed' = failed
        /\ token' = token /\ now' >= now /\ now' \in Nat /\ now' <= now + CallTime
        /\ token <= now'
    BY <1>5 DEF Corpus!BlobRefused, Corpus!Refused, Corpus!TimePasses
  <2> SUFFICES ASSUME NEW b \in (1..(blob' - 1)) \ (corpus' \union failed')
               PROVE  /\ Slack < (b + 1) * CallTime /\ token' <= now'
                      /\ \A later \in b..Blobs : later \notin corpus'
    BY DEF RefusedLate
  <2>2. CASE b = blob
    <3>1. Slack < (blob + 1) * CallTime
      <4>1. blob * CallTime \in Nat /\ (blob + 1) * CallTime = blob * CallTime + CallTime
        BY OneCallMore
      <4>2. now + Slack < token + blob * CallTime
        BY <2>1 DEF TokenGood
      <4>3. Slack < blob * CallTime + CallTime
        BY <2>1, <4>1, <4>2, AfterACall
      <4> QED BY <4>1, <4>3
    <3>2. \A later \in blob..Blobs : later \notin corpus
      OBVIOUS
    <3> QED BY <2>1, <2>2, <3>1, <3>2
  <2>3. CASE b # blob
    <3>1. b \in (1..(blob - 1)) \ (corpus \union failed)
      BY <2>1, <2>3
    <3>2. /\ Slack < (b + 1) * CallTime
          /\ \A later \in b..Blobs : later \notin corpus
      BY <2>1, <3>1 DEF RefusedLate
    <3> QED BY <2>1, <3>2
  <2> QED BY <2>2, <2>3
<1>6. CASE \/ \E r \in Refs : Corpus!Ask(r)
           \/ Corpus!KeepToken \/ Corpus!NewToken
           \/ Corpus!TokenFails \/ Corpus!TreeFails \/ Corpus!Store \/ Corpus!Pause
  <2>1. fetching' # "blobs"
    BY <1>6 DEF Corpus!Ask, Corpus!KeepToken, Corpus!NewToken, Corpus!TokenFails,
         Corpus!TreeFails, Corpus!GiveUp, Corpus!Store, Corpus!Pause
  <2> QED BY <2>1 DEF RefusedLate
<1> QED BY <1>1, <1>2, <1>3, <1>4, <1>5, <1>6 DEF Corpus!Next

(* So a corpus lacks only what failed or came late when it is stored, and  *)
(* nothing is taken out of it later.                                       *)
LEMMA MissingKept ==
  ASSUME Corpus!CacheAssumption, CorpusSound, [Corpus!Next]_(Corpus!vars)
  PROVE  Corpus!MissingFailedOrLate'
<1> DEFINE Explained(kept) ==
             \A b \in (1..Blobs) \ (kept.corpus \union kept.failed) :
               /\ Slack < (b + 1) * CallTime
               /\ \A later \in b..Blobs : later \notin kept.corpus
<1>1. \A i \in DOMAIN cache : Explained(cache[i])
  BY DEF CorpusSound, Corpus!MissingFailedOrLate
<1> SUFFICES \A i \in DOMAIN cache' : Explained(cache'[i])
  BY DEF Corpus!MissingFailedOrLate
<1>2. CASE Corpus!Store
  <2>1. PICK f \in [1..(Len(cache') - 1) -> DOMAIN cache] :
          \A i \in 1..(Len(cache') - 1) : cache'[i] = cache[f[i]]
    BY <1>2, Storing DEF CorpusSound
  <2>2. /\ DOMAIN cache' = 1..Len(cache') /\ Len(cache') \in Nat
        /\ cache'[Len(cache')] = Corpus!Entry
    BY <1>2, Storing, LenProperties DEF CorpusSound
  <2>3. blob - 1 = Blobs /\ fetching = "blobs"
    <3>1. blob > Blobs /\ fetching = "blobs"
      BY <1>2 DEF Corpus!Store
    <3>2. Blobs \in Nat /\ blob \in 1..(Blobs + 1)
      BY DEF CorpusSound, CorpusTyped, CallTyped, Corpus!CacheAssumption
    <3> QED BY <3>1, <3>2
  <2>4. Corpus!Entry.corpus = corpus /\ Corpus!Entry.failed = failed
    BY DEF Corpus!Entry
  <2>5. Explained(Corpus!Entry)
    BY <2>3, <2>4 DEF CorpusSound, RefusedLate
  <2> HIDE DEF Explained
  <2> TAKE i \in DOMAIN cache'
  <2>6. CASE i = Len(cache')
    BY <2>2, <2>5, <2>6
  <2>7. CASE i # Len(cache')
    <3>1. i \in 1..(Len(cache') - 1)
      BY <2>2, <2>7
    <3>2. f[i] \in DOMAIN cache /\ cache'[i] = cache[f[i]]
      BY <2>1, <3>1
    <3> QED BY <1>1, <3>2
  <2> QED BY <2>6, <2>7
<1>3. CASE ~ Corpus!Store
  <2>1. cache' = cache
    BY <1>3 DEF Corpus!Next, Corpus!vars, Corpus!Ask, Corpus!KeepToken, Corpus!NewToken,
         Corpus!TokenFails, Corpus!ListTree, Corpus!TreeFails, Corpus!GiveUp,
         Corpus!FetchBlob, Corpus!BlobFails, Corpus!BlobRefused, Corpus!Pause
  <2> HIDE DEF Explained
  <2> QED BY <1>1, <2>1
<1> QED BY <1>2, <1>3

(* The invariant holds at first *)
LEMMA CorpusTypedAtFirst ==
  ASSUME Corpus!CacheAssumption, Corpus!Init
  PROVE  CorpusTyped
BY DEF Corpus!Init, CorpusTyped, CallTyped, Corpus!CacheAssumption, Corpus!None

LEMMA CorpusStart ==
  ASSUME Corpus!CacheAssumption, Corpus!Init
  PROVE  CorpusSound
<1>1. CorpusTyped
  BY CorpusTypedAtFirst
<1>2. TokenGood /\ RefusedLate
  BY DEF Corpus!Init, TokenGood, RefusedLate
<1>3. Corpus!MissingFailedOrLate
  BY DEF Corpus!Init, Corpus!MissingFailedOrLate
<1> QED BY <1>1, <1>2, <1>3 DEF CorpusSound

(* and from then on. *)
LEMMA CorpusStep ==
  ASSUME Corpus!CacheAssumption, CorpusSound, [Corpus!Next]_(Corpus!vars)
  PROVE  CorpusSound'
<1>1. CorpusTyped' /\ TokenGood' /\ RefusedLate'
  BY CorpusTypes, TokenGoodKept, RefusedLateKept DEF CorpusSound
<1>2. Corpus!MissingFailedOrLate'
  BY MissingKept
<1> QED BY <1>1, <1>2 DEF CorpusSound

-----------------------------------------------------------------------------
(* It holds in every state of a behaviour that runs this component. *)
CorpusInv == part = "corpus" => CorpusSound

LEMMA CorpusBegin == Init => CorpusInv
<1> SUFFICES ASSUME Init, part = "corpus" PROVE CorpusSound
  BY DEF CorpusInv
<1>1. Corpus!Init
  BY DEF Init
<1> QED BY <1>1, CorpusStart, JobAssumption DEF JobAssumption

LEMMA CorpusKeep ==
  ASSUME CorpusInv, [Next]_vars
  PROVE  CorpusInv'
<1> SUFFICES ASSUME part' = "corpus" PROVE CorpusSound'
  BY DEF CorpusInv
<1>1. part = "corpus" /\ (Corpus!Next \/ UNCHANGED corpusVars)
  BY DEF Next, Runs, vars
<1>2. CorpusSound
  BY <1>1 DEF CorpusInv
<1>3. [Corpus!Next]_(Corpus!vars)
  BY <1>1 DEF corpusVars, Corpus!vars, Corpus!call
<1> QED BY <1>2, <1>3, CorpusStep, JobAssumption DEF JobAssumption

(* A cached corpus lacks a blob only for the failure of its own call, or   *)
(* because the token, good for Slack when it was taken, ended before the   *)
(* answer; then the tree and the blobs up to this one took longer than     *)
(* Slack, and all that follow are missing too (get_repo_code_corpus,       *)
(* _get_installation_token).  Nothing is assumed of how many files there   *)
(* are, nor of how slow the calls are but that a new token outlives one.   *)
THEOREM MissingExplained == Spec => []MissingFailedOrLate
<1>1. CorpusInv => MissingFailedOrLate
  BY DEF CorpusInv, CorpusSound, MissingFailedOrLate
<1>2. Init => CorpusInv
  BY CorpusBegin
<1>3. CorpusInv /\ [Next]_vars => CorpusInv'
  BY CorpusKeep
<1> QED BY <1>1, <1>2, <1>3, PTL DEF Spec

(* No commit is cached twice:                                              *)
(* get_repo_code_corpus only fetches a commit it does not find, and stores *)
(* it when it is done.                                                     *)
THEOREM CommitsCachedOnce ==
  Spec => [](part = "corpus" =>
               \A i, j \in DOMAIN cache : i # j => cache[i].ref # cache[j].ref)
<1> DEFINE Once == part = "corpus" => CorpusTyped /\ CachedOnce
<1>1. Init => Once
  BY CorpusTypedAtFirst, JobAssumption DEF JobAssumption, Init, Corpus!Init, CachedOnce
<1>2. Once /\ [Next]_vars => Once'
  <2> SUFFICES ASSUME Once, [Next]_vars, part' = "corpus" PROVE CorpusTyped' /\ CachedOnce'
    OBVIOUS
  <2>1. part = "corpus" /\ (Corpus!Next \/ UNCHANGED corpusVars)
    BY DEF Next, Runs, vars
  <2>2. [Corpus!Next]_(Corpus!vars)
    BY <2>1 DEF corpusVars, Corpus!vars, Corpus!call
  <2> QED BY <2>1, <2>2, CorpusTypes, CachedOnceKept, JobAssumption DEF JobAssumption
<1>3. Once => (part = "corpus" =>
                 \A i, j \in DOMAIN cache : i # j => cache[i].ref # cache[j].ref)
  BY DEF CachedOnce
<1> QED BY <1>1, <1>2, <1>3, PTL DEF Spec
===============================================================================
