----------------------------- MODULE ReviewBudget -----------------------------
(***************************************************************************)
(* LLM_MAX_CALLS: what a review spends (llm_service.py,                    *)
(* audit_orchestrator.py run_full_review) when reviews share an            *)
(* orchestrator.  The background worker runs one review after the other    *)
(* with one LLMService for all; every synchronous request puts a service   *)
(* of its own into the orchestrator of the process, and its review then    *)
(* runs in a thread.                                                       *)
(*                                                                         *)
(* The fields llm_service and call_count are read and written without a    *)
(* lock: one action of a thread is one read or write of them.  A call of   *)
(* the LLM is one HTTP request or, while the provider answers that there   *)
(* were too many, a few (nim_provider.py, _chat).                          *)
(***************************************************************************)
EXTENDS Integers

CONSTANTS
  Threads,      \* threads that run reviews at one time
  Languages,    \* how many translations are appended
  MaxCalls,     \* LLM_MAX_CALLS
  Retries,      \* how many RETRY_DELAYS there are
  MaxReviews    \* bound: reviews of a behaviour

BudgetAssumption ==
  {Languages, MaxCalls, Retries, MaxReviews} \subseteq Nat

(* A service is known by the review that brought it, the worker's is 0. *)
Services == 0..MaxReviews

VARIABLES
  ownService, \* a synchronous review brings a service of its own, the worker's does not
  pc,        \* of each thread
  reviews,   \* reviews started so far
  installed, \* orchestrator.llm_service
  count,     \* call_count of each service
  service,   \* of each thread: the service whose method it runs
  loaded,    \* of each thread: the call_count it is about to store, less one
  todo,      \* of each thread: translations still to do
  retried,   \* of each thread: attempt, of the call it makes
  made,      \* of each thread: history, LLM calls of this review
  requests,  \* of each thread: history, HTTP requests of this review
  fellBack,  \* of each thread: history, whether this review found no budget
  alone      \* of each thread: history, no other review ran during this one

budget  == <<loaded, todo, made, fellBack>>
chat    == <<retried, requests>>
thread  == <<service, alone, budget, chat>>
vars    == <<ownService, pc, reviews, installed, count, thread>>

Init ==
  /\ ownService \in BOOLEAN
  /\ pc = [t \in Threads |-> "idle"]
  /\ reviews = 0
  /\ installed = 0
  /\ count = [s \in Services |-> 0]
  /\ service = [t \in Threads |-> 0]
  /\ loaded = [t \in Threads |-> 0]
  /\ todo = [t \in Threads |-> 0]
  /\ made = [t \in Threads |-> 0]
  /\ retried = [t \in Threads |-> 0]
  /\ requests = [t \in Threads |-> 0]
  /\ fellBack = [t \in Threads |-> FALSE]
  /\ alone = [t \in Threads |-> TRUE]

GoTo(t, state) == pc' = [pc EXCEPT ![t] = state] /\ UNCHANGED ownService

Others(t) == {other \in Threads \ {t} : pc[other] # "idle"}

(* The worker runs one review at a time; requests come when they come.     *)
Enter(t) ==
  /\ pc[t] = "idle" /\ reviews < MaxReviews
  /\ ownService \/ Others(t) = {}
  /\ reviews' = reviews + 1
  /\ todo' = [todo EXCEPT ![t] = Languages]
  /\ made' = [made EXCEPT ![t] = 0]
  /\ requests' = [requests EXCEPT ![t] = 0]
  /\ fellBack' = [fellBack EXCEPT ![t] = FALSE]
  /\ alone' = [other \in Threads |->
       IF other = t THEN Others(t) = {} ELSE alone[other] /\ other \notin Others(t)]
  /\ GoTo(t, "enriching")

-----------------------------------------------------------------------------
(* mutant: the service is built once for all requests *)
BeginShared(t) ==
  /\ Enter(t)
  /\ UNCHANGED <<installed, count, service, loaded, retried>>

(* _webhook_impl and asyncio.to_thread, or the next job of the worker *)
Begin(t) ==
  /\ Enter(t)
  /\ installed' = IF ownService THEN reviews' ELSE installed
  /\ UNCHANGED <<count, service, loaded, retried>>

(* enrich_findings_with_llm: no findings, no LLM *)
NoFindings(t) ==
  /\ pc[t] = "enriching"
  /\ GoTo(t, "translating")
  /\ UNCHANGED <<reviews, installed, count, thread>>

ResetBudget(t) ==
  /\ pc[t] = "enriching"
  /\ count' = [count EXCEPT ![installed] = 0]
  /\ GoTo(t, "auditing")
  /\ UNCHANGED <<reviews, installed, thread>>

(* generate_pr_audit: findings that need no explanation make no call.      *)
NothingToExplain(t) ==
  /\ pc[t] = "auditing"
  /\ GoTo(t, "translating")
  /\ UNCHANGED <<reviews, installed, count, thread>>

(* append_translations: one call for each language *)
NextLanguage(t) ==
  /\ pc[t] = "translating" /\ todo[t] > 0
  /\ todo' = [todo EXCEPT ![t] = @ - 1]
  /\ GoTo(t, "asking")
  /\ UNCHANGED <<reviews, installed, count, service, loaded, made, fellBack, alone, chat>>

(* The orchestrator looks its service up at every call. *)
Ask(t) ==
  /\ pc[t] \in {"auditing", "asking"}
  /\ service' = [service EXCEPT ![t] = installed]
  /\ GoTo(t, "deciding")
  /\ UNCHANGED <<reviews, installed, count, budget, alone, chat>>

(* mutant: the limit itself is still allowed *)
CanInvokeOnce(t) ==
  /\ pc[t] = "deciding"
  /\ count[service[t]] <= MaxCalls
  /\ GoTo(t, "invoking")
  /\ UNCHANGED <<reviews, installed, count, thread>>

(* _can_invoke *)
CanInvoke(t) ==
  /\ pc[t] = "deciding"
  /\ count[service[t]] < MaxCalls
  /\ GoTo(t, "invoking")
  /\ UNCHANGED <<reviews, installed, count, thread>>

FallBack(t) ==
  /\ pc[t] = "deciding"
  /\ ~ count[service[t]] < MaxCalls
  /\ fellBack' = [fellBack EXCEPT ![t] = TRUE]
  /\ GoTo(t, "translating")
  /\ UNCHANGED <<reviews, installed, count, service, loaded, todo, made, alone, chat>>

(* self.call_count += 1 *)
LoadCount(t) ==
  /\ pc[t] = "invoking"
  /\ loaded' = [loaded EXCEPT ![t] = count[service[t]]]
  /\ GoTo(t, "counting")
  /\ UNCHANGED <<reviews, installed, count, service, todo, made, fellBack, alone, chat>>

(* The call is spent before it is made, and stays so if it fails.          *)
StoreCount(t) ==
  /\ pc[t] = "counting"
  /\ count' = [count EXCEPT ![service[t]] = loaded[t] + 1]
  /\ made' = [made EXCEPT ![t] = @ + 1]
  /\ GoTo(t, "requesting")
  /\ UNCHANGED <<reviews, installed, service, loaded, todo, fellBack, alone, chat>>

(* One HTTP request of a call *)
Request(t) ==
  /\ pc[t] = "requesting"
  /\ requests' = [requests EXCEPT ![t] = @ + 1]
  /\ UNCHANGED <<reviews, installed, count, service, budget, alone>>

(* mutant: one attempt more than there are delays for *)
RateLimitedMore(t) ==
  /\ Request(t) /\ retried[t] <= Retries
  /\ retried' = [retried EXCEPT ![t] = @ + 1]
  /\ GoTo(t, "requesting")

RateLimited(t) ==
  /\ Request(t) /\ retried[t] < Retries
  /\ retried' = [retried EXCEPT ![t] = @ + 1]
  /\ GoTo(t, "requesting")

(* An answer, an empty one, another error, or the last rate limit.         *)
EndCall(t) ==
  /\ Request(t)
  /\ retried' = [retried EXCEPT ![t] = 0]
  /\ GoTo(t, "translating")

Finish(t) ==
  /\ pc[t] = "translating" /\ todo[t] = 0
  /\ GoTo(t, "idle")
  /\ UNCHANGED <<reviews, installed, count, thread>>

Next ==
  \E t \in Threads :
    \/ Begin(t) \/ NoFindings(t) \/ ResetBudget(t) \/ NothingToExplain(t)
    \/ NextLanguage(t) \/ Ask(t) \/ CanInvoke(t) \/ FallBack(t)
    \/ LoadCount(t) \/ StoreCount(t) \/ Finish(t)
    \/ RateLimited(t) \/ EndCall(t)

Spec == Init /\ [][Next]_vars

-----------------------------------------------------------------------------
(* A review during which no other one ran makes no more LLM calls than      *)
(* LLM_MAX_CALLS, whatever the reviews before it did at once.               *)
BudgetPerReview == \A t \in Threads : alone[t] => made[t] <= MaxCalls

(* Rate limits cost no review more than Retries requests for a call it has *)
(* paid for: one during which no other one ran sends at most               *)
(* (Retries + 1) * MaxCalls requests, and no request is free.              *)
RequestsBounded ==
  \A t \in Threads :
    /\ requests[t] <= (Retries + 1) * made[t]
    /\ alone[t] => requests[t] <= (Retries + 1) * MaxCalls

(* A synchronous review during which no other one ran finds no budget only  *)
(* once it has spent the budget itself.                                     *)
FallsBackWhenSpent ==
  \A t \in Threads : ownService /\ alone[t] /\ fellBack[t] => made[t] = MaxCalls
=============================================================================
