------------------------------- MODULE ReviewJob -------------------------------
(***************************************************************************)
(* What surrounds the computing steps of a review, side by side: the pull  *)
(* request it is aimed at (ReviewTarget), the calls of the LLM it may      *)
(* spend (ReviewBudget) and the corpus it compares with (CorpusCache).     *)
(* They share no state; a behaviour runs one of them, and the variables of *)
(* the others are Unused.                                                  *)
(***************************************************************************)
EXTENDS Integers

CONSTANTS
  Owner, Repo, Number, User,                                        \* see ReviewTarget
  Threads, Languages, MaxCalls, Retries, MaxReviews,                \* see ReviewBudget
  Refs, Blobs, Capacity, Life, Slack, CallTime, MaxFaults, Horizon  \* see CorpusCache

VARIABLES
  part,      \* the component that runs
  aiming,    \* the pc of ReviewTarget
  payload, enabled, mode, job, fetched, posted,
  running,   \* the pc of ReviewBudget
  ownService, reviews, installed, count, service, loaded, todo,
  retried, made, requests, fellBack, alone,
  fetching,  \* the pc of CorpusCache
  now, expiry, cache, ref, token, blob, corpus, failed, faults

Aim    == INSTANCE ReviewTarget WITH pc <- aiming
Budget == INSTANCE ReviewBudget WITH pc <- running
Corpus == INSTANCE CorpusCache  WITH pc <- fetching

ASSUME JobAssumption ==
  /\ Aim!TargetAssumption
  /\ Budget!BudgetAssumption
  /\ Corpus!CacheAssumption

aimVars    == <<payload, enabled, aiming, mode, job, fetched, posted>>
budgetVars == <<ownService, running, reviews, installed, count, service, alone,
                loaded, todo, made, fellBack, retried, requests>>
corpusVars == <<now, expiry, cache, fetching, ref, token, blob, corpus, failed, faults>>

vars == <<part, aimVars, budgetVars, corpusVars>>

Unused == <<>>

NoAim ==
  /\ payload = Unused /\ enabled = Unused /\ aiming = Unused /\ mode = Unused
  /\ job = Unused /\ fetched = Unused /\ posted = Unused

NoBudget ==
  /\ ownService = Unused /\ running = Unused /\ reviews = Unused /\ installed = Unused
  /\ count = Unused /\ service = Unused /\ alone = Unused /\ loaded = Unused
  /\ todo = Unused /\ made = Unused /\ fellBack = Unused
  /\ retried = Unused /\ requests = Unused

NoCorpus ==
  /\ now = Unused /\ expiry = Unused /\ cache = Unused /\ fetching = Unused
  /\ ref = Unused /\ token = Unused /\ blob = Unused
  /\ corpus = Unused /\ failed = Unused /\ faults = Unused

Init ==
  \/ part = "aim"    /\ Aim!Init /\ NoBudget /\ NoCorpus
  \/ part = "budget" /\ Budget!Init /\ NoAim /\ NoCorpus
  \/ part = "corpus" /\ Corpus!Init /\ NoAim /\ NoBudget

Runs(component) == part = component /\ UNCHANGED part

Next ==
  \/ Runs("aim")    /\ Aim!Next    /\ UNCHANGED <<budgetVars, corpusVars>>
  \/ Runs("budget") /\ Budget!Next /\ UNCHANGED <<aimVars, corpusVars>>
  \/ Runs("corpus") /\ Corpus!Next /\ UNCHANGED <<aimVars, budgetVars>>

Spec == Init /\ [][Next]_vars

-----------------------------------------------------------------------------
(* The properties of the components, see there *)

(* A review is of the pull request its payload names. *)
QueuedAimsRight == part = "aim" => Aim!QueuedAimsRight
IdentifiedIsReviewed == part = "aim" => Aim!IdentifiedIsReviewed
SyncAimsRight == part = "aim" => Aim!SyncAimsRight

(* What a review spends, and when it goes without *)
BudgetPerReview == part = "budget" => Budget!BudgetPerReview
RequestsBounded == part = "budget" => Budget!RequestsBounded
FallsBackWhenSpent == part = "budget" => Budget!FallsBackWhenSpent

(* Why a cached corpus lacks what it lacks *)
MissingFailedOrLate == part = "corpus" => Corpus!MissingFailedOrLate
===============================================================================
