----------------------------- MODULE ReviewTarget -----------------------------
(***************************************************************************)
(* At which pull request a review is aimed.  A payload may name it twice,  *)
(* in the fields of WebhookPayload and in the raw event of GitHub; the     *)
(* route (webhook_controller.py) chooses, the job carries the choice, and  *)
(* the worker (background_worker.py) reads it again before it calls        *)
(* GitHub.                                                                 *)
(*                                                                         *)
(* A string is the sequence of its parts between slashes: "O/R" is         *)
(* <<Owner, Repo>>, and None stands for an absent field.                   *)
(***************************************************************************)
EXTENDS Naturals, Sequences

CONSTANTS
  Owner, Repo, Number,  \* the pull request every payload is about
  User                  \* who opened it, and who sent the event

TargetAssumption == User # Owner /\ Number \in Nat \ {0}

None     == <<>>
NoNumber == 0
Empty    == <<"">>

Optional(value) == {None, value}

(* What GitHub puts into an event about the pull request, or leaves out *)
Events ==
  [owner    : Optional(<<Owner>>),          \* repository.owner.login
   fullName : Optional(<<Owner, Repo>>),    \* repository.full_name
   name     : Optional(<<Repo>>),           \* repository.name
   prNumber : {NoNumber, Number},           \* pull_request.number
   number   : {NoNumber, Number},           \* the number of the event itself
   login    : Optional(<<User>>),           \* pull_request.user.login
   sender   : Optional(<<User>>)]           \* sender.login

Payloads ==
  [repo     : {None, <<Repo>>, <<Owner, Repo>>},
   prNumber : {NoNumber, Number},
   author   : {None, Empty, <<User>>},
   files    : {"absent", "none", "some"},
   code     : {"absent", "empty", "blank", "text"},
   event    : Events]

NoTarget == [owner |-> None, repo |-> None, number |-> NoNumber]

VARIABLES
  payload,   \* the body of the request
  enabled,   \* ENABLE_GITHUB
  pc,        \* "route", then "queued" and "assessed" in the worker, "done"
  mode,      \* "queued" or "sync" once the route has chosen
  job,       \* the identity the queued job carries
  fetched,   \* the pull request the worker read, or NoTarget
  posted     \* the pull request the review was posted to, or NoTarget

vars == <<payload, enabled, pc, mode, job, fetched, posted>>

Init ==
  /\ payload \in Payloads
  /\ enabled \in BOOLEAN
  /\ pc = "route" /\ mode = "none"
  /\ job = NoTarget /\ fetched = NoTarget /\ posted = NoTarget

-----------------------------------------------------------------------------
(* Reading a payload *)

HasSlash(s) == Len(s) = 2
Before(s)   == <<s[1]>>
After(s)    == <<s[2]>>

(* mutant: full_name is used as the name of the repository *)
ExtractRepoFull(p) ==
  IF p.repo # None THEN p.repo
  ELSE IF HasSlash(p.event.fullName) THEN p.event.fullName
  ELSE p.event.name

ExtractRepo(p) ==
  IF p.repo # None THEN p.repo
  ELSE IF HasSlash(p.event.fullName) THEN After(p.event.fullName)
  ELSE p.event.name

ExtractOwner(p) ==
  IF p.event.owner # None THEN p.event.owner
  ELSE IF HasSlash(p.event.fullName) THEN Before(p.event.fullName)
  ELSE IF HasSlash(p.repo) THEN Before(p.repo)
  ELSE None

(* mutant: the number of the event itself is not looked at *)
ExtractNumberNested(p) ==
  IF p.prNumber # NoNumber THEN p.prNumber ELSE p.event.prNumber

ExtractNumber(p) ==
  IF p.prNumber # NoNumber THEN p.prNumber
  ELSE IF p.event.prNumber # NoNumber THEN p.event.prNumber
  ELSE p.event.number

ExtractAuthor(p) ==
  IF p.author \notin {None, Empty} THEN p.author
  ELSE IF p.event.login # None THEN p.event.login
  ELSE p.event.sender

HasExplicitCode(p) == p.code = "text"

HasSimpleFields(p) ==
  p.repo # None \/ p.prNumber # NoNumber \/ p.author # None \/ p.files = "some"

(* Whether model_dump(exclude_none=True) leaves anything *)
HasAnyField(p) ==
  HasSimpleFields(p) \/ p.files # "absent" \/ p.code # "absent"

-----------------------------------------------------------------------------
(* The route *)

Enqueue(identity) ==
  /\ pc = "route"
  /\ pc' = "queued" /\ mode' = "queued"
  /\ job' = identity
  /\ UNCHANGED <<payload, enabled, fetched, posted>>

QueueFields ==
  /\ HasSimpleFields(payload) /\ ~HasExplicitCode(payload)
  /\ Enqueue([owner  |-> IF HasSlash(payload.repo) THEN Before(payload.repo) ELSE None,
              repo   |-> payload.repo,
              number |-> payload.prNumber])

(* mutant: as in a synchronous review, the author stands in for the owner *)
QueueEventAuthor ==
  /\ ~HasSimpleFields(payload) /\ payload.code \in {"absent", "empty"}
  /\ Enqueue(IF HasAnyField(payload) THEN NoTarget
             ELSE [owner  |-> IF ExtractOwner(payload) = None
                              THEN ExtractAuthor(payload) ELSE ExtractOwner(payload),
                   repo   |-> ExtractRepo(payload),
                   number |-> ExtractNumber(payload)])

(* A field that is there but empty keeps the identity of the event out.    *)
QueueEvent ==
  /\ ~HasSimpleFields(payload) /\ payload.code \in {"absent", "empty"}
  /\ Enqueue(IF HasAnyField(payload) THEN NoTarget
             ELSE [owner  |-> ExtractOwner(payload),
                   repo   |-> ExtractRepo(payload),
                   number |-> ExtractNumber(payload)])

Complete(target) ==
  target.owner # None /\ target.repo # None /\ target.number # NoNumber

(* Blank code is no explicit code, and yet a true value when read raw. *)
SyncReview ==
  LET target == [owner  |-> IF ExtractOwner(payload) = None
                            THEN ExtractAuthor(payload) ELSE ExtractOwner(payload),
                 repo   |-> ExtractRepo(payload),
                 number |-> ExtractNumber(payload)]
  IN /\ pc = "route"
     /\ HasExplicitCode(payload) \/ (payload.code = "blank" /\ ~HasSimpleFields(payload))
     /\ pc' = "done" /\ mode' = "sync"
     /\ posted' = IF enabled /\ Complete(target) THEN target ELSE posted
     /\ UNCHANGED <<payload, enabled, job, fetched>>

-----------------------------------------------------------------------------
(* The worker *)

(* mutant: repo is used as it arrived *)
IdentityRaw(j) == j

Identity(j) ==
  [j EXCEPT !.repo = IF HasSlash(j.repo) THEN After(j.repo) ELSE j.repo]

(* A queued job never carries code that is true, so the pull request is    *)
(* read whenever there is a client and a complete identity.                *)
FetchPRData ==
  /\ pc = "queued"
  /\ pc' = "assessed"
  /\ fetched' = IF enabled /\ Complete(Identity(job)) THEN Identity(job) ELSE fetched
  /\ UNCHANGED <<payload, enabled, mode, job, posted>>

PostReview ==
  /\ pc = "assessed"
  /\ pc' = "done"
  /\ posted' = IF enabled /\ Complete(Identity(job)) THEN Identity(job) ELSE posted
  /\ UNCHANGED <<payload, enabled, mode, job, fetched>>

Next == QueueFields \/ QueueEvent \/ SyncReview \/ FetchPRData \/ PostReview

Spec == Init /\ [][Next]_vars

-----------------------------------------------------------------------------
Target == [owner |-> <<Owner>>, repo |-> <<Repo>>, number |-> Number]

EventIdentifies(e) ==
  /\ e.owner # None \/ e.fullName # None
  /\ e.name # None \/ e.fullName # None
  /\ e.prNumber # NoNumber \/ e.number # NoNumber

(* A job reads and answers the pull request of its payload or none at all, *)
(* in whatever form the payload named it: a partial identity is never      *)
(* completed with something else.                                          *)
QueuedAimsRight ==
  mode = "queued" => {fetched, posted} \subseteq {Target, NoTarget}

(* Every event of GitHub that identifies its pull request, and every flat  *)
(* payload with "owner/name" and a number, is reviewed from the code of    *)
(* that pull request and answered there: the route drops nothing the       *)
(* worker's guards ask for.                                                *)
IdentifiedIsReviewed ==
  (/\ pc = "done" /\ mode = "queued" /\ enabled
   /\ \/ ~HasAnyField(payload) /\ EventIdentifies(payload.event)
      \/ HasSlash(payload.repo) /\ payload.prNumber # NoNumber)
  => fetched = Target /\ posted = Target

(* A synchronous review is posted to the pull request of its payload       *)
(* unless `repo` was given as "owner/name" or the event names no owner:    *)
(* the one is not split there, for the other the author is taken.          *)
SyncAimsRight ==
  (mode = "sync" /\ ~HasSlash(payload.repo) /\ ExtractOwner(payload) # None)
  => posted \in {Target, NoTarget}
=============================================================================
