# The Sentinel in TLA+

The Sentinel is a GitHub App backend: GitHub sends it a webhook for a pull request, it reviews
the code the pull request adds (security rules, technical debt, duplicates of existing code, with
an optional LLM that words the result), and it posts a comment and a check run back. This
directory holds TLA+ modules of the parts of that program where steps of several actors, failures
and restarts meet, the TLC configurations that check them on small instances, and theorems that
TLAPS has checked for every size: they state every safety property the passing runs check.

Paths below are relative to the repository; line numbers are those of the commit modelled.
`github_client.py` etc. stand for the files under `sentinel/`.

## 1. Inventory of the system

| Part | Code | State it keeps | Operations | What is hard about it | What makes it correct |
|---|---|---|---|---|---|
| Durable job queue | `infrastructure/redis/redis_job_queue.py` | two Redis lists shared by all replicas; `_inflight`, the raw envelope of each job handed out, per process | `enqueue`, `dequeue`, `ack`, `recover_pending` | crashes, lost replies, replicas that recover each other's work, poison messages | an accepted job is stored until it was reviewed; only reviewed jobs are acked; poison does not loop |
| Worker loop | `workers/background_worker.py` `start`, `_process_one` | the job in hand | recover, then dequeue, review in a thread, ack | cancellation while the thread runs, exceptions between review and ack | as above |
| In-memory job queue | `workers/job_queue.py` | an `asyncio.Queue` | `enqueue`, `dequeue`, `ack` | a job is given up when it is handed out: a raising review, a cancelled task and the end of the process lose it | in order, at most once, and each begun while the process lives |
| Webhook intake | `api/webhook_controller.py`, `api/webhook_security.py` | none of its own; it drives a deduper and a queue | verify the signature, drop duplicates, enqueue or review synchronously | redeliveries, double sends, failures between the record of a delivery and its enqueue | what is answered "queued" is reviewed; one job per delivery; a refused request leaves no trace |
| In-memory deduper | `api/delivery_dedup.py` | ids in insertion order with their time | `is_duplicate` | expiry and capacity at their boundaries | "duplicate" only within the window; a recent id is forgotten only to the capacity |
| Redis deduper | `infrastructure/redis/redis_delivery_dedup.py` | one key per id | `is_duplicate` (SET NX EX) | failures after the command took effect, rounding of the TTL | the same contract, shared by replicas |
| Posting | `background_worker.py` `_fetch_pr_data`, `_post_review`; `github_client.py` `upsert_comment`, `create_check_run` | nothing between reviews: the comment on GitHub is the memory | fetch files, fetch refs, find the marked comment, create or update it, create the check run | pushes between two calls, lost answers, other users, two reviews at once | one Sentinel comment; nothing goes back to an older version; the verdict belongs to its commit |
| Patches and annotations | `github_client.py` `_added_lines_with_positions`, `get_pull_request_data`; `audit_orchestrator.py` `build_check_payload` | the code and, beside it, `line_map` | parse a patch, join the segments, place an annotation | counters that must restart at hunks and files; two lists tied only by position | every added line is assessed; every annotation points at its line at the head commit |
| Corpus and token | `github_client.py` `get_repo_code_corpus`, `_get_installation_token` | `_corpus_cache` (bounded, by base commit), the token and its expiry | fetch a corpus blob by blob, evict | a token that ends in the middle, a blob that fails | a cached corpus lacks only what failed by itself or came after the slack of its token |
| LLM budget | `infrastructure/llm/llm_service.py`, `audit_orchestrator.py` | `call_count` of a service, `orchestrator.llm_service` | reset, explain, translate | fields shared by threads without a lock; a count left over from the last review | no review makes more than `LLM_MAX_CALLS` calls, and a fresh one has them |
| Risk engine | `application/risk_engine.py`, `domain/services/debt_service.py` | none | assess, resilient or strict; the conclusion of the check run | one of several engines fails | the verdict is the highest level any engine told |
| Target of a review | `webhook_controller.py` `_webhook_impl`, `background_worker.py` `_identity` | the fields of a job | read a payload (its fields, the event it wraps), make a job, read the job back | owner and name together or apart, missing fields, flat payloads and events | a review goes to the pull request its payload names, and is not skipped if it names one |
| Corpus units | `domain/services/semantic_service.py` `chunk_code_units` | none | cut a file into definitions | decorators reach back, small units go | one definition in a unit, none lost |
| LLM answers | `llm_service.py` `_parse_pr_audit_response` | none | read labelled segments, give them out by position | answers that break off or leave labels out | each finding gets its own text or the fallback |
| Documents, report | `domain/services/document_service.py`, `audit_orchestrator.py` `collect_document_findings`, `build_check_payload` | none | judge documents and code, collect, annotate | either review may raise; a limit cuts the annotations | documentation never displaces security; a document is judged by its own text |
| Security rules, semantic similarity | `domain/services/*` | the corpus index of one review | pure functions over text | thresholds | what they find is an input of the risk engine here |
| LLM provider | `infrastructure/llm/nim_provider.py` | none | one call, up to three HTTP requests | rate limits | retries end and are not paid for again |
| Metrics | `monitoring/metrics.py`, `api/metrics_controller.py` | counters, gauges and summaries under one lock | increment, set, observe, render | threads of reviews, the event loop and scrapes at once | no increment is lost, a page fits together |
| Logging, settings, health | `monitoring/logger.py`, `config/settings.py`, `api/health_controller.py` | none | | | not modelled |

How they interact: GitHub calls the webhook route; the route calls the deduper, then the queue
(or, for a payload that carries code, `asyncio.to_thread(run_full_review)`); the worker of each
replica takes jobs from the queue and runs the pipeline in a thread; the pipeline calls GitHub
(`get_pull_request_data`, `get_repo_code_corpus`), the risk engine, the LLM service, and GitHub
again to post. Replicas share nothing but Redis and GitHub.

`PROJECT.json` lists under `hazards` each place where this can go wrong in a way a test hardly
reaches, with its line and the properties that watch it.

## 2. The modules

```
WebhookIntake  --uses-->  DedupContract  <--implements--  BuiltDeduper = DeliveryDeduper | RedisDeliveryDeduper
       |
       +--------uses-->  AtLeastOnce    <--implements--  RedisJobQueue --uses--> RedisLists
MemoryProcess  --uses-->  MetricsRegistry;  AtMostOnce  <--implements--  MemoryProcess
ReviewPosting
ReviewJob   = ReviewTarget | ReviewBudget | CorpusCache               (a job and its review)
ReviewSteps = PatchLines | CodeUnits | RiskVerdict | AuditAnswer | ReviewReport
```

`AtLeastOnce`, `AtMostOnce` and `DedupContract` are the abstract specifications. `WebhookIntake` is
composed of the first and the last, so that what is checked of it holds with either deduper and
with any queue that implements `AtLeastOnce`; the concrete modules are shown to implement them
(`ImplementsAtLeastOnce`, `ImplementsAtMostOnce`, `ImplementsContract`).

Definitions marked `mutant` are wrong variants of the definition that follows them, each a bug one
could plausibly write there. They are no part of any specification. A property is only kept if
putting such a variant in place of the original makes TLC find a violation; the pairs are the
`mutants` of `PROJECT.json`.

### RedisLists, RedisJobQueue, AtLeastOnce

`queue` and `processing` are the lists `sentinel:jobs` and `sentinel:jobs:processing`, with
index 1 the left end. One action is one Redis command and the Python code up to the next `await`:

- `Enqueue`, `EnqueueReplyLost`, `EnqueueResent`: `LPUSH`; its reply may be lost, after which the
  client library may send it again, so that one envelope is in the list twice. `ForeignPush` puts
  a message there that `_parse_job` rejects.
- `Start`, `RecoverOne`, `RecoverDone`, `RecoverFails`: `start` and the loop of `recover_pending`,
  one `LMOVE processing queue RIGHT LEFT` at a time; any error ends the loop.
- `PollEmpty`, `DequeueJob`, `DequeuePoison`, `DequeueFails`, `DequeueReplyLost`, `Discard`,
  `DiscardFails`: `dequeue`. A lost reply leaves the message in `processing` and in nobody's hand.
- `ReviewDone`, `ReviewRaises`, `Ack`, `AckFails`: the body of the loop. An exception skips the
  ack; `ack` pops `_inflight` before the `LREM` and so also when the `LREM` fails.
- `Crash`, `Cancel`, `ThreadEnds`: a process that is killed, and a lifespan that cancels the task
  while the review goes on in its thread.

A job is its envelope, which holds a uuid, hence a model value. `_inflight` is the number of entries
per job: its key is the identity of the job's dictionary, and no code looks at another job's entry.
`arrivals`, `accepted`, `handed`, `reviewed` and `raised` are history variables.

`AtLeastOnce` says: a job is stored, reviewed while stored or after it was, and released only once
it has been reviewed (poison may be released at any time). `RedisJobQueue` implements it with
`stored <- Range(queue) \union Range(processing)`: the moves between the lists, the copies of an
envelope and all failures are stuttering steps of it.

### DedupContract, DeliveryDeduper, RedisDeliveryDeduper, BuiltDeduper

The contract: an id is answered "duplicate" only if it was let through less than `TTL` ago;
letting it through twice is allowed. `DeliveryDeduper` keeps `_seen` as a sequence in insertion
order, and one call is one step (there is no `await` in it): purge from the front, look up, insert,
evict from the front. `RedisDeliveryDeduper` keeps the expiry of every key; a check is one
`SET NX EX`, and it may fail before or after it took effect, or be sent again by the client
library. The clock counts ticks and a second is several ticks, so that a TTL which is no whole
number of seconds is among the cases (`int(ttl_seconds)` rounds down).

`BuiltDeduper` is `_build_deduper`: one of the two, chosen at the start, in the life of a process. A
`Restart` empties the memory of the first and leaves the keys of the second. The variables of the
one that was not chosen do not move.

Requests without a usable delivery id are never deduped by either class and are left out.

### WebhookIntake

Each of several `Handlers` serves one request. `Deliver`, `DoubleSend` and `Redeliver` are GitHub;
`Reject` is `verify_webhook_signature`, a dependency of the route that runs before it; `Check*`
is `_deduper.is_duplicate`, `Route` the branch on `code` in the payload, `EnqueueOk`/`EnqueueFails`
the await on the queue and the HTTP 500 an exception becomes, `SyncDone` the synchronous review,
whose exception is answered with HTTP 200 and status `error`. `Die` is the end of the process at
any `await`. Handlers of different requests interleave at each `await`.

### ReviewTarget

A payload with or without fields of its own (repo, owner, number, author), the event it came as,
and what the model of the route keeps of them; `Queued` and `Synchronous` are the two ways on. A
job is read back by the worker (`owner/name` or bare name, owner in a key of its own or not,
missing number). The properties compare the pull request the payload names with the one the review
is posted to.

### MetricsRegistry, MemoryProcess, AtMostOnce

A process without Redis. `MetricsRegistry` has every statement of a public method as a step of the
thread that runs it, between `Acquire` and `Release` of the one lock. `MemoryProcess` is who calls
it: the event loop, which runs one callback at a time (`LoopFree`), the worker task and its thread,
a synchronous review in a thread of its own, and scrapes that set a gauge and then render. A review
asks the LLM any number of times (the audit of its findings, texts, translations), which the bound
`MaxAsked` cuts; the worker's posts a comment and then a check run (`PostComment`, `PostCheckRun`) or
ends its report before (`EndReport`: no client, no target, no check, an exception). A synchronous
review that raises is answered and not counted (`FailSync`). The worker's reviews raise
(`ReviewRaises`), the lifespan cancels the worker (`Cancel`) and the process ends (`Exit`).
The queue is an `asyncio.Queue`; a job taken from it is in no list any more. `AtMostOnce` is the
promise: jobs begin in the order they were accepted, each at most once, and what waits when the
process ends is lost together.

### ReviewPosting

One pull request, whose versions are numbered by its pushes. A reviewer is a thread that reviews
it; its steps are the HTTP calls in the order the code makes them: files, refs, list of comments,
write of the comment, check run. A page that fails ends a list early, and what was read is used as
if it were all (`_get_paginated`). A call may succeed and lose its answer. Other people push,
comment and delete meanwhile. `ListCap` is the number of comments the lookup can see
(`MAX_LIST_PAGES` pages). The history variables `met` (two reviews have been in progress at once)
and `blind` (a lookup did not see every comment) let the properties say exactly when they hold.

### PatchLines, Diffs, MCPatchLines

The lines of the patches of a pull request are read one action at a time, exactly by the branches
of `_added_lines_with_positions`; at the end of a patch its segment joins `code` and its numbers
join `line_map`. A line carries what the parser sees and, separately, what GitHub meant by it
(its kind, and its number at the head), so that the properties compare the two. `Diffs`
builds every diff up to a size and numbers it from GitHub's format, independently of the parser.

### CorpusCache

The clock, the token and its expiry, and `get_repo_code_corpus` with one action per HTTP call;
every call takes up to `CallTime`. One token serves all calls of a corpus. A call fails by itself
(`TreeFails`, `BlobFails`, at most `MaxFaults` times), or because the token ended before its answer
(`BlobRefused`, and `TreeFails` again): GitHub refuses a token that has ended, and since it may check
the token at any time before its answer, a call the token ends under may go either way.
`failed` is a history variable, the blobs whose own call failed; a cached corpus carries it along.
The only thing assumed of the lengths is that a new token outlives the slack and one call.
`CallTime` stands for the timeout of 10 s; the timeout of `urllib` is one of each wait, so that an
answer which trickles in takes longer, and nothing depends on the number.

### ReviewBudget

Threads that read and write `orchestrator.llm_service` and `call_count` without a lock: reading,
deciding, loading and storing the count are steps of their own. `ownService` tells the two ways the
code is run apart: a synchronous request installs a service of its own in the orchestrator all
requests share; the worker has one service and one thread. A call is one HTTP request (`Request`)
and, as long as the provider answers 429, up to two more (`RateLimited`).

### RiskVerdict

The three engines in their order, `assess_resilient` (the worker: an engine that raises leaves its
default) and `assess` (a synchronous request: an exception ends the assessment), the aggregation
of `_overall_severity` and the conclusion of `build_check_payload`. Which of the security rules
(`RuleSeverity`, the table of `security_service.py`) match the text, how complex it is and whether
it is a duplicate are chosen at the start.

### CodeUnits

`chunk_code_units` line by line: `ScanDefinition` and `ScanOther` are the first loop, `CutUnit` the
second. A line is a definition, a decorator, blank, or other text, with a number of tokens. A
decorator is a single line: `lines[index - 1].startswith("@")` sees no other. `async def` begins no
unit in the code and is "text" here.

### AuditAnswer

An answer is the sequence of its labels with the finding each text is about. `ReadIssue`,
`ReadExplanation` and `ReadFix` are the branches of the loop, `MapRecords` gives the records out by
position. The properties know whom a text is about; the parser does not.

### ReviewReport

`run_full_review` from the findings of the risk engine to the check run: `EnrichFindings`, the two
document reviews (`CollectFiles`, `CollectCode`, and how each may raise), and
`build_check_payload` with its limit. A document is what the rules can tell of its text, the code
what their counters count.

### ReviewJob, ReviewSteps, MCReviewSteps

`ReviewJob` has the target, the budget and the corpus side by side, `ReviewSteps` the five modules of
computing steps: they share nothing, one runs in each behaviour (`part`), and one run checks them
all. `MCReviewSteps` gives the reports their inputs.

## 3. The runs

Bounds are constants named `Max...` and `Horizon`; each is a guard of the action it bounds.

| Run | Instance | Checks | Why this instance is enough |
|---|---|---|---|
| `queue_pair` | 2 replicas, 2 jobs, 1 poison message; one Redis failure of any kind, one exception per life of a process, one stop | `TypeOK`, `InHandSound`, `NoJobLost`, `InflightExact`, `FirstHandOutInOrder`, `ImplementsAtLeastOnce` | two replicas are what recovery can confuse, two jobs what order needs. The theorems of section 5 cover every size for all six. Symmetric in replicas and jobs; none of these is a liveness property. |
| `queue_single` | 1 replica, 2 jobs, 1 poison message; two failures the loop survives, two stops; fairness | `InHandIsRecoverable`, `EventuallyReviewed`, `PoisonDropped` | two stops allow a crash during the recovery from a crash. No symmetry, since liveness is checked. |
| `dedup` | 3 ids and a window of 3 instants; in memory: capacity 2, any restarts; in Redis: seconds of 2 instants, 2 failures; 6 instants | `RemembersRecent`, `OncePerWindow`, `ImplementsContract` | one id more than places and two windows: every entry can be evicted, expire and return; a TTL of one and a half seconds, which is rounded |
| `memory_process` | 2 jobs and a synchronous review, 4 LLM calls and posts among them, observations of one or two seconds, scrapes at any time, one review that raises, one cancellation and one end of the process | `NoIncrementLost`, `ScrapeAddsUp`, `ImplementsAtMostOnce` | two threads and the event loop in the registry at once, statement by statement; a review with two LLM calls and both posts, or several reviews with some |
| `memory_progress` | the same with one LLM call or post and one duration; fairness | `EventuallyBegun` | whether a job is begun depends neither on the numbers observed nor on how often a review stops for a counter; the other review, the scrapes, the exception and the end of the process are all there |
| `intake` | 2 deliveries, one queued and one synchronous, 2 handlers, 2 troubles (failures, double sends, forgotten ids) in any mix; fairness | `QueuedHasJob`, `OneJobPerWindow`, `RejectedLeavesNoTrace`, `QueuedIsReviewed`, `FailedIsQueuedLater` | two requests with one id can interleave at every await, and a retry can fail again |
| `intake_early` | 1 delivery, redelivered within the window | `FailedIsQueuedLater` is violated | see section 4 |
| `posting` | 2 reviewers, 3 reviews, 2 pushes, 2 other comments, 1 deletion, a failure of any call; 2 comments seen by a lookup | `OneSentinelComment`, `CheckNeverOlder`, `CommentNeverOlder` | a third review meets what two left behind; Sentinel's comment can be first, second or beyond the lookup |
| `review_steps` | every diff with hunks of up to 3 lines, two hunks in a file, three files with an empty one between, with hunks of up to 2 lines; every file of up to 6 lines, units of 2 tokens, room for 2; complexities 1, 7, 8, 15, 16 with up to three of the eleven rules, duplicates, any engine failing; every answer about 3 findings with labels missing and one text blank; two documents of any text, up to two security findings, limit 2, and code on both sides of every threshold | `LineMapExact`, `EveryAddedLineAssessed`, `AnnotationsAtHead`; `OneDefinitionEach`, `NoUnitLost`; `VerdictFits`; `OwnAnswer`; `SecurityFirst`, `JudgedByOwnText` | the parser's memory is one counter, which a hunk header or the end of a file resets; three definitions with decorators fit a file; severities are only asked for their presence; four annotations compete for two places |
| `patch_marks` | the same diffs, of up to two lines, with added lines that begin with `++` | `EveryAddedLineAssessed` is violated | see section 4 |
| `review_job` | every payload, with each field present, empty or missing, in each form of a repository; 2 threads, 3 reviews, a budget of 2, 2 translations, 2 retries, both ways of running; 3 commits for 2 places, 4 blobs, tokens of life 6 and slack 3, calls of up to 1, 1 failure, 9 instants | `QueuedAimsRight`, `IdentifiedIsReviewed`, `SyncAimsRight`; `BudgetPerReview`, `RequestsBounded`, `FallsBackWhenSpent`; `MissingFailedOrLate` | the fields do not count, only which are there; the budget ends before, at and after the last translation, and a review alone can follow two that overlapped; slack and calls as 30 s to 10 s: a token taken at its last moment ends under the third or fourth blob, which is refused and the corpus cached without it; a failure at every call; eviction, the end of a token between fetches and its renewal |

What the properties say, beyond their comments in the modules:

- `NoJobLost` and `ImplementsAtLeastOnce` are the promise of the durable queue. They hold through
  lost replies, resent commands, cancellation and recovery by another replica.
- `InHandIsRecoverable` holds with one replica. With two it does not, see section 4.
- `FirstHandOutInOrder` is what is left of first-in first-out once there is recovery: a job that
  was handed out before may come back behind newer ones, no job overtakes another on its first way.
- `OneJobPerWindow` counts: jobs of a delivery are bounded by one, plus its windows that ended,
  plus the times the deduper forgot it.
- `BudgetPerReview` and `FallsBackWhenSpent` are about a review during which no other one ran, and
  hold whatever count, service or half-done increment earlier reviews that did overlap left behind.
- `MissingFailedOrLate` does not say that a cached corpus is complete, which the code does not
  ensure. It says that there are two reasons for a gap: the call of that very blob failed, or the
  token had ended, for which the tree, the blobs before and its own call must take longer than the
  slack; then nothing behind it is there either. A blob early enough for the slack is lost only to
  its own failure. With a token used to its end (`UsableToTheEnd`) the first blob could be refused.
- `CheckNeverOlder` is unconditional. It holds because the files are fetched before the head
  commit; the weaker half, that the commit is not newer either, is not guaranteed (section 4).

Deadlock is checked except where the system may stop: the end of a bounded clock, of an assessment,
of the last review, or a pull request nobody touches. Each such `.cfg` says so.

### Fairness

`RedisJobQueue`: `WF(Step(r))` for each replica, the steps its event loop and its thread take on
their own (recover, poll, review, ack, start again). The event loop runs what is ready, every call
of the pipeline has a timeout, and a process that exited is started again by whatever runs
uvicorn. Nothing is assumed of callers, and failures and stops need not happen; they are finitely
many by their bounds. `EventuallyReviewed` is checked without the failures after which the code
does not promise progress by itself: a pipeline that raises, an `LMOVE` whose reply is lost and an
aborted recovery all leave the job in `processing` until the next start.

`WebhookIntake`: `WF` of each handler, of the review of stored jobs (which `EventuallyReviewed`
provides), of time, and of GitHub's redelivery of failed deliveries, which is outside the
repository and which the docstring of `enqueue` relies on.

`MemoryProcess`: `SF` of the steps of the worker, of the threads and of the loop's own callbacks. The
event loop serves the callbacks that are ready in turn, so that one that is ready again and again
is served; and a thread that asks for the lock of the registry again and again gets it, since each
holder lets it go after a few statements. Reviews that raise, the cancellation and the end of the
process need not happen.

No run outside these three checks liveness, and no fairness is assumed there.

## 4. Where the code and its documents part

Two runs show a disagreement, each as a counterexample TLC finds:

1. `intake_early` (`webhook_controller.py:496`). The route records a delivery as seen before it is
   enqueued and does not take that back. If the enqueue fails, GitHub is answered 500, and a
   redelivery within the deduper's window is answered 200 "duplicate" and never processed.
   `redis_job_queue.py:64-65` relies on that redelivery. After the window it works (`intake`).
2. `patch_marks` (`github_client.py:347`). An added line whose own text begins with `++` shows as
   `+++...` in the patch and is skipped as a file header. It is not assessed, and since it is not
   counted either, annotations behind it point one line too high. GitHub's `patch` fields hold no
   file headers, so that nothing is gained by the test.

Others were met while modelling. They are consequences of the same models, stated here and not
given runs of their own:

- `redis_job_queue.py:141`: a replica that starts puts back everything in `processing`, also what a
  live replica is working on. The job is reviewed twice, and the first ack removes what would
  recover the second (`InHandIsRecoverable` with two replicas). Line 6 says the lists are shared
  across replicas, line 137 that recovery is for jobs of a crashed worker. No accepted job is lost
  (`NoJobLost`).
- `redis_job_queue.py:144-147`: one Redis error ends the recovery, and nothing resumes it before
  the next start (`EventuallyReviewed` with the failure `recover`); README.md:63-64 says an
  interrupted job is recovered on restart.
- `redis_job_queue.py:142`: a recovered job goes to the end of the queue new jobs enter by, behind
  all that wait; line 1 says "FIFO".
- `background_worker.py:387`: a pipeline exception leaves its entry in `_inflight` for the life of
  the process; `InflightExact` states the exact size. `redis_job_queue.py:55-56` says the entries are
  bounded to the jobs in flight.
- `redis_delivery_dedup.py:48`: if the client library sends a `SET NX` again whose reply was lost,
  the second finds the key of the first and a delivery nobody processed is dropped; the docstring
  says deliveries are processed twice rather than dropped. `ImplementsContract` is therefore
  claimed for a client that sends commands once (`resends` is FALSE).
- `github_client.py:315`: two reviews at once both find no comment and both post one
  (`OneSentinelComment` excludes it by `met`); README.md:53-55 says re-runs never stack duplicates.
- `background_worker.py:194, 224`: a push between the two fetches gives the new commit the verdict
  of the old code; and files that cannot be fetched are reviewed as no code, LOW, with a successful
  check run.
- `github_client.py:342`: `str.splitlines` also breaks lines at form feeds, lone carriage returns
  and the like, which moves every annotation behind one by a line.
- `webhook_controller.py:426`: synchronous requests replace each other's LLM service, so that a
  review can spend two budgets; `audit_orchestrator.py:84`: a review by the worker without findings
  starts with the count of the one before and may find no budget. README.md:133 calls the budget
  per request.
- `webhook_controller.py:62`: the risk engine of synchronous requests has no semantic service, so
  that a duplicate does not force HIGH there; README.md:33 and 50.
- `webhook_controller.py:407`: a synchronous review of an event whose repository has no owner field
  takes the author for the owner, and `repo` given as `owner/name` is not split there, as
  `background_worker.py:170-173` does for a queued one; such a review posts to another repository
  or nowhere. `SyncAimsRight` excludes both.
- `webhook_controller.py:549`: a payload is only completed from its event if no field of its own is
  left. One with just `files: []`, an empty `code` or an empty author is queued without any
  identity and reviewed as nothing (`IdentifiedIsReviewed` is about the others).
- `document_service.py:35`: a document whose text is missing is judged by any other whose name ends
  with its own: `README.md` by `docs/README.md`. `JudgedByOwnText` is about those that have a text.
- `document_service.py:209`: with three definitions and one of them documented, a third, nothing is
  reported; the recommendation speaks of 50%.
- `llm_service.py:138`: texts are given out by position. If the LLM leaves a finding out, those
  behind it get each other's explanations and fixes; the premise of `OwnAnswer` is that it does not.
- `audit_orchestrator.py:309`: the limit keeps the first annotations, and findings come in the
  order of the rules, so that a CRITICAL one may be cut where a MEDIUM one stays.
- `github_client.py:510`: a corpus some of whose blobs are missing is cached for its commit like a
  complete one, and not fetched again until it is evicted.
- `github_client.py:187`: a token is taken for all the calls of a corpus while it lasts another 30 s.
  There can be twenty blobs, and a call may take up to its timeout of 10 s: if they are slow, GitHub
  refuses the last ones, and the corpus without them is cached. The run `review_job` reaches this;
  `MissingFailedOrLate` states how far it can go.

## 5. Proofs

The theorems hold for every value of the constants that the modules' named assumptions allow
(`QueueAssumption`, `IntakeAssumption`, ...): any numbers of replicas, jobs, messages, deliveries,
handlers, reviewers, ids, lines, findings, threads, commits, failures and stops. Each section of a
proof module states the inductive invariant it needs, shows that it holds at first and that every
action keeps it (one step per action, below it the conjuncts the action can disturb), and draws the
results from it.

| Module | Theorem | States |
|---|---|---|
| `RedisJobQueue_proofs` | `TypeCorrect` | `Spec => []TypeOK`; in particular no count of `_inflight` falls below zero |
| | `WorkersAreSound` | `Spec => []InHandSound`: only reviewed jobs are acked, only poison is discarded |
| | `NothingIsLost` | `Spec => []NoJobLost` |
| | `Implementation` | `Spec => ImplementsAtLeastOnce` |
| | `OldestFirst` | `Spec => []FirstHandOutInOrder` |
| | `OneWorkerRecovers` | `Replicas = {R}` implies `Spec => []InHandIsRecoverable` |
| | `NoEntryLeaks` | `IsFiniteSet(Jobs)` implies `Spec => []InflightExact` |
| `BuiltDeduper_proofs` | `RecentIsRemembered` | `Spec => []RemembersRecent` |
| | `OneWindowOneDelivery` | `Spec => OncePerWindow` |
| | `HonoursContract` | `Spec => ImplementsContract` |
| `WebhookIntake_proofs` | `QueuedIsKept` | `Spec => []QueuedHasJob` |
| | `RefusedIsForgotten` | `Spec => []RejectedLeavesNoTrace` |
| | `NoDoubleReview` | `Spec => []OneJobPerWindow` |
| `ReviewPosting_proofs` | `ChecksAreHonest` | `Spec => []CheckNeverOlder` |
| | `OneComment` | `Spec => []OneSentinelComment` |
| | `CommentsMoveForward` | `Spec => CommentNeverOlder` |
| `MemoryProcess_proofs` | `EveryIncrementCounts` | `Spec => []NoIncrementLost` |
| | `PagesAddUp` | `Spec => []ScrapeAddsUp` |
| | `KeepsAtMostOnce` | `Spec => ImplementsAtMostOnce` |
| `ReviewSteps_proofs` | `LineMapIsExact` | `Patches!PlainPulls` implies `Spec => []LineMapExact` |
| | `NoAddedLineLeftOut` | `Patches!PlainPulls` implies `Spec => []EveryAddedLineAssessed` |
| | `AnnotationsPointAtHead` | `Patches!PlainPulls` implies `Spec => []AnnotationsAtHead` |
| | `VerdictAlwaysFits` | `Spec => []VerdictFits` |
| | `OneDefinitionInAUnit` | `Spec => []OneDefinitionEach` |
| | `NoUnitIsLost` | `Spec => []NoUnitLost` |
| | `EachItsOwnAnswer` | `Spec => []OwnAnswer` |
| | `SecurityComesFirst` | `Spec => []SecurityFirst` |
| | `EachByItsOwnText` | `Spec => []JudgedByOwnText` |
| `ReviewJob_proofs` | `JobsAimRight` | `Spec => []QueuedAimsRight` |
| | `NothingIdentifiedIsSkipped` | `Spec => []IdentifiedIsReviewed` |
| | `SyncAimsAtTarget` | `Spec => []SyncAimsRight` |
| | `BudgetIsKept` | `Spec => []BudgetPerReview` |
| | `BudgetIsWhole` | `Spec => []FallsBackWhenSpent` |
| | `RequestsAreBounded` | `Spec => []RequestsBounded` |
| | `MissingExplained` | `Spec => []MissingFailedOrLate` |
| | `CommitsCachedOnce` | in every state, no two entries of the cache are for one commit |

Some theorems have a premise of their own. `InHandIsRecoverable` is false with two replicas
(section 4), so that `OneWorkerRecovers` is about one. `InflightExact` adds up over all jobs, which
means something for finitely many only. `PlainPulls` says that no added line begins like a file
header, which the run `patch_marks` shows to be needed; `MCReviewSteps` assumes it of its own
diffs, and TLC evaluates that. The theorems about the corpus have none: they hold
however slow its calls are. Their only assumption on lengths is in `CacheAssumption`, that a token
lives longer than the slack and one call, half a minute and ten seconds against an hour (or the
300 s of `_parse_expiry` when GitHub does not say).

`ListFacts` has what the others share about lists: what appending, taking the first or the last
element, removing one and taking a part do to the elements of a list and to their places; that a
nonempty set of numbers has a least one; induction over an interval of numbers; and what a loop over
a list builds when it keeps some of the elements (`Builds`, `InOrder`).

**The queue.** `TypeCorrect` to `Implementation` come from
`IInv == TypeOK /\ InHandSound /\ NoJobLost`. None of its conjuncts is inductive alone. `Forget`
subtracts one from a count, so `TypeOK` needs to know that a worker which acks has an entry
(`InHandSound`). `NoJobLost` survives `Ack`, which removes a message, only because what is acked has
been reviewed, and `Discard` only because what is discarded is no job: again `InHandSound`. In its
turn `InHandSound` says that a job under review is stored or was reviewed by someone else, which
survives the ack of a copy by another replica because that one had reviewed it. The refinement uses
the invariant to show that `Ack` is a release of a reviewed job and `Discard` a release of poison;
all else leaves `stored` or adds to it.

`OldestFirst` needs `OrderInv`. The property speaks only of messages that were handed out, the
invariant also of those that wait: a message never handed out is in the queue, and to the right of
every copy of a message that arrived after it. A push puts the newest message at the left end; a
recovery puts an old one there, which only has others to its right; and a hand-out takes the
right end, which is a message before which nothing waits.

`NoEntryLeaks` is an invariant of each replica by itself: the entries in `_inflight` are the reviews
that raised and the job in hand. The sum over all jobs is a fold whose choices the provers
cannot follow, so the proof first shows, by induction on the size of a set, that such a sum has a
value and that changing one summand changes it by as much.

**The dedupers.** The list in memory is in the order of its times and holds an id once (`Orderly`),
and an entry in it says when its id was last let through (`Truthful`); from the first, the purge of
a prefix is the purge of all that is old, and what the eviction takes is the oldest. A key in Redis
that was set for the caller lasts a whole window (`KeysLast`), of a length that rounding may have
made shorter than the TTL. Together they are what `HonoursContract` needs at each of the ways a call
may end: it maps a call to `LetThrough` or `Duplicate` of the contract, and a tick to its `Tick`.

**The intake.** `OneJobPerWindow` counts jobs; the invariant (`Counted`) also counts the requests
between deduper and queue, which will have a job when the queue answers. A request joins them when
the deduper lets it through, which opens a window or is counted as forgotten; none joins any
other way. That `Enqueue` may fail and the request then leaves without a job is why it is a bound.

**Posting.** What a reviewer holds is no newer than the head of the pull request, and its commit no
older than its code (`Versioned`), since files are fetched first; a check run inherits that. For the
comment, ids are never used twice and the target of an update carries the marker (`Numbered`), a
review that met no other is alone (`Alone`), nothing on the page is newer than what it holds
(`Newest`), and if it is about to post a new comment there is none with the marker (`Single`).

**The process without Redis.** For the registry, `Exclusive` says that who is past the lock is who
holds it; so what a statement has read is still there for the next one (`ReadHolds`) and an
observation half done is the only one. `NoIncrementLost` follows. `ScrapeAddsUp` compares numbers
that different callers change at different times: `CountsFit` relates them with what is
under way (a call that has begun, the place of the worker's thread), `DepthKnown` says that the
gauge is the length of the queue from the moment a scrape has set it, as the loop does nothing else
in between. The refinement of `AtMostOnce` maps a review that begins to `Begin` and the end of the
process to the loss of all that waits.

**The steps of a review.** Each has its invariant in `ReviewSteps_proofs`.

- *Patches*: `CounterRight`, `newLine` is the number of the line that is next unless a hunk header
  is; `PositionedSound` and `PositionedComplete`, what was taken from the patch so far are its added
  lines, in order, each with its number; `CodeRead`, the code comes from files before this one, which
  keeps it in order when a segment joins it. One lemma (`Reading`) does the five branches of the
  parser at once: a branch keeps the invariant if it counts a line of the head and takes an added one.
- *Verdict*: what each engine has left at each place; that the aggregation takes the highest of three
  levels, and the security engine the highest of its rules, are lemmas.
- *Units* (`UnitsSound`, `AllAccounted`): the starts found so far ascend, each is the first of the
  decorators right above a definition, and every definition read has one. Two definitions cannot have
  one start, since decorators are no definitions; so between two boundaries there is one. A unit that
  was cut is kept or too small, and lines between two boundaries belong to one unit, whose tokens are at
  least theirs.
- *Answer* (`AnswerSound`): the segments are sorted by finding and label, and what was read into
  the records tells, record by record, what the segments so far say about that finding (`ReadInto`).
  Under the premise of `OwnAnswer` a text that opens a record is about the next finding (`OpensNext`),
  and a fix that meets an open record about that record's (`FixOfOpen`). Both use that a segment
  missing here would have to come later, where the order forbids it.
- *Report* (`ReportSound`): the findings are the security findings, then those of documents, each of
  which is one its own text has. Annotations keep the order of the findings, so that what a limit
  cuts is the end.

**The target.** What a job says of its pull request is true or missing, part by part, and nothing is
missing if its payload named all (`JobAims`); the worker takes it as it is (`WorkerFollows`): a whole
identity made of true parts is the pull request, any other none at all. The lemmas `OneTarget` and
`EventRead` say the same of what the route reads out of a payload, form by form of a repository.

**The budget.** A review that is alone has all others idle (`AloneIsAlone`), so that nobody writes
between its read of a field and its use. For it the service in hand is the one that is installed, and
what it has loaded is still the count (`CountHolds`); the count is at least what the review has spent
itself, and exactly that if the review brought a service of its own, since a service nobody brought
yet has spent nothing (`FreshUnspent`). A count below the limit before each call then bounds the
calls, and a spent budget was spent by the review. `PaidFor` adds up the requests for
every thread, alone or not: those made, and those a call under way may still need, are covered
by the calls that were counted.

**The corpus.** `TokenGood` says how much of the slack can be used up: before blob `b` is asked for,
the token lasts another slack, less `b` calls (the tree and the blobs before). It begins with
`KeepToken`, by what `Usable` asks, or with `NewToken`, by the assumption on a token's life; each
call takes one `CallTime` off (`AfterACall`). So an answer that refuses blob `b` comes when the
slack has been used up by `b + 1` calls. `RefusedLate` keeps that for the blobs already tried:
one that is neither there nor failed is so late, and since the token has ended by then, no later blob
is fetched; `FetchBlob` needs a token that has not. `Store` carries it over to the cache.
`CachedOnce` says that a commit is not cached while it is being fetched, as it was looked up first and
nobody else stores anything in between.

**The form of the model.** `tlapm` cannot reason about `RECURSIVE` operators, nor about the folds and
`SelectSeq` of the libraries. Loops that build a list or a sum are therefore recursive functions
(`Purge`, `TokensIn`, `Annotations`, `Kept`), a search is the least of a set of places
(`FindMarked`), and the proofs first show that the
function exists (`BuildsExists`, `TokensInUnfolds`, `UnitStartUnfolds`), which TLA+ does not grant.

**Only model-checked.** All liveness (`EventuallyReviewed`, `PoisonDropped`, `EventuallyBegun`,
`QueuedIsReviewed`, `FailedIsQueuedLater`): fairness and `ENABLED` are out of this prover's reach.
`ImplementsContract` and the others are proved as safety; none of the abstract specifications states
fairness. Of the two violations nothing is to be proved. What the loops
of the code compute is proved as an invariant of their steps: induction over data with the library's
theorems is out of reach too.

## 6. What is not modelled

- Text: the regular expressions of the security rules, what the counters of the document rules find
  in a text, prompts and the clean-up of an answer, reports, and how a payload is searched for its
  fields. Their results are inputs of the models.
- Floating point: the similarity of embeddings; a duplicate is a choice in `RiskVerdict`.
- The pace of retries and the wording of logs (`redis_job_queue.py:69-84`, `nim_provider.py`).
- Documents whose full text joins the code without positions of a patch.
- Lines with separators of `str.splitlines` that end no line of the file (section 4).
- Settings, health and logging: constants, one answer, and no state a property could speak of.
- Redis and GitHub beyond what the code uses: Redis runs a command as one step and keeps what it
  has answered; GitHub's answers are those of the moment of the call.

## 7. Plan

The order followed: first the queue, where a mistake loses work, then what feeds it (dedupers,
intake, the target of a job), then what a job does (posting, patches, corpus, budget, and the
computing steps), and the process without Redis; proofs began with the queue.

To extend:

1. The back-off and the outage log of `RedisJobQueue`.
2. `WebhookIntake` over `DeliveryDeduper` itself instead of its contract.
3. Documents that join the code in `PatchLines`; the two lists stay tied by position there too.

Every safety property of the runs is proved. What is left to prove goes with what is left to model:
that `WebhookIntake` over `DeliveryDeduper` itself implements the one over the contract.
