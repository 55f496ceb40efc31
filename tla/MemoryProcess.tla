----------------------------- MODULE MemoryProcess -----------------------------
(***************************************************************************)
(* One process without Redis (main.py): the queue in memory                *)
(* (job_queue.py), the worker loop that takes from it, a synchronous       *)
(* review beside it, and the metrics they write and a scrape reads.        *)
(*                                                                         *)
(* The event loop runs one handler at a time, up to its next await that    *)
(* really waits; none of the calls to this queue does.  The reviews run in *)
(* threads and interleave with it at every statement.                      *)
(***************************************************************************)
EXTENDS Integers, Sequences, SequencesExt

CONSTANTS
  Jobs,
  Durations,  \* seconds a review may take, rounded
  MaxSyncs,   \* bound: synchronous reviews of a process
  MaxRaises,  \* bound: reviews of a process that raise
  MaxAsked,   \* bound: calls of the LLM and posts to GitHub of a process
  MaxExits    \* bound: ends of the process

ASSUME ProcessAssumption ==
  Durations \subseteq Nat \ {0} /\ {MaxSyncs, MaxRaises, MaxAsked, MaxExits} \subseteq Nat

Actors   == {"loop", "worker", "sync"}
Counters == {"queued", "sync", "reviews", "llm", "posts", "processed"}

VARIABLES
  queue,     \* asyncio.Queue
  task,      \* the worker's task: "waiting", "busy", or "cancelled"
  hand,      \* the job in hand, or <<>>
  thread,    \* the worker's thread
  sync,      \* the thread of a synchronous request
  scraping,  \* whether /metrics has set the depth and not yet rendered
  accepted,  \* history: jobs accepted so far
  begun,     \* history: jobs whose review was begun, in order
  syncs, raises, asked, exits,
  lock, counters, gauge, summary, call, page, finished   \* the registry

Metrics == INSTANCE MetricsRegistry

work    == <<queue, task, hand, thread>>
history == <<accepted, begun>>
bounds  == <<syncs, raises, asked, exits>>
vars    == <<work, sync, scraping, history, bounds, Metrics!registry>>

Init ==
  /\ queue = <<>> /\ task = "waiting" /\ hand = <<>>
  /\ thread = "off" /\ sync = "off" /\ scraping = FALSE
  /\ accepted = {} /\ begun = <<>>
  /\ syncs = 0 /\ raises = 0 /\ asked = 0 /\ exits = 0
  /\ Metrics!Init

LoopFree == call["loop"] = Metrics!Idle /\ ~scraping

-----------------------------------------------------------------------------
(* Requests *)

(* JobQueue.enqueue and the counter of the route, without a wait between   *)
Enqueue(j) ==
  /\ LoopFree /\ task # "cancelled"
  /\ j \notin accepted
  /\ queue' = Append(queue, j)
  /\ accepted' = accepted \union {j}
  /\ Metrics!Call("loop", Metrics!CounterInc("queued"))
  /\ UNCHANGED <<task, hand, thread, sync, scraping, begun, bounds>>

BeginSync ==
  /\ LoopFree /\ task # "cancelled"
  /\ sync = "off" /\ syncs < MaxSyncs
  /\ sync' = "review"
  /\ syncs' = syncs + 1
  /\ Metrics!NoCall
  /\ UNCHANGED <<work, scraping, history, raises, asked, exits>>

(* What a review asks of another service is counted, answered or not.      *)
Asks(a, what) ==
  /\ asked < MaxAsked
  /\ asked' = asked + 1
  /\ Metrics!Call(a, Metrics!CounterInc(what))

(* The audit of the findings, the judgements of the documents and the      *)
(* translations ask the LLM, each or none.                                 *)
SyncAsksLLM ==
  /\ sync = "review"
  /\ Asks("sync", "llm")
  /\ UNCHANGED <<work, sync, scraping, history, syncs, raises, exits>>

SyncReturns ==
  /\ sync = "review" /\ call["sync"] = Metrics!Idle
  /\ sync' \in {"processed", "raised"}
  /\ Metrics!NoCall
  /\ UNCHANGED <<work, scraping, history, bounds>>

EndSync ==
  /\ LoopFree
  /\ sync = "processed"
  /\ sync' = "off"
  /\ Metrics!Call("loop", Metrics!CounterInc("sync"))
  /\ UNCHANGED <<work, scraping, history, bounds>>

(* "Synchronous webhook processing failed": answered, and not counted      *)
FailSync ==
  /\ LoopFree
  /\ sync = "raised"
  /\ sync' = "off"
  /\ Metrics!NoCall
  /\ UNCHANGED <<work, scraping, history, bounds>>

(* /metrics: the depth of the moment, and then all that was counted *)
SetDepth ==
  /\ LoopFree
  /\ scraping' = TRUE
  /\ Metrics!Call("loop", Metrics!GaugeSet(Len(queue)))
  /\ UNCHANGED <<work, sync, history, bounds>>

RenderPage ==
  /\ scraping /\ call["loop"] = Metrics!Idle
  /\ scraping' = FALSE
  /\ Metrics!Call("loop", Metrics!Render)
  /\ UNCHANGED <<work, sync, history, bounds>>

-----------------------------------------------------------------------------
(* The worker loop *)

(* mutant: the job stays in the queue until its review has ended *)
DequeuePeek ==
  /\ LoopFree
  /\ task = "waiting" /\ queue # <<>>
  /\ task' = "busy" /\ thread' = "assess"
  /\ hand' = <<Head(queue)>>
  /\ begun' = Append(begun, Head(queue))
  /\ queue' = queue
  /\ Metrics!NoCall
  /\ UNCHANGED <<sync, scraping, accepted, bounds>>

Dequeue ==
  /\ LoopFree
  /\ task = "waiting" /\ queue # <<>>
  /\ task' = "busy" /\ thread' = "assess"
  /\ hand' = <<Head(queue)>>
  /\ begun' = Append(begun, Head(queue))
  /\ queue' = Tail(queue)
  /\ Metrics!NoCall
  /\ UNCHANGED <<sync, scraping, accepted, bounds>>

ThreadReady(at) == thread = at /\ call["worker"] = Metrics!Idle

CountReview ==
  /\ ThreadReady("assess")
  /\ thread' = "report"
  /\ Metrics!Call("worker", Metrics!CounterInc("reviews"))
  /\ UNCHANGED <<queue, task, hand, sync, scraping, history, bounds>>

InReport == ThreadReady("report") \/ ThreadReady("llm")

ReportAsksLLM ==
  /\ InReport
  /\ thread' = "llm"
  /\ Asks("worker", "llm")
  /\ UNCHANGED <<queue, task, hand, sync, scraping, history, syncs, raises, exits>>

PostComment ==
  /\ InReport
  /\ thread' = "commented"
  /\ Asks("worker", "posts")
  /\ UNCHANGED <<queue, task, hand, sync, scraping, history, syncs, raises, exits>>

PostCheckRun ==
  /\ ThreadReady("commented")
  /\ thread' = "observe"
  /\ Asks("worker", "posts")
  /\ UNCHANGED <<queue, task, hand, sync, scraping, history, syncs, raises, exits>>

(* Without a client or a target there is nothing to report; what raises    *)
(* while a report is made is caught; check runs may be off.                *)
EndReport ==
  /\ InReport \/ ThreadReady("commented")
  /\ thread' = "observe"
  /\ Metrics!NoCall
  /\ UNCHANGED <<queue, task, hand, sync, scraping, history, bounds>>

ObserveDuration ==
  /\ ThreadReady("observe")
  /\ thread' = "returned"
  /\ \E seconds \in Durations : Metrics!Call("worker", Metrics!Observe(seconds))
  /\ UNCHANGED <<queue, task, hand, sync, scraping, history, bounds>>

(* The assessment of a strange job may raise, and so may writing its risk  *)
(* line.                                                                   *)
ReviewRaises ==
  /\ ThreadReady("assess") \/ ThreadReady("report")
  /\ raises < MaxRaises
  /\ raises' = raises + 1
  /\ thread' = "raised"
  /\ Metrics!NoCall
  /\ UNCHANGED <<queue, task, hand, sync, scraping, history, syncs, asked, exits>>

(* ack does nothing here. *)
AckAndCount ==
  /\ LoopFree
  /\ task = "busy" /\ ThreadReady("returned")
  /\ task' = "waiting" /\ thread' = "off" /\ hand' = <<>>
  /\ Metrics!Call("loop", Metrics!CounterInc("processed"))
  /\ UNCHANGED <<queue, sync, scraping, history, bounds>>

(* mutant: the exception ends the loop *)
ContinueNever ==
  /\ LoopFree
  /\ task = "busy" /\ thread = "raised"
  /\ task' = "ended" /\ thread' = "off" /\ hand' = <<>>
  /\ Metrics!NoCall
  /\ UNCHANGED <<queue, sync, scraping, history, bounds>>

(* "Worker failed to process job; continuing": the job is gone. *)
Continue ==
  /\ LoopFree
  /\ task = "busy" /\ thread = "raised"
  /\ task' = "waiting" /\ thread' = "off" /\ hand' = <<>>
  /\ Metrics!NoCall
  /\ UNCHANGED <<queue, sync, scraping, history, bounds>>

-----------------------------------------------------------------------------
(* The lifespan ends and cancels the task; its thread goes on. *)
Cancel ==
  /\ LoopFree /\ task # "cancelled"
  /\ exits < MaxExits
  /\ task' = "cancelled"
  /\ Metrics!NoCall
  /\ UNCHANGED <<queue, hand, thread, sync, scraping, history, bounds>>

(* The process ends, orderly or not, and another one starts with nothing.  *)
Exit ==
  /\ exits < MaxExits
  /\ exits' = exits + 1
  /\ queue' = <<>> /\ task' = "waiting" /\ hand' = <<>>
  /\ thread' = "off" /\ sync' = "off" /\ scraping' = FALSE
  /\ syncs' = 0 /\ raises' = 0 /\ asked' = 0
  /\ Metrics!Reset
  /\ UNCHANGED history

(* What the thread of a review does, unless it raises *)
WorkerThread ==
  \/ CountReview
  \/ ReportAsksLLM \/ PostComment \/ PostCheckRun \/ EndReport
  \/ ObserveDuration

RegistryStep(a) ==
  Metrics!Step(a) /\ UNCHANGED <<work, sync, scraping, history, bounds>>

Next ==
  \/ \E j \in Jobs : Enqueue(j)
  \/ BeginSync \/ SyncAsksLLM \/ SyncReturns \/ EndSync \/ FailSync
  \/ SetDepth \/ RenderPage
  \/ Dequeue \/ WorkerThread \/ ReviewRaises
  \/ AckAndCount \/ Continue
  \/ Cancel \/ Exit
  \/ \E a \in Actors : RegistryStep(a)

(* The loop serves what is ready, other requests notwithstanding, and a    *)
(* thread that can run does.                                               *)
Fairness ==
  /\ SF_vars(Dequeue \/ AckAndCount \/ Continue)
  /\ SF_vars(RenderPage \/ RegistryStep("loop"))
  /\ SF_vars(WorkerThread \/ RegistryStep("worker"))
  /\ SF_vars(RegistryStep("sync"))

Spec == Init /\ [][Next]_vars /\ Fairness

-----------------------------------------------------------------------------
(* The lock keeps every increment, see MetricsRegistry. *)
NoIncrementLost == Metrics!NoIncrementLost

(* Every page is the picture of one moment: what waits, what is reviewed   *)
(* and what was reviewed are different accepted jobs, a job is timed only  *)
(* once it was counted, and no observation is shown by halves.             *)
ScrapeAddsUp ==
  LET shown == page.counters
  IN /\ page.gauge + shown["reviews"] <= shown["queued"]
     /\ shown["processed"] <= page.summary.count
     /\ page.summary.count <= shown["reviews"]
     /\ Metrics!SummaryFits(page.summary)

AtMostOnce == INSTANCE AtMostOnce WITH waiting <- queue

(* The process promises what AtMostOnce says, through reviews that raise,  *)
(* cancellation and its end.                                               *)
ImplementsAtMostOnce == AtMostOnce!Spec

(* A job that was accepted does not wait for ever: its review begins       *)
(* though others raised, unless the process is shut down or ends first.    *)
EventuallyBegun ==
  \A j \in Jobs : j \in Range(queue) ~> (j \notin Range(queue) \/ task = "cancelled")
=============================================================================
