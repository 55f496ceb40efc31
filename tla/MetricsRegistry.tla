---------------------------- MODULE MetricsRegistry ----------------------------
(***************************************************************************)
(* The metrics of one process (metrics.py): counters, a gauge and a        *)
(* summary that the event loop and the threads of reviews write, and the   *)
(* text a scrape is answered with, all behind one lock.                    *)
(*                                                                         *)
(* An actor makes a call and is busy until call[a] is Idle again; every    *)
(* statement in the critical section is a step of its own.                 *)
(***************************************************************************)
EXTENDS Integers, FiniteSetsExt

CONSTANTS Actors, Counters

VARIABLES
  lock,      \* _lock: its holder, or Free
  counters,  \* _counters
  gauge,     \* _gauges: the queue depth
  summary,   \* _summaries: the durations of jobs
  call,      \* of each actor: the call it is in
  page,      \* the text a scrape is answered with in this very step
  finished   \* history: increments finished, of each counter

registry == <<lock, counters, gauge, summary, call, page, finished>>

Free  == "free"
Idle  == [op |-> "none"]
Empty == [count |-> 0, sum |-> 0, min |-> 0, max |-> 0]
Blank == [counters |-> [c \in Counters |-> 0], gauge |-> 0, summary |-> Empty]

Init ==
  /\ lock = Free
  /\ counters = [c \in Counters |-> 0]
  /\ gauge = 0
  /\ summary = Empty
  /\ call = [a \in Actors |-> Idle]
  /\ page = Blank
  /\ finished = [c \in Counters |-> 0]

(* A new process has a new registry. *)
Reset ==
  /\ lock' = Free
  /\ counters' = [c \in Counters |-> 0]
  /\ gauge' = 0
  /\ summary' = Empty
  /\ call' = [a \in Actors |-> Idle]
  /\ page' = Blank
  /\ finished' = [c \in Counters |-> 0]

(* The public methods; each is called by a step of the program around it.  *)
CounterInc(c) == [op |-> "inc", at |-> "lock", counter |-> c, read |-> 0]
GaugeSet(v)   == [op |-> "set", at |-> "lock", value |-> v]
Observe(v)    == [op |-> "observe", at |-> "lock", value |-> v]
Render        == [op |-> "render", at |-> "lock", text |-> Blank]

Call(a, c) ==
  /\ call[a] = Idle
  /\ call' = [call EXCEPT ![a] = c]
  /\ page' = Blank /\ UNCHANGED <<lock, counters, gauge, summary, finished>>

NoCall == page' = Blank /\ UNCHANGED <<lock, counters, gauge, summary, call, finished>>

-----------------------------------------------------------------------------
(* mutant: without `with self._lock` *)
AcquireNothing(a) ==
  /\ call[a] # Idle /\ call[a].at = "lock"
  /\ lock' = Free
  /\ call' = [call EXCEPT ![a].at = "first"]
  /\ page' = Blank /\ UNCHANGED <<counters, gauge, summary, finished>>

Acquire(a) ==
  /\ call[a] # Idle /\ call[a].at = "lock"
  /\ lock = Free
  /\ lock' = a
  /\ call' = [call EXCEPT ![a].at = "first"]
  /\ page' = Blank /\ UNCHANGED <<counters, gauge, summary, finished>>

At(a, op, at) == call[a] # Idle /\ call[a].op = op /\ call[a].at = at

Release(a) ==
  /\ lock' = Free
  /\ call' = [call EXCEPT ![a] = Idle]

LoadCounter(a) ==
  /\ At(a, "inc", "first")
  /\ call' = [call EXCEPT ![a].at = "second", ![a].read = counters[call[a].counter]]
  /\ page' = Blank /\ UNCHANGED <<lock, counters, gauge, summary, finished>>

StoreCounter(a) ==
  /\ At(a, "inc", "second")
  /\ counters' = [counters EXCEPT ![call[a].counter] = call[a].read + 1]
  /\ finished' = [finished EXCEPT ![call[a].counter] = @ + 1]
  /\ Release(a)
  /\ page' = Blank /\ UNCHANGED <<gauge, summary>>

StoreGauge(a) ==
  /\ At(a, "set", "first")
  /\ gauge' = call[a].value
  /\ Release(a)
  /\ page' = Blank /\ UNCHANGED <<counters, summary, finished>>

FirstObservation(a) ==
  /\ At(a, "observe", "first") /\ summary = Empty
  /\ LET v == call[a].value
     IN summary' = [count |-> 1, sum |-> v, min |-> v, max |-> v]
  /\ Release(a)
  /\ page' = Blank /\ UNCHANGED <<counters, gauge, finished>>

CountObservation(a) ==
  /\ At(a, "observe", "first") /\ summary # Empty
  /\ summary' = [summary EXCEPT !.count = @ + 1]
  /\ call' = [call EXCEPT ![a].at = "second"]
  /\ page' = Blank /\ UNCHANGED <<lock, counters, gauge, finished>>

AddObservation(a) ==
  /\ At(a, "observe", "second")
  /\ LET v == call[a].value
     IN summary' = [summary EXCEPT !.sum = @ + v, !.min = Min({@, v}), !.max = Max({@, v})]
  /\ Release(a)
  /\ page' = Blank /\ UNCHANGED <<counters, gauge, finished>>

(* mutant: the lock covers the counters only *)
CopyCountersRelease(a) ==
  /\ At(a, "render", "first")
  /\ call' = [call EXCEPT ![a].at = "second", ![a].text.counters = counters]
  /\ lock' = Free
  /\ page' = Blank /\ UNCHANGED <<counters, gauge, summary, finished>>

CopyCounters(a) ==
  /\ At(a, "render", "first")
  /\ call' = [call EXCEPT ![a].at = "second", ![a].text.counters = counters]
  /\ page' = Blank /\ UNCHANGED <<lock, counters, gauge, summary, finished>>

CopyRest(a) ==
  /\ At(a, "render", "second")
  /\ page' = [call[a].text EXCEPT !.gauge = gauge, !.summary = summary]
  /\ Release(a)
  /\ UNCHANGED <<counters, gauge, summary, finished>>

Step(a) ==
  \/ Acquire(a) \/ LoadCounter(a) \/ StoreCounter(a) \/ StoreGauge(a)
  \/ FirstObservation(a) \/ CountObservation(a) \/ AddObservation(a)
  \/ CopyCounters(a) \/ CopyRest(a)

-----------------------------------------------------------------------------
(* No increment is lost, though several threads count the same thing.      *)
NoIncrementLost == counters = finished

(* A page never shows half an observation. *)
SummaryFits(s) == s.count * s.min <= s.sum /\ s.sum <= s.count * s.max
=============================================================================
