------------------------- MODULE MemoryProcess_proofs -------------------------
(***************************************************************************)
(* The metrics of a process add up and its queue keeps its promise, for    *)
(* any number of jobs, synchronous reviews, exceptions and ends.           *)
(***************************************************************************)
EXTENDS MemoryProcess, ListFacts, TLAPS

-----------------------------------------------------------------------------
(* The registry *)

Summaries == [count : Nat, sum : Nat, min : Nat, max : Nat]
Pages     == [counters : [Counters -> Nat], gauge : Nat, summary : Summaries]

Increments   == [op : {"inc"}, at : {"lock", "first", "second"}, counter : Counters, read : Nat]
Settings     == [op : {"set"}, at : {"lock", "first"}, value : Nat]
Observations == [op : {"observe"}, at : {"lock", "first", "second"}, value : Nat]
Renderings   == [op : {"render"}, at : {"lock", "first", "second"}, text : Pages]
Calls == {Metrics!Idle} \union Increments \union Settings \union Observations \union Renderings

RegistryTyped ==
  /\ lock \in Actors \union {Metrics!Free}
  /\ counters \in [Counters -> Nat] /\ gauge \in Nat /\ summary \in Summaries
  /\ call \in [Actors -> Calls]

(* Who is past the lock holds it, and nobody else. *)
InSection(a) == call[a].op # "none" /\ call[a].at # "lock"
Exclusive == \A a \in Actors : InSection(a) <=> lock = a

(* What was read under the lock still holds. *)
ReadHolds(a) ==
  /\ call[a].op = "inc" /\ call[a].at = "second" => call[a].read = counters[call[a].counter]
  /\ call[a].op = "render" /\ call[a].at = "second" => call[a].text.counters = counters

(* The summary fits the observations, but for the one that is half done.   *)
HalfDone == \E a \in Actors : call[a].op = "observe" /\ call[a].at = "second"

FitsCount(n) == n * summary.min <= summary.sum /\ summary.sum <= n * summary.max

SummarySound ==
  /\ HalfDone => summary.count >= 2 /\ FitsCount(summary.count - 1)
  /\ ~ HalfDone => (summary = Metrics!Empty \/ summary.count >= 1) /\ FitsCount(summary.count)

RegistrySound ==
  /\ RegistryTyped /\ Exclusive /\ SummarySound
  /\ \A a \in Actors : ReadHolds(a)
  /\ counters = finished

-----------------------------------------------------------------------------
(* What a call is, by its op *)
LEMMA CallFacts ==
  ASSUME NEW c \in Calls
  PROVE  /\ c = Metrics!Idle <=> c.op = "none"
         /\ c.op = "inc" => c \in Increments
         /\ c.op = "set" => c \in Settings
         /\ c.op = "observe" => c \in Observations
         /\ c.op = "render" => c \in Renderings
         /\ c.op \in {"none", "inc", "set", "observe", "render"}
BY DEF Calls, Increments, Settings, Observations, Renderings, Metrics!Idle

(* The registry is sound at first and again after the end of a process.    *)
LEMMA RegistryStart ==
  /\ Metrics!Init => RegistrySound /\ page = Metrics!Blank
  /\ Metrics!Reset => (RegistrySound /\ page = Metrics!Blank)'
<1>1. Metrics!Empty \in Summaries /\ Metrics!Idle \in Calls /\ Metrics!Free \notin Actors
      /\ Metrics!Idle.op = "none"
  BY DEF Metrics!Empty, Summaries, Metrics!Idle, Calls, Metrics!Free, Actors
<1>2. Metrics!Init => RegistrySound /\ page = Metrics!Blank
  <2> SUFFICES ASSUME Metrics!Init PROVE RegistrySound /\ page = Metrics!Blank
    OBVIOUS
  <2>1. RegistryTyped
    BY <1>1 DEF Metrics!Init, RegistryTyped
  <2>2. \A a \in Actors : call[a].op = "none"
    BY <1>1 DEF Metrics!Init
  <2>3. SummarySound
    BY <2>2 DEF Metrics!Init, SummarySound, HalfDone, FitsCount, Metrics!Empty
  <2> QED BY <1>1, <2>1, <2>2, <2>3 DEF Metrics!Init, RegistrySound, Exclusive, InSection, ReadHolds
<1>3. Metrics!Reset => (RegistrySound /\ page = Metrics!Blank)'
  <2> SUFFICES ASSUME Metrics!Reset PROVE (RegistrySound /\ page = Metrics!Blank)'
    OBVIOUS
  <2>1. RegistryTyped'
    BY <1>1 DEF Metrics!Reset, RegistryTyped
  <2>2. \A a \in Actors : call'[a].op = "none"
    BY <1>1 DEF Metrics!Reset
  <2>3. SummarySound'
    BY <2>2 DEF Metrics!Reset, SummarySound, HalfDone, FitsCount, Metrics!Empty
  <2> QED BY <1>1, <2>1, <2>2, <2>3 DEF Metrics!Reset, RegistrySound, Exclusive, InSection, ReadHolds
<1> QED BY <1>2, <1>3

(* A new call waits for the lock. *)
LEMMA Calling ==
  ASSUME RegistrySound, NEW a \in Actors, NEW c \in Calls, c.op # "none", c.at = "lock",
         Metrics!Call(a, c)
  PROVE  RegistrySound'
<1>1. /\ call[a].op = "none" /\ call' = [call EXCEPT ![a] = c]
      /\ UNCHANGED <<lock, counters, gauge, summary, finished>>
  BY DEF Metrics!Call, Metrics!Idle
<1>2. /\ call \in [Actors -> Calls] /\ call' \in [Actors -> Calls] /\ call'[a] = c
      /\ \A b \in Actors : b # a => call'[b] = call[b]
  BY <1>1 DEF RegistrySound, RegistryTyped
<1>3. \A b \in Actors : InSection(b)' <=> InSection(b)
  BY <1>1, <1>2 DEF InSection
<1>4. HalfDone' <=> HalfDone
  <2>1. \A b \in Actors : (call'[b].op = "observe" /\ call'[b].at = "second")
                            <=> (call[b].op = "observe" /\ call[b].at = "second")
    BY <1>1, <1>2
  <2> QED BY <2>1 DEF HalfDone
<1>5. \A b \in Actors : ReadHolds(b)'
  BY <1>1, <1>2 DEF RegistrySound, ReadHolds
<1>6. SummarySound'
  BY <1>1, <1>4 DEF RegistrySound, SummarySound, FitsCount
<1>7. Exclusive'
  BY <1>1, <1>3 DEF RegistrySound, Exclusive
<1> QED BY <1>1, <1>2, <1>5, <1>6, <1>7 DEF RegistrySound, RegistryTyped

-----------------------------------------------------------------------------
(* The statements of a method *)

(* Behind the lock there is one actor. *)
LEMMA Alone ==
  ASSUME RegistrySound, NEW a \in Actors, lock = a
  PROVE  \A b \in Actors : b # a => ~ InSection(b)
BY DEF RegistrySound, Exclusive

(* The holder leaves: whatever it has stored, nobody else has read.        *)
LEMMA Leaving ==
  ASSUME RegistrySound, NEW a \in Actors, lock = a, lock' = Metrics!Free,
         call' = [call EXCEPT ![a] = Metrics!Idle],
         counters' \in [Counters -> Nat], gauge' \in Nat, summary' \in Summaries,
         counters' = finished',
         summary' = Metrics!Empty \/ summary'.count >= 1,
         FitsCount(summary.count)'
  PROVE  RegistrySound'
<1>1. Metrics!Idle \in Calls /\ Metrics!Idle.op = "none" /\ Metrics!Free \notin Actors
  BY DEF Metrics!Idle, Calls, Metrics!Free, Actors
<1>2. /\ call' \in [Actors -> Calls] /\ call'[a].op = "none"
      /\ \A b \in Actors : b # a => call'[b] = call[b]
  BY <1>1 DEF RegistrySound, RegistryTyped
<1>3. \A b \in Actors : ~ InSection(b)'
  BY <1>2, Alone DEF InSection
<1>4. \A b \in Actors : call'[b].op = "none" \/ call'[b].at = "lock"
  BY <1>3 DEF InSection
<1>5. ~ HalfDone' /\ \A b \in Actors : ReadHolds(b)'
  BY <1>4 DEF HalfDone, ReadHolds
<1>6. SummarySound'
  BY <1>5 DEF SummarySound
<1>7. Exclusive'
  BY <1>1, <1>3 DEF Exclusive
<1> QED BY <1>1, <1>2, <1>5, <1>6, <1>7 DEF RegistrySound, RegistryTyped

(* Who is at a statement holds the lock, in a call of that method.         *)
LEMMA AtFacts ==
  ASSUME RegistrySound, NEW a \in Actors, NEW op \in {"inc", "set", "observe", "render"},
         NEW at \in {"first", "second"}, Metrics!At(a, op, at)
  PROVE  /\ call[a].op = op /\ call[a].at = at /\ call[a] \in Calls
         /\ InSection(a) /\ lock = a
<1>1. call[a] \in Calls /\ call[a].op = op /\ call[a].at = at
  BY DEF Metrics!At, RegistrySound, RegistryTyped
<1>2. InSection(a)
  BY <1>1 DEF InSection
<1> QED BY <1>1, <1>2 DEF RegistrySound, Exclusive

(* Nobody else has half an observation while another has the lock.         *)
LEMMA HalfIsMine ==
  ASSUME RegistrySound, NEW a \in Actors, lock = a
  PROVE  HalfDone <=> call[a].op = "observe" /\ call[a].at = "second"
<1>1. \A b \in Actors : (call[b].op = "observe" /\ call[b].at = "second") => InSection(b)
  BY DEF InSection
<1>2. \A b \in Actors : InSection(b) => b = a
  BY Alone
<1> QED BY <1>1, <1>2 DEF HalfDone

(* The holder goes on to another statement. *)
LEMMA Staying ==
  ASSUME RegistrySound, NEW a \in Actors, lock' = a, lock \in {a, Metrics!Free},
         NEW c \in Calls, c.op # "none", c.at # "lock", call' = [call EXCEPT ![a] = c],
         UNCHANGED <<counters, gauge, finished>>, summary' \in Summaries,
         ReadHolds(a)', SummarySound'
  PROVE  RegistrySound'
<1>1. /\ call' \in [Actors -> Calls] /\ call'[a] = c
      /\ \A b \in Actors : b # a => call'[b] = call[b]
  BY DEF RegistrySound, RegistryTyped
<1>2. Metrics!Free \notin Actors
  BY DEF Metrics!Free, Actors
<1>3. \A b \in Actors : InSection(b)' <=> lock' = b
  <2> SUFFICES ASSUME NEW b \in Actors PROVE InSection(b)' <=> lock' = b
    OBVIOUS
  <2>1. CASE b = a
    BY <1>1, <2>1 DEF InSection
  <2>2. CASE b # a
    <3>1. ~ InSection(b)
      BY <1>2, <2>2 DEF RegistrySound, Exclusive
    <3> QED BY <1>1, <2>2, <3>1 DEF InSection
  <2> QED BY <2>1, <2>2
<1>4. \A b \in Actors : ReadHolds(b)'
  <2> SUFFICES ASSUME NEW b \in Actors, b # a PROVE ReadHolds(b)'
    OBVIOUS
  <2>1. call'[b] = call[b] /\ counters' = counters
    BY <1>1
  <2> QED BY <2>1 DEF RegistrySound, ReadHolds
<1>5. RegistryTyped'
  BY <1>1 DEF RegistrySound, RegistryTyped
<1>6. (counters = finished)'
  BY DEF RegistrySound
<1> QED BY <1>3, <1>4, <1>5, <1>6 DEF RegistrySound, Exclusive

LEMMA Acquiring ==
  ASSUME RegistrySound, NEW a \in Actors, Metrics!Acquire(a)
  PROVE  RegistrySound'
<1> DEFINE c == [call[a] EXCEPT !.at = "first"]
<1>1. /\ call[a] \in Calls /\ call[a].op # "none" /\ call[a].at = "lock"
      /\ lock = Metrics!Free /\ lock' = a /\ call' = [call EXCEPT ![a] = c]
      /\ UNCHANGED <<counters, gauge, summary, finished>>
  BY CallFacts DEF Metrics!Acquire, RegistrySound, RegistryTyped
<1>2. c \in Calls /\ c.op # "none" /\ c.at = "first" /\ c.op = call[a].op
  <2>1. \/ call[a] \in Increments \/ call[a] \in Settings
        \/ call[a] \in Observations \/ call[a] \in Renderings
    BY <1>1, CallFacts
  <2> QED BY <1>1, <2>1 DEF Increments, Settings, Observations, Renderings, Calls
<1> HIDE DEF c
<1>3. /\ call'[a] = c /\ \A b \in Actors : b # a => call'[b] = call[b]
  BY <1>1 DEF RegistrySound, RegistryTyped
<1>4. \A b \in Actors : ~ InSection(b)
  <2>1. Metrics!Free \notin Actors
    BY DEF Metrics!Free, Actors
  <2> QED BY <1>1, <2>1 DEF RegistrySound, Exclusive
<1>5. ~ HalfDone /\ ~ HalfDone'
  BY <1>2, <1>3, <1>4 DEF HalfDone, InSection
<1>6. SummarySound'
  BY <1>1, <1>5 DEF RegistrySound, SummarySound, FitsCount
<1>7. ReadHolds(a)'
  BY <1>2, <1>3 DEF ReadHolds
<1>8. summary' \in Summaries
  BY <1>1 DEF RegistrySound, RegistryTyped
<1> QED BY <1>1, <1>2, <1>6, <1>7, <1>8, Staying

LEMMA Incrementing ==
  ASSUME RegistrySound, NEW a \in Actors,
         Metrics!LoadCounter(a) \/ Metrics!StoreCounter(a)
  PROVE  RegistrySound'
<1>1. CASE Metrics!LoadCounter(a)
  <2>1. /\ call[a].op = "inc" /\ call[a].at = "first" /\ lock = a /\ call[a] \in Increments
    BY <1>1, AtFacts, CallFacts DEF Metrics!LoadCounter
  <2> DEFINE c == [call[a] EXCEPT !.at = "second", !.read = counters[call[a].counter]]
  <2>2. /\ call' = [call EXCEPT ![a] = c]
        /\ UNCHANGED <<lock, counters, gauge, summary, finished>>
    BY <1>1, <2>1 DEF Metrics!LoadCounter, RegistrySound, RegistryTyped
  <2>3. counters[call[a].counter] \in Nat
    BY <2>1 DEF Increments, RegistrySound, RegistryTyped
  <2>4. /\ c \in Increments /\ c.op = "inc" /\ c.at = "second"
        /\ c.read = counters[c.counter]
    BY <2>1, <2>3 DEF Increments
  <2> HIDE DEF c
  <2>5. c \in Calls
    BY <2>4 DEF Calls
  <2>6. call'[a] = c /\ \A b \in Actors : b # a => call'[b] = call[b]
    BY <2>2 DEF RegistrySound, RegistryTyped
  <2>7. ReadHolds(a)'
    BY <2>2, <2>4, <2>6 DEF ReadHolds
  <2>8. ~ HalfDone
    BY <2>1, HalfIsMine
  <2>9. ~ HalfDone'
    BY <2>4, <2>6, <2>8 DEF HalfDone
  <2>10. SummarySound'
    BY <2>2, <2>8, <2>9 DEF RegistrySound, SummarySound, FitsCount
  <2>11. summary' \in Summaries
    BY <2>2 DEF RegistrySound, RegistryTyped
  <2> QED BY <2>1, <2>2, <2>4, <2>5, <2>7, <2>10, <2>11, Staying
<1>2. CASE Metrics!StoreCounter(a)
  <2>1. /\ call[a].op = "inc" /\ call[a].at = "second" /\ lock = a /\ call[a] \in Increments
    BY <1>2, AtFacts, CallFacts DEF Metrics!StoreCounter
  <2>2. /\ counters' = [counters EXCEPT ![call[a].counter] = call[a].read + 1]
        /\ finished' = [finished EXCEPT ![call[a].counter] = finished[call[a].counter] + 1]
        /\ lock' = Metrics!Free /\ call' = [call EXCEPT ![a] = Metrics!Idle]
        /\ UNCHANGED <<gauge, summary>>
    BY <1>2 DEF Metrics!StoreCounter, Metrics!Release
  <2>3. call[a].read = counters[call[a].counter] /\ counters = finished
    BY <2>1 DEF RegistrySound, ReadHolds
  <2>4. call[a].read + 1 \in Nat /\ call[a].counter \in Counters
    BY <2>1 DEF Increments
  <2>5. counters' \in [Counters -> Nat] /\ counters' = finished'
    BY <2>2, <2>3, <2>4 DEF RegistrySound, RegistryTyped
  <2>6. ~ HalfDone
    BY <2>1, HalfIsMine
  <2>7. /\ summary' = Metrics!Empty \/ summary'.count >= 1
        /\ FitsCount(summary.count)'
    BY <2>2, <2>6 DEF RegistrySound, SummarySound, FitsCount
  <2>8. gauge' \in Nat /\ summary' \in Summaries
    BY <2>2 DEF RegistrySound, RegistryTyped
  <2> QED BY <2>1, <2>2, <2>5, <2>7, <2>8, Leaving
<1> QED BY <1>1, <1>2

LEMMA Setting ==
  ASSUME RegistrySound, NEW a \in Actors, Metrics!StoreGauge(a)
  PROVE  RegistrySound'
<1>1. call[a].op = "set" /\ lock = a /\ call[a] \in Settings
  BY AtFacts, CallFacts DEF Metrics!StoreGauge
<1>2. /\ gauge' = call[a].value
      /\ lock' = Metrics!Free /\ call' = [call EXCEPT ![a] = Metrics!Idle]
      /\ UNCHANGED <<counters, summary, finished>>
  BY DEF Metrics!StoreGauge, Metrics!Release
<1>3. gauge' \in Nat
  BY <1>1, <1>2 DEF Settings
<1>4. ~ HalfDone
  BY <1>1, HalfIsMine
<1>5. /\ summary' = Metrics!Empty \/ summary'.count >= 1
      /\ FitsCount(summary.count)'
  BY <1>2, <1>4 DEF RegistrySound, SummarySound, FitsCount
<1>6. counters' \in [Counters -> Nat] /\ counters' = finished' /\ summary' \in Summaries
  BY <1>2 DEF RegistrySound, RegistryTyped
<1> QED BY <1>1, <1>2, <1>3, <1>5, <1>6, Leaving

LEMMA MinMaxOfTwo ==
  ASSUME NEW x \in Nat, NEW y \in Nat
  PROVE  /\ Metrics!Min({x, y}) \in Nat /\ Metrics!Min({x, y}) <= x /\ Metrics!Min({x, y}) <= y
         /\ Metrics!Max({x, y}) \in Nat /\ Metrics!Max({x, y}) >= x /\ Metrics!Max({x, y}) >= y
<1>1. \E z \in {x, y} : \A w \in {x, y} : z <= w
  BY x <= y \/ y <= x
<1>2. \E z \in {x, y} : \A w \in {x, y} : z >= w
  BY x <= y \/ y <= x
<1>3. Metrics!Min({x, y}) \in {x, y} /\ \A w \in {x, y} : Metrics!Min({x, y}) <= w
  BY <1>1 DEF Metrics!Min
<1>4. Metrics!Max({x, y}) \in {x, y} /\ \A w \in {x, y} : Metrics!Max({x, y}) >= w
  BY <1>2 DEF Metrics!Max
<1> QED BY <1>3, <1>4

LEMMA Times ==
  ASSUME NEW k \in Nat, NEW x \in Nat, NEW y \in Nat, x <= y
  PROVE  k * x <= k * y /\ (k + 1) * x = k * x + x /\ k * x \in Nat
<1>1. PICK d \in Nat : y = x + d
  BY y - x \in Nat /\ y = x + (y - x)
<1>2. k * (x + d) = k * x + k * d
  BY <1>1
<1>3. k * d \in Nat /\ k * x \in Nat
  BY <1>1
<1> QED BY <1>1, <1>2, <1>3

(* One more observation fits. *)
LEMMA OneMoreFits ==
  ASSUME NEW n \in Nat, NEW low \in Nat, NEW high \in Nat, NEW sum \in Nat, NEW v \in Nat,
         n * low <= sum, sum <= n * high
  PROVE  /\ (n + 1) * Metrics!Min({low, v}) <= sum + v
         /\ sum + v <= (n + 1) * Metrics!Max({high, v})
<1> DEFINE l == Metrics!Min({low, v})
           h == Metrics!Max({high, v})
<1>1. l \in Nat /\ l <= low /\ l <= v /\ h \in Nat /\ h >= high /\ h >= v
  BY MinMaxOfTwo
<1> HIDE DEF l, h
<1>2. n * l <= n * low /\ (n + 1) * l = n * l + l /\ n * l \in Nat
  BY <1>1, Times
<1>3. n * high <= n * h /\ n * high \in Nat
  BY <1>1, Times
<1>4. (n + 1) * h = n * h + h /\ n * h \in Nat
  BY <1>1, Times
<1>5. n * low \in Nat
  BY Times
<1>6. n * l + l <= sum + v
  BY <1>1, <1>2, <1>5
<1>7. sum + v <= n * h + h
  BY <1>1, <1>3, <1>4
<1>8. (n + 1) * l <= sum + v /\ sum + v <= (n + 1) * h
  BY <1>2, <1>4, <1>6, <1>7
<1> QED BY <1>8 DEF l, h

LEMMA Observing ==
  ASSUME RegistrySound, NEW a \in Actors,
         Metrics!FirstObservation(a) \/ Metrics!CountObservation(a) \/ Metrics!AddObservation(a)
  PROVE  RegistrySound'
<1>1. CASE Metrics!FirstObservation(a)
  <2> DEFINE v == call[a].value
  <2>1. call[a].op = "observe" /\ lock = a /\ v \in Nat
    <3>1. call[a].op = "observe" /\ lock = a /\ call[a] \in Observations
      BY <1>1, AtFacts, CallFacts DEF Metrics!FirstObservation
    <3> QED BY <3>1 DEF Observations
  <2>2. /\ summary' = [count |-> 1, sum |-> v, min |-> v, max |-> v]
        /\ lock' = Metrics!Free /\ call' = [call EXCEPT ![a] = Metrics!Idle]
        /\ UNCHANGED <<counters, gauge, finished>>
    BY <1>1 DEF Metrics!FirstObservation, Metrics!Release
  <2> HIDE DEF v
  <2>3. summary' \in Summaries
    BY <2>1, <2>2 DEF Summaries
  <2>4. summary'.count >= 1 /\ FitsCount(summary.count)'
    BY <2>1, <2>2 DEF FitsCount
  <2>5. counters' \in [Counters -> Nat] /\ counters' = finished' /\ gauge' \in Nat
    BY <2>2 DEF RegistrySound, RegistryTyped
  <2> QED BY <2>1, <2>2, <2>3, <2>4, <2>5, Leaving
<1>2. CASE Metrics!CountObservation(a)
  <2> DEFINE c == [call[a] EXCEPT !.at = "second"]
  <2>1. /\ call[a].op = "observe" /\ call[a].at = "first" /\ lock = a
        /\ call[a] \in Observations /\ summary # Metrics!Empty
    BY <1>2, AtFacts, CallFacts DEF Metrics!CountObservation
  <2>2. /\ summary' = [summary EXCEPT !.count = summary.count + 1]
        /\ call' = [call EXCEPT ![a] = c]
        /\ UNCHANGED <<lock, counters, gauge, finished>>
    BY <1>2 DEF Metrics!CountObservation
  <2>3. c \in Observations /\ c.op = "observe" /\ c.at = "second"
    BY <2>1 DEF Observations
  <2> HIDE DEF c
  <2>4. c \in Calls /\ call'[a] = c
    BY <2>2, <2>3 DEF Calls, RegistrySound, RegistryTyped
  <2>5. ~ HalfDone
    BY <2>1, HalfIsMine
  <2>6. HalfDone'
    BY <2>3, <2>4 DEF HalfDone
  <2>7. /\ summary \in Summaries /\ summary.count >= 1 /\ FitsCount(summary.count)
    BY <2>1, <2>5 DEF RegistrySound, RegistryTyped, SummarySound
  <2>8. /\ summary' \in Summaries /\ summary'.count = summary.count + 1
        /\ summary'.sum = summary.sum /\ summary'.min = summary.min /\ summary'.max = summary.max
    BY <2>2, <2>7 DEF Summaries
  <2>9. summary'.count >= 2 /\ summary'.count - 1 = summary.count
    BY <2>7, <2>8 DEF Summaries
  <2>10. FitsCount(summary.count - 1)'
    BY <2>7, <2>8, <2>9 DEF FitsCount
  <2>11. SummarySound'
    BY <2>6, <2>9, <2>10 DEF SummarySound
  <2>12. ReadHolds(a)'
    BY <2>3, <2>4 DEF ReadHolds
  <2> QED BY <2>1, <2>2, <2>3, <2>4, <2>8, <2>11, <2>12, Staying
<1>3. CASE Metrics!AddObservation(a)
  <2> DEFINE v == call[a].value
  <2>1. call[a].op = "observe" /\ call[a].at = "second" /\ lock = a /\ v \in Nat
    <3>1. /\ call[a].op = "observe" /\ call[a].at = "second" /\ lock = a
          /\ call[a] \in Observations
      BY <1>3, AtFacts, CallFacts DEF Metrics!AddObservation
    <3> QED BY <3>1 DEF Observations
  <2>2. /\ summary' = [summary EXCEPT !.sum = summary.sum + v,
                         !.min = Metrics!Min({summary.min, v}), !.max = Metrics!Max({summary.max, v})]
        /\ lock' = Metrics!Free /\ call' = [call EXCEPT ![a] = Metrics!Idle]
        /\ UNCHANGED <<counters, gauge, finished>>
    BY <1>3 DEF Metrics!AddObservation, Metrics!Release
  <2> HIDE DEF v
  <2>3. /\ summary \in Summaries /\ summary.count >= 2 /\ FitsCount(summary.count - 1)
    BY <2>1, HalfIsMine DEF RegistrySound, RegistryTyped, SummarySound
  <2>4. PICK n \in Nat : n + 1 = summary.count /\ summary.count - 1 = n
    BY <2>3 DEF Summaries
  <2>5. /\ summary.sum \in Nat /\ summary.min \in Nat /\ summary.max \in Nat /\ summary.count \in Nat
        /\ n * summary.min <= summary.sum /\ summary.sum <= n * summary.max
    BY <2>3, <2>4 DEF Summaries, FitsCount
  <2>6. PICK low \in Nat, high \in Nat :
          low = Metrics!Min({summary.min, v}) /\ high = Metrics!Max({summary.max, v})
    BY <2>1, <2>5, MinMaxOfTwo
  <2>7. /\ summary' \in Summaries /\ summary'.count = summary.count
        /\ summary'.sum = summary.sum + v /\ summary'.min = low /\ summary'.max = high
    <3>1. summary' = [summary EXCEPT !.sum = summary.sum + v, !.min = low, !.max = high]
      BY <2>2, <2>6
    <3>2. summary.sum + v \in Nat
      BY <2>1, <2>5
    <3> QED BY <2>3, <3>1, <3>2 DEF Summaries
  <2>8. /\ (n + 1) * Metrics!Min({summary.min, v}) <= summary.sum + v
        /\ summary.sum + v <= (n + 1) * Metrics!Max({summary.max, v})
    BY <2>1, <2>5, OneMoreFits
  <2>9. FitsCount(summary.count)'
    BY <2>4, <2>6, <2>7, <2>8 DEF FitsCount
  <2>10. summary'.count >= 1
    BY <2>3, <2>5, <2>7
  <2>11. counters' \in [Counters -> Nat] /\ counters' = finished' /\ gauge' \in Nat
    BY <2>2 DEF RegistrySound, RegistryTyped
  <2> QED BY <2>1, <2>2, <2>7, <2>9, <2>10, <2>11, Leaving
<1> QED BY <1>1, <1>2, <1>3

LEMMA Copying ==
  ASSUME RegistrySound, NEW a \in Actors, Metrics!CopyCounters(a) \/ Metrics!CopyRest(a)
  PROVE  RegistrySound'
<1>1. CASE Metrics!CopyCounters(a)
  <2> DEFINE c == [call[a] EXCEPT !.at = "second", !.text.counters = counters]
  <2>1. call[a].op = "render" /\ call[a].at = "first" /\ lock = a /\ call[a] \in Renderings
    BY <1>1, AtFacts, CallFacts DEF Metrics!CopyCounters
  <2>2. /\ call' = [call EXCEPT ![a] = c]
        /\ UNCHANGED <<lock, counters, gauge, summary, finished>>
    BY <1>1, <2>1 DEF Metrics!CopyCounters, RegistrySound, RegistryTyped
  <2>3. /\ c \in Renderings /\ c.op = "render" /\ c.at = "second"
        /\ c.text.counters = counters
    BY <2>1 DEF Renderings, Pages, RegistrySound, RegistryTyped
  <2> HIDE DEF c
  <2>4. c \in Calls
    BY <2>3 DEF Calls
  <2>5. call'[a] = c /\ \A b \in Actors : b # a => call'[b] = call[b]
    BY <2>2 DEF RegistrySound, RegistryTyped
  <2>6. ReadHolds(a)'
    BY <2>2, <2>3, <2>5 DEF ReadHolds
  <2>7. ~ HalfDone
    BY <2>1, HalfIsMine
  <2>8. ~ HalfDone'
    BY <2>3, <2>5, <2>7 DEF HalfDone
  <2>9. SummarySound'
    BY <2>2, <2>7, <2>8 DEF RegistrySound, SummarySound, FitsCount
  <2>10. summary' \in Summaries
    BY <2>2 DEF RegistrySound, RegistryTyped
  <2> QED BY <2>1, <2>2, <2>3, <2>4, <2>6, <2>9, <2>10, Staying
<1>2. CASE Metrics!CopyRest(a)
  <2>1. call[a].op = "render" /\ lock = a
    BY <1>2, AtFacts DEF Metrics!CopyRest
  <2>2. /\ lock' = Metrics!Free /\ call' = [call EXCEPT ![a] = Metrics!Idle]
        /\ UNCHANGED <<counters, gauge, summary, finished>>
    BY <1>2 DEF Metrics!CopyRest, Metrics!Release
  <2>3. ~ HalfDone
    BY <2>1, HalfIsMine
  <2>4. /\ summary' = Metrics!Empty \/ summary'.count >= 1
        /\ FitsCount(summary.count)'
    BY <2>2, <2>3 DEF RegistrySound, SummarySound, FitsCount
  <2>5. /\ counters' \in [Counters -> Nat] /\ counters' = finished' /\ gauge' \in Nat
        /\ summary' \in Summaries
    BY <2>2 DEF RegistrySound, RegistryTyped
  <2> QED BY <2>1, <2>2, <2>4, <2>5, Leaving
<1> QED BY <1>1, <1>2

(* Every statement keeps the registry sound. *)
LEMMA Stepping ==
  ASSUME RegistrySound, NEW a \in Actors, Metrics!Step(a)
  PROVE  RegistrySound'
BY Acquiring, Incrementing, Setting, Observing, Copying DEF Metrics!Step

(* And so does a step of the program that calls nothing. *)
LEMMA NotCalling ==
  ASSUME RegistrySound, UNCHANGED <<lock, counters, gauge, summary, call, finished>>
  PROVE  RegistrySound'
BY DEF RegistrySound, RegistryTyped, Exclusive, InSection, SummarySound, HalfDone, FitsCount,
       ReadHolds

-----------------------------------------------------------------------------
(* The process *)

One(b) == IF b THEN 1 ELSE 0

(* An increment that was called and is not stored, an observation that is  *)
(* called and not counted *)
Pending(a, c) == One(call[a].op = "inc" /\ call[a].counter = c)
Uncounted     == One(call["worker"].op = "observe" /\ call["worker"].at # "second")

(* Who calls what, and when *)
CallsFit ==
  /\ call["loop"].op \in {"none", "inc", "set", "render"}
  /\ call["loop"].op = "inc" => call["loop"].counter \in {"queued", "sync", "processed"}
  /\ call["sync"].op \in {"none", "inc"}
  /\ call["sync"].op = "inc" => call["sync"].counter = "llm"
  /\ call["worker"].op \in {"none", "inc", "observe"}
  /\ call["worker"].op = "inc" =>
       \/ call["worker"].counter = "reviews" /\ thread = "report"
       \/ call["worker"].counter = "llm" /\ thread = "llm"
       \/ call["worker"].counter = "posts" /\ thread \in {"commented", "observe"}
  /\ call["worker"].op = "observe" => thread = "returned"
  /\ scraping => call["loop"].op \in {"none", "set"}

TaskFits ==
  /\ thread \in {"off", "assess", "report", "llm", "commented", "observe", "returned", "raised"}
  /\ scraping \in BOOLEAN
  /\ task = "waiting" => thread = "off"

(* Nothing joins or leaves the queue from the depth to the page.           *)
DepthKnown ==
  /\ call["loop"].op = "set" => call["loop"].value = Len(queue)
  /\ (scraping /\ call["loop"].op = "none") => gauge = Len(queue)
  /\ call["loop"].op = "render" => gauge = Len(queue)

(* What waits and what is reviewed was counted, what was processed was     *)
(* timed, and what was timed was reviewed.                                 *)
CountsFit ==
  /\ Len(queue) + counters["reviews"] + Pending("worker", "reviews") + One(thread = "assess")
       <= counters["queued"] + Pending("loop", "queued")
  /\ counters["processed"] + Pending("loop", "processed") + One(thread = "returned")
       <= summary.count + Uncounted
  /\ summary.count + Uncounted + One(thread \in {"report", "llm", "commented", "observe"})
       <= counters["reviews"] + Pending("worker", "reviews")

QueueSound ==
  /\ queue \in Seq(Jobs) /\ begun \in Seq(Jobs)
  /\ Range(queue) \union Range(begun) \subseteq accepted

ProcessSound == CallsFit /\ TaskFits /\ DepthKnown /\ CountsFit

IInv == RegistrySound /\ QueueSound /\ ProcessSound /\ ScrapeAddsUp

-----------------------------------------------------------------------------
(* What a statement of the registry does, as its callers see it            *)

Moves(a) ==
  /\ call'[a].op = call[a].op /\ call[a].op # "none"
  /\ call[a].op = "inc" => call'[a].counter = call[a].counter
  /\ call[a].op = "set" => call'[a].value = call[a].value
  /\ call[a].op = "observe" => call[a].at # "second" /\ call'[a].at # "second"
  /\ UNCHANGED <<counters, gauge, summary>>

Increments1(a) ==
  /\ call[a].op = "inc" /\ call'[a].op = "none" /\ call[a].counter \in Counters
  /\ counters' = [counters EXCEPT ![call[a].counter] = counters[call[a].counter] + 1]
  /\ UNCHANGED <<gauge, summary>>

Sets(a) ==
  /\ call[a].op = "set" /\ call'[a].op = "none"
  /\ gauge' = call[a].value
  /\ UNCHANGED <<counters, summary>>

Observes(a) ==
  /\ call[a].op = "observe"
  /\ UNCHANGED <<counters, gauge>>
  /\ \/ /\ call[a].at # "second" /\ summary'.count = summary.count + 1
        /\ \/ call'[a].op = "none"
           \/ call'[a].op = "observe" /\ call'[a].at = "second"
     \/ /\ call[a].at = "second" /\ call'[a].op = "none"
        /\ summary'.count = summary.count

Shows(a) ==
  /\ call[a].op = "render" /\ call'[a].op = "none"
  /\ UNCHANGED <<counters, gauge, summary>>
  /\ page'.counters = counters /\ page'.gauge = gauge /\ page'.summary = summary
  /\ FitsCount(summary.count)

LEMMA StepSeen ==
  ASSUME RegistrySound, NEW a \in Actors, Metrics!Step(a)
  PROVE  /\ \A b \in Actors : b # a => call'[b] = call[b]
         /\ \/ page' = Metrics!Blank /\ (Moves(a) \/ Increments1(a) \/ Sets(a) \/ Observes(a))
            \/ Shows(a)
<1>1. call \in [Actors -> Calls] /\ call[a] \in Calls /\ summary \in Summaries
      /\ Metrics!Idle.op = "none"
  BY DEF RegistrySound, RegistryTyped, Metrics!Idle
<1>2. CASE Metrics!Acquire(a)
  <2>1. /\ call[a].op # "none" /\ call[a].at = "lock"
        /\ call' = [call EXCEPT ![a].at = "first"]
        /\ page' = Metrics!Blank /\ UNCHANGED <<counters, gauge, summary>>
    BY <1>1, <1>2, CallFacts DEF Metrics!Acquire
  <2>2. \/ call[a] \in Increments \/ call[a] \in Settings
        \/ call[a] \in Observations \/ call[a] \in Renderings
    BY <1>1, <2>1, CallFacts
  <2> QED BY <1>1, <2>1, <2>2 DEF Moves, Increments, Settings, Observations, Renderings
<1>3. CASE Metrics!LoadCounter(a)
  <2>1. call[a].op = "inc" /\ call[a] \in Increments
    BY <1>3, AtFacts, CallFacts DEF Metrics!LoadCounter
  <2> QED BY <1>1, <1>3, <2>1 DEF Metrics!LoadCounter, Moves, Increments
<1>4. CASE Metrics!StoreCounter(a)
  <2>1. /\ call[a].op = "inc" /\ call[a].at = "second" /\ lock = a /\ call[a] \in Increments
    BY <1>4, AtFacts, CallFacts DEF Metrics!StoreCounter
  <2>2. call[a].read = counters[call[a].counter] /\ call[a].counter \in Counters
    BY <2>1 DEF RegistrySound, ReadHolds, Increments
  <2> QED BY <1>1, <1>4, <2>1, <2>2 DEF Metrics!StoreCounter, Metrics!Release, Increments1
<1>5. CASE Metrics!StoreGauge(a)
  <2>1. call[a].op = "set"
    BY <1>5, AtFacts DEF Metrics!StoreGauge
  <2> QED BY <1>1, <1>5, <2>1 DEF Metrics!StoreGauge, Metrics!Release, Sets
<1>6. CASE Metrics!FirstObservation(a)
  <2>1. call[a].op = "observe" /\ call[a].at = "first" /\ summary.count = 0 /\ summary'.count = 1
    BY <1>6, AtFacts DEF Metrics!FirstObservation, Metrics!Empty
  <2>2. call' = [call EXCEPT ![a] = Metrics!Idle] /\ page' = Metrics!Blank
        /\ counters' = counters /\ gauge' = gauge
    BY <1>6 DEF Metrics!FirstObservation, Metrics!Release
  <2>3. call'[a].op = "none" /\ \A b \in Actors : b # a => call'[b] = call[b]
    BY <1>1, <2>2
  <2>4. summary'.count = summary.count + 1
    BY <2>1
  <2> QED BY <2>1, <2>2, <2>3, <2>4 DEF Observes
<1>7. CASE Metrics!CountObservation(a)
  <2>1. call[a].op = "observe" /\ call[a].at = "first" /\ call[a] \in Observations
    BY <1>7, AtFacts, CallFacts DEF Metrics!CountObservation
  <2>2. summary'.count = summary.count + 1
    BY <1>1, <1>7 DEF Metrics!CountObservation, Summaries
  <2> QED BY <1>1, <1>7, <2>1, <2>2 DEF Metrics!CountObservation, Observes, Observations
<1>8. CASE Metrics!AddObservation(a)
  <2>1. call[a].op = "observe" /\ call[a].at = "second"
    BY <1>8, AtFacts DEF Metrics!AddObservation
  <2>2. summary'.count = summary.count
    BY <1>1, <1>8 DEF Metrics!AddObservation, Summaries
  <2> QED BY <1>1, <1>8, <2>1, <2>2 DEF Metrics!AddObservation, Metrics!Release, Observes
<1>9. CASE Metrics!CopyCounters(a)
  <2>1. call[a].op = "render" /\ call[a] \in Renderings
    BY <1>9, AtFacts, CallFacts DEF Metrics!CopyCounters
  <2> QED BY <1>1, <1>9, <2>1 DEF Metrics!CopyCounters, Moves, Renderings
<1>10. CASE Metrics!CopyRest(a)
  <2>1. /\ call[a].op = "render" /\ call[a].at = "second" /\ lock = a /\ call[a] \in Renderings
    BY <1>10, AtFacts, CallFacts DEF Metrics!CopyRest
  <2>2. call[a].text.counters = counters /\ call[a].text \in Pages
    BY <2>1 DEF RegistrySound, ReadHolds, Renderings
  <2>3. FitsCount(summary.count)
    BY <2>1, HalfIsMine DEF RegistrySound, SummarySound
  <2>4. page'.counters = counters /\ page'.gauge = gauge /\ page'.summary = summary
    BY <1>10, <2>2 DEF Metrics!CopyRest, Pages
  <2> QED BY <1>1, <1>10, <2>1, <2>3, <2>4 DEF Metrics!CopyRest, Metrics!Release, Shows
<1> QED BY <1>2, <1>3, <1>4, <1>5, <1>6, <1>7, <1>8, <1>9, <1>10 DEF Metrics!Step

-----------------------------------------------------------------------------
(* The empty page adds up, and so does one whose registry does.            *)
LEMMA BlankAddsUp ==
  /\ page = Metrics!Blank => ScrapeAddsUp
  /\ page' = Metrics!Blank => ScrapeAddsUp'
BY DEF Metrics!Blank, ScrapeAddsUp, Metrics!SummaryFits, Metrics!Empty, Counters

(* The counters are numbers. *)
LEMMA CountersAreNumbers ==
  ASSUME RegistrySound
  PROVE  /\ \A c \in Counters : counters[c] \in Nat
         /\ summary.count \in Nat /\ gauge \in Nat
         /\ {"queued", "sync", "reviews", "llm", "posts", "processed"} = Counters
         /\ call \in [Actors -> Calls]
BY DEF RegistrySound, RegistryTyped, Summaries, Counters

(* A step of the registry while the program around it stands still         *)
LEMMA RegistryKeeps ==
  ASSUME IInv, NEW a \in Actors, RegistryStep(a)
  PROVE  ProcessSound' /\ ScrapeAddsUp'
<1>1. /\ UNCHANGED <<queue, task, thread, scraping>>
      /\ \A b \in Actors : b # a => call'[b] = call[b]
      /\ \/ page' = Metrics!Blank /\ (Moves(a) \/ Increments1(a) \/ Sets(a) \/ Observes(a))
         \/ Shows(a)
  BY StepSeen DEF IInv, RegistryStep, work
<1>2. /\ counters["queued"] \in Nat /\ counters["reviews"] \in Nat /\ counters["processed"] \in Nat
      /\ summary.count \in Nat /\ gauge \in Nat /\ Len(queue) \in Nat
      /\ counters \in [Counters -> Nat]
  BY CountersAreNumbers, LenProperties DEF IInv, QueueSound, RegistrySound, RegistryTyped
<1>3. a \in {"loop", "worker", "sync"} /\ {"loop", "worker", "sync"} = Actors
  BY DEF Actors
<1>4. CallsFit /\ TaskFits /\ DepthKnown /\ CountsFit
  BY DEF IInv, ProcessSound
<1>5. TaskFits'
  BY <1>1, <1>4 DEF TaskFits
<1>6. CallsFit'
  <2>1. call'[a].op \in {"none", call[a].op}
        /\ (call'[a].op = "inc" => call'[a].counter = call[a].counter)
    BY <1>1 DEF Moves, Increments1, Sets, Observes, Shows
  <2> QED BY <1>1, <1>3, <1>4, <2>1 DEF CallsFit
<1>7. DepthKnown'
  <2>1. CASE a = "loop"
    <3>1. CASE Moves(a)
      BY <1>1, <1>4, <2>1, <3>1 DEF DepthKnown, Moves
    <3>2. CASE Increments1(a)
      BY <1>1, <1>4, <2>1, <3>2 DEF DepthKnown, CallsFit, Increments1
    <3>3. CASE Sets(a)
      BY <1>1, <1>4, <2>1, <3>3 DEF DepthKnown, Sets
    <3>4. CASE Observes(a)
      BY <1>4, <2>1, <3>4 DEF CallsFit, Observes
    <3>5. CASE Shows(a)
      BY <1>1, <1>4, <2>1, <3>5 DEF DepthKnown, CallsFit, Shows
    <3> QED BY <1>1, <3>1, <3>2, <3>3, <3>4, <3>5
  <2>2. CASE a # "loop"
    <3>1. gauge' = gauge /\ call'["loop"] = call["loop"]
      BY <1>1, <1>3, <1>4, <2>2 DEF Moves, Increments1, Sets, Observes, Shows, CallsFit
    <3> QED BY <1>1, <1>4, <3>1 DEF DepthKnown
  <2> QED BY <2>1, <2>2
<1>8. CountsFit'
  <2>1. CASE a = "loop"
    <3>1. call'["worker"] = call["worker"] /\ summary' = summary
      BY <1>1, <1>3, <1>4, <2>1 DEF Moves, Increments1, Sets, Observes, Shows, CallsFit
    <3>2. CASE Increments1(a)
      <4>1. /\ call["loop"].counter \in {"queued", "sync", "processed"}
            /\ call'["loop"].op = "none" /\ call["loop"].op = "inc"
            /\ counters' = [counters EXCEPT ![call["loop"].counter]
                              = counters[call["loop"].counter] + 1]
        BY <1>4, <2>1, <3>2 DEF Increments1, CallsFit
      <4>2. /\ Pending("loop", "queued")' = 0 /\ Pending("loop", "processed")' = 0
            /\ counters'["queued"] = counters["queued"] + Pending("loop", "queued")
            /\ counters'["processed"] = counters["processed"] + Pending("loop", "processed")
            /\ counters'["reviews"] = counters["reviews"]
        BY <1>2, <4>1 DEF Pending, One, Counters
      <4>3. /\ Pending("worker", "reviews")' = Pending("worker", "reviews")
            /\ Uncounted' = Uncounted
        BY <3>1 DEF Pending, Uncounted
      <4>4. counters'["queued"] \in Nat /\ counters'["processed"] \in Nat
        BY <1>2, <4>2 DEF Pending, One
      <4> QED BY <1>1, <1>2, <1>4, <3>1, <4>2, <4>3, <4>4 DEF CountsFit
    <3>3. CASE ~ Increments1(a)
      <4>1. counters' = counters
        BY <1>1, <3>3 DEF Moves, Sets, Observes, Shows
      <4>2. Pending("loop", "queued")' = Pending("loop", "queued")
            /\ Pending("loop", "processed")' = Pending("loop", "processed")
        BY <1>1, <1>4, <2>1, <3>3 DEF Moves, Sets, Observes, Shows, Pending, One, CallsFit
      <4>3. Pending("worker", "reviews")' = Pending("worker", "reviews")
            /\ Uncounted' = Uncounted
        BY <3>1 DEF Pending, Uncounted
      <4> QED BY <1>1, <1>4, <3>1, <4>1, <4>2, <4>3 DEF CountsFit
    <3> QED BY <3>2, <3>3
  <2>2. CASE a = "worker"
    <3>1. call'["loop"] = call["loop"]
      BY <1>1, <1>3, <2>2
    <3>2. CASE Increments1(a)
      <4>1. /\ call["worker"].counter \in {"reviews", "llm", "posts"}
            /\ call'["worker"].op = "none" /\ call["worker"].op = "inc"
            /\ counters' = [counters EXCEPT ![call["worker"].counter]
                              = counters[call["worker"].counter] + 1]
            /\ summary' = summary
        BY <1>4, <2>2, <3>2 DEF Increments1, CallsFit
      <4>2. /\ Pending("worker", "reviews")' = 0 /\ Uncounted' = 0 /\ Uncounted = 0
            /\ counters'["reviews"] = counters["reviews"] + Pending("worker", "reviews")
            /\ counters'["queued"] = counters["queued"]
            /\ counters'["processed"] = counters["processed"]
        BY <1>2, <4>1 DEF Pending, Uncounted, One, Counters
      <4>3. /\ Pending("loop", "queued")' = Pending("loop", "queued")
            /\ Pending("loop", "processed")' = Pending("loop", "processed")
        BY <3>1 DEF Pending
      <4>4. Pending("worker", "reviews") \in {0, 1}
        BY DEF Pending, One
      <4> QED BY <1>1, <1>2, <1>4, <4>1, <4>2, <4>3, <4>4 DEF CountsFit
    <3>3. CASE Observes(a)
      <4>1. /\ counters' = counters /\ call["worker"].op = "observe"
            /\ call'["worker"].op = "none" \/
                 (call'["worker"].op = "observe" /\ call'["worker"].at = "second")
        BY <2>2, <3>3 DEF Observes
      <4>2. summary'.count + Uncounted' = summary.count + Uncounted
        BY <1>2, <2>2, <3>3 DEF Observes, Uncounted, One
      <4>3. Pending("worker", "reviews")' = 0 /\ Pending("worker", "reviews") = 0
        BY <4>1 DEF Pending, One
      <4>4. Pending("loop", "queued")' = Pending("loop", "queued")
            /\ Pending("loop", "processed")' = Pending("loop", "processed")
        BY <3>1 DEF Pending
      <4> QED BY <1>1, <1>4, <4>1, <4>2, <4>3, <4>4 DEF CountsFit
    <3>4. CASE Moves(a)
      <4>1. /\ counters' = counters /\ summary' = summary
            /\ Pending("worker", "reviews")' = Pending("worker", "reviews")
            /\ Uncounted' = Uncounted
        BY <2>2, <3>4 DEF Moves, Pending, Uncounted, One
      <4>2. Pending("loop", "queued")' = Pending("loop", "queued")
            /\ Pending("loop", "processed")' = Pending("loop", "processed")
        BY <3>1 DEF Pending
      <4> QED BY <1>1, <1>4, <4>1, <4>2 DEF CountsFit
    <3>5. ~ Sets(a) /\ ~ Shows(a)
      BY <1>4, <2>2 DEF Sets, Shows, CallsFit
    <3> QED BY <1>1, <3>2, <3>3, <3>4, <3>5
  <2>3. CASE a = "sync"
    <3>1. call'["loop"] = call["loop"] /\ call'["worker"] = call["worker"] /\ summary' = summary
      BY <1>1, <1>3, <1>4, <2>3 DEF Moves, Increments1, Sets, Observes, Shows, CallsFit
    <3>2. /\ counters'["queued"] = counters["queued"] /\ counters'["reviews"] = counters["reviews"]
          /\ counters'["processed"] = counters["processed"]
      BY <1>1, <1>2, <1>4, <2>3 DEF Moves, Increments1, Sets, Observes, Shows, CallsFit, Counters
    <3> QED BY <1>1, <1>4, <3>1, <3>2 DEF CountsFit, Pending, Uncounted
  <2> QED BY <1>3, <2>1, <2>2, <2>3
<1>9. ScrapeAddsUp'
  <2>1. CASE page' = Metrics!Blank
    BY <2>1, BlankAddsUp
  <2>2. CASE Shows(a)
    <3>1. a = "loop"
      BY <1>3, <1>4, <2>2 DEF Shows, CallsFit
    <3>2. call["loop"].op = "render" /\ gauge = Len(queue)
      BY <1>4, <2>2, <3>1 DEF Shows, DepthKnown
    <3>3. Pending("loop", "queued") = 0 /\ Pending("loop", "processed") = 0
      BY <3>2 DEF Pending, One
    <3>4. Len(queue) + counters["reviews"] <= counters["queued"]
      BY <1>2, <1>4, <3>3 DEF CountsFit, Pending, One
    <3>5. counters["processed"] <= summary.count
      BY <1>2, <1>4, <3>3 DEF CountsFit, CallsFit, Uncounted, One
    <3>6. summary.count <= counters["reviews"]
      BY <1>2, <1>4 DEF CountsFit, CallsFit, Pending, Uncounted, One
    <3>7. /\ page'.counters = counters /\ page'.gauge = gauge /\ page'.summary = summary
          /\ FitsCount(summary.count)
      BY <2>2 DEF Shows
    <3> QED BY <3>2, <3>4, <3>5, <3>6, <3>7 DEF ScrapeAddsUp, Metrics!SummaryFits, FitsCount
  <2> QED BY <1>1, <2>1, <2>2
<1> QED BY <1>5, <1>6, <1>7, <1>8, <1>9 DEF ProcessSound

-----------------------------------------------------------------------------
(* The steps of the program *)

(* What a program step that calls, or not, leaves of the registry          *)
LEMMA CallSeen ==
  ASSUME RegistrySound, NEW a \in Actors, NEW c \in Calls, c.op # "none", c.at = "lock",
         Metrics!Call(a, c)
  PROVE  /\ RegistrySound' /\ ScrapeAddsUp'
         /\ call[a].op = "none" /\ call'[a] = c
         /\ \A b \in Actors : b # a => call'[b] = call[b]
         /\ UNCHANGED <<counters, gauge, summary>>
<1>1. RegistrySound'
  BY Calling
<1>2. call[a].op = "none" /\ call' = [call EXCEPT ![a] = c] /\ page' = Metrics!Blank
      /\ UNCHANGED <<counters, gauge, summary>>
  BY DEF Metrics!Call, Metrics!Idle
<1> QED BY <1>1, <1>2, BlankAddsUp DEF RegistrySound, RegistryTyped

LEMMA NoCallSeen ==
  ASSUME RegistrySound, Metrics!NoCall
  PROVE  RegistrySound' /\ ScrapeAddsUp' /\ UNCHANGED <<counters, gauge, summary, call>>
<1>1. page' = Metrics!Blank /\ UNCHANGED <<lock, counters, gauge, summary, call, finished>>
  BY DEF Metrics!NoCall
<1> QED BY <1>1, NotCalling, BlankAddsUp

(* The calls of the program are calls *)
LEMMA CallsMade ==
  /\ \A c \in Counters : LET inc == Metrics!CounterInc(c)
       IN inc \in Calls /\ inc.op = "inc" /\ inc.at = "lock" /\ inc.counter = c
  /\ \A v \in Nat : LET set == Metrics!GaugeSet(v)
       IN set \in Calls /\ set.op = "set" /\ set.at = "lock" /\ set.value = v
  /\ \A v \in Nat : LET observation == Metrics!Observe(v)
       IN observation \in Calls /\ observation.op = "observe" /\ observation.at = "lock"
  /\ Metrics!Render \in Calls /\ Metrics!Render.op = "render" /\ Metrics!Render.at = "lock"
<1>1. \A c \in Counters : Metrics!CounterInc(c) \in Increments
  BY DEF Metrics!CounterInc, Increments
<1>2. \A v \in Nat : Metrics!GaugeSet(v) \in Settings
  BY DEF Metrics!GaugeSet, Settings
<1>3. \A v \in Nat : Metrics!Observe(v) \in Observations
  BY DEF Metrics!Observe, Observations
<1>4. Metrics!Render \in Renderings
  BY DEF Metrics!Render, Renderings, Metrics!Blank, Pages, Metrics!Empty, Summaries
<1> QED BY <1>1, <1>2, <1>3, <1>4
  DEF Calls, Metrics!CounterInc, Metrics!GaugeSet, Metrics!Observe, Metrics!Render

(* Requests *)
Synchronous == BeginSync \/ SyncAsksLLM \/ SyncReturns \/ EndSync \/ FailSync

LEMMA Requests ==
  ASSUME IInv, (\E j \in Jobs : Enqueue(j)) \/ Synchronous
  PROVE  IInv'
<1>1. /\ RegistrySound /\ ScrapeAddsUp /\ QueueSound
      /\ CallsFit /\ TaskFits /\ DepthKnown /\ CountsFit
  BY DEF IInv, ProcessSound
<1>2. /\ {"loop", "worker", "sync"} = Actors
      /\ {"queued", "sync", "reviews", "llm", "posts", "processed"} = Counters
      /\ counters["queued"] \in Nat /\ counters["reviews"] \in Nat /\ counters["processed"] \in Nat
      /\ summary.count \in Nat /\ Len(queue) \in Nat
  BY <1>1, CountersAreNumbers, LenProperties DEF Actors, QueueSound
<1>3. ASSUME NEW j \in Jobs, Enqueue(j) PROVE IInv'
  <2>1. /\ queue' = Append(queue, j) /\ accepted' = accepted \union {j} /\ ~ scraping
        /\ Metrics!Call("loop", Metrics!CounterInc("queued"))
        /\ UNCHANGED <<task, thread, scraping, begun>>
    BY <1>3 DEF Enqueue, LoopFree
  <2>2. /\ RegistrySound' /\ ScrapeAddsUp'
        /\ call["loop"].op = "none" /\ call'["loop"].op = "inc" /\ call'["loop"].counter = "queued"
        /\ call'["worker"] = call["worker"] /\ call'["sync"] = call["sync"]
        /\ UNCHANGED <<counters, gauge, summary>>
    <3> DEFINE c == Metrics!CounterInc("queued")
    <3>1. c \in Calls /\ c.op = "inc" /\ c.at = "lock" /\ c.counter = "queued"
      BY <1>2, CallsMade
    <3> HIDE DEF c
    <3>2. Metrics!Call("loop", c)
      BY <2>1 DEF c
    <3> QED BY <1>1, <1>2, <3>1, <3>2, CallSeen
  <2>3. /\ queue' \in Seq(Jobs) /\ Len(queue') = Len(queue) + 1
        /\ Range(queue') = Range(queue) \union {j}
    BY <1>1, <2>1, AppendRange, AppendProperties DEF QueueSound
  <2>4. QueueSound'
    BY <1>1, <2>1, <2>3 DEF QueueSound
  <2>5. CallsFit' /\ TaskFits' /\ DepthKnown'
    BY <1>1, <2>1, <2>2 DEF CallsFit, TaskFits, DepthKnown
  <2>6. CountsFit'
    <3>1. /\ Pending("loop", "queued")' = 1 /\ Pending("loop", "queued") = 0
          /\ Pending("loop", "processed")' = 0 /\ Pending("loop", "processed") = 0
      BY <2>2 DEF Pending, One
    <3>2. /\ Pending("worker", "reviews")' = Pending("worker", "reviews")
          /\ Uncounted' = Uncounted /\ thread' = thread
      BY <2>1, <2>2 DEF Pending, Uncounted
    <3>3. /\ One(thread = "assess")' = One(thread = "assess")
          /\ One(thread = "returned")' = One(thread = "returned")
          /\ One(thread \in {"report", "llm", "commented", "observe"})'
               = One(thread \in {"report", "llm", "commented", "observe"})
      BY <3>2
    <3>4. /\ Pending("worker", "reviews") \in {0, 1} /\ One(thread = "assess") \in {0, 1}
      BY DEF Pending, One
    <3>5. /\ Len(queue) + counters["reviews"] + Pending("worker", "reviews")
               + One(thread = "assess") <= counters["queued"]
      BY <1>1, <1>2, <3>1, <3>4 DEF CountsFit
    <3>6. /\ Len(queue') + counters'["reviews"] + Pending("worker", "reviews")'
               + One(thread = "assess")' <= counters'["queued"] + Pending("loop", "queued")'
      BY <1>2, <2>2, <2>3, <3>1, <3>2, <3>3, <3>4, <3>5
    <3>7. counters' = counters /\ summary' = summary
      BY <2>2
    <3> QED BY <1>1, <3>1, <3>2, <3>3, <3>6, <3>7 DEF CountsFit
  <2> QED BY <2>2, <2>4, <2>5, <2>6 DEF IInv, ProcessSound
<1>4. CASE BeginSync \/ SyncReturns \/ FailSync
  <2>1. /\ UNCHANGED <<queue, task, thread, scraping, accepted, begun>> /\ Metrics!NoCall
    BY <1>4 DEF BeginSync, SyncReturns, FailSync, work, history
  <2>2. RegistrySound' /\ ScrapeAddsUp' /\ UNCHANGED <<counters, gauge, summary, call>>
    BY <1>1, <2>1, NoCallSeen
  <2>3. ProcessSound' /\ QueueSound'
    BY <1>1, <2>1, <2>2
       DEF ProcessSound, CallsFit, TaskFits, DepthKnown, CountsFit, Pending, Uncounted, QueueSound
  <2> QED BY <2>2, <2>3 DEF IInv
<1>5. CASE SyncAsksLLM
  <2>1. /\ UNCHANGED <<queue, task, thread, scraping, accepted, begun>>
        /\ Metrics!Call("sync", Metrics!CounterInc("llm"))
    BY <1>5 DEF SyncAsksLLM, Asks, work, history
  <2>2. /\ RegistrySound' /\ ScrapeAddsUp'
        /\ call'["sync"].op = "inc" /\ call'["sync"].counter = "llm"
        /\ call'["worker"] = call["worker"] /\ call'["loop"] = call["loop"]
        /\ UNCHANGED <<counters, gauge, summary>>
    <3> DEFINE c == Metrics!CounterInc("llm")
    <3>1. c \in Calls /\ c.op = "inc" /\ c.at = "lock" /\ c.counter = "llm"
      BY <1>2, CallsMade
    <3> HIDE DEF c
    <3>2. Metrics!Call("sync", c)
      BY <2>1 DEF c
    <3> QED BY <1>1, <1>2, <3>1, <3>2, CallSeen
  <2>3. ProcessSound' /\ QueueSound'
    BY <1>1, <2>1, <2>2
       DEF ProcessSound, CallsFit, TaskFits, DepthKnown, CountsFit, Pending, Uncounted, QueueSound
  <2> QED BY <2>2, <2>3 DEF IInv
<1>6. CASE EndSync
  <2>1. /\ UNCHANGED <<queue, task, thread, scraping, accepted, begun>> /\ ~ scraping
        /\ Metrics!Call("loop", Metrics!CounterInc("sync"))
    BY <1>6 DEF EndSync, work, history, LoopFree
  <2>2. /\ RegistrySound' /\ ScrapeAddsUp'
        /\ call["loop"].op = "none" /\ call'["loop"].op = "inc" /\ call'["loop"].counter = "sync"
        /\ call'["worker"] = call["worker"] /\ call'["sync"] = call["sync"]
        /\ UNCHANGED <<counters, gauge, summary>>
    <3> DEFINE c == Metrics!CounterInc("sync")
    <3>1. c \in Calls /\ c.op = "inc" /\ c.at = "lock" /\ c.counter = "sync"
      BY <1>2, CallsMade
    <3> HIDE DEF c
    <3>2. Metrics!Call("loop", c)
      BY <2>1 DEF c
    <3> QED BY <1>1, <1>2, <3>1, <3>2, CallSeen
  <2>3. CountsFit'
    BY <1>1, <1>2, <2>1, <2>2 DEF CountsFit, Pending, Uncounted, One
  <2>4. CallsFit' /\ TaskFits' /\ DepthKnown' /\ QueueSound'
    BY <1>1, <2>1, <2>2 DEF CallsFit, TaskFits, DepthKnown, QueueSound
  <2> QED BY <2>2, <2>3, <2>4 DEF IInv, ProcessSound
<1> QED BY <1>3, <1>4, <1>5, <1>6 DEF Synchronous

(* /metrics *)
LEMMA Scraping ==
  ASSUME IInv, SetDepth \/ RenderPage
  PROVE  IInv'
<1>1. /\ RegistrySound /\ ScrapeAddsUp /\ QueueSound
      /\ CallsFit /\ TaskFits /\ DepthKnown /\ CountsFit
  BY DEF IInv, ProcessSound
<1>2. {"loop", "worker", "sync"} = Actors /\ Len(queue) \in Nat
  BY <1>1, LenProperties DEF Actors, QueueSound
<1>3. CASE SetDepth
  <2> DEFINE c == Metrics!GaugeSet(Len(queue))
  <2>1. /\ UNCHANGED <<queue, task, thread, accepted, begun>> /\ scraping' = TRUE
        /\ Metrics!Call("loop", c)
    BY <1>3 DEF SetDepth, work, history
  <2>2. c \in Calls /\ c.op = "set" /\ c.at = "lock" /\ c.value = Len(queue)
    BY <1>2, CallsMade
  <2> HIDE DEF c
  <2>3. /\ RegistrySound' /\ ScrapeAddsUp'
        /\ call["loop"].op = "none" /\ call'["loop"] = c
        /\ call'["worker"] = call["worker"] /\ call'["sync"] = call["sync"]
        /\ UNCHANGED <<counters, gauge, summary>>
    BY <1>1, <1>2, <2>1, <2>2, CallSeen
  <2>4. CountsFit'
    BY <1>1, <2>1, <2>2, <2>3 DEF CountsFit, Pending, Uncounted, One
  <2>5. CallsFit' /\ DepthKnown'
    BY <1>1, <2>1, <2>2, <2>3 DEF CallsFit, DepthKnown
  <2>6. TaskFits' /\ QueueSound'
    BY <1>1, <2>1 DEF TaskFits, QueueSound
  <2> QED BY <2>3, <2>4, <2>5, <2>6 DEF IInv, ProcessSound
<1>4. CASE RenderPage
  <2> DEFINE c == Metrics!Render
  <2>1. /\ UNCHANGED <<queue, task, thread, accepted, begun>> /\ scraping /\ scraping' = FALSE
        /\ Metrics!Call("loop", c)
    BY <1>4 DEF RenderPage, work, history
  <2>2. c \in Calls /\ c.op = "render" /\ c.at = "lock"
    BY CallsMade
  <2> HIDE DEF c
  <2>3. /\ RegistrySound' /\ ScrapeAddsUp'
        /\ call["loop"].op = "none" /\ call'["loop"] = c
        /\ call'["worker"] = call["worker"] /\ call'["sync"] = call["sync"]
        /\ UNCHANGED <<counters, gauge, summary>>
    BY <1>1, <1>2, <2>1, <2>2, CallSeen
  <2>4. CountsFit'
    BY <1>1, <2>1, <2>2, <2>3 DEF CountsFit, Pending, Uncounted, One
  <2>5. CallsFit' /\ DepthKnown'
    BY <1>1, <2>1, <2>2, <2>3 DEF CallsFit, DepthKnown
  <2>6. TaskFits' /\ QueueSound'
    BY <1>1, <2>1 DEF TaskFits, QueueSound
  <2> QED BY <2>3, <2>4, <2>5, <2>6 DEF IInv, ProcessSound
<1> QED BY <1>3, <1>4

(* The worker takes a job, and lets go of it. *)
LEMMA Taking ==
  ASSUME IInv, Dequeue \/ AckAndCount \/ Continue \/ Cancel
  PROVE  IInv'
<1>1. /\ RegistrySound /\ ScrapeAddsUp /\ QueueSound
      /\ CallsFit /\ TaskFits /\ DepthKnown /\ CountsFit
  BY DEF IInv, ProcessSound
<1>2. /\ {"loop", "worker", "sync"} = Actors
      /\ {"queued", "sync", "reviews", "llm", "posts", "processed"} = Counters
      /\ counters["queued"] \in Nat /\ counters["reviews"] \in Nat /\ counters["processed"] \in Nat
      /\ summary.count \in Nat /\ Len(queue) \in Nat
  BY <1>1, CountersAreNumbers, LenProperties DEF Actors, QueueSound
<1>3. CASE Dequeue
  <2>1. /\ queue # << >> /\ queue' = Tail(queue) /\ begun' = Append(begun, Head(queue))
        /\ task = "waiting" /\ task' = "busy" /\ thread' = "assess" /\ ~ scraping
        /\ call["loop"] = Metrics!Idle /\ Metrics!NoCall /\ UNCHANGED <<scraping, accepted>>
    BY <1>3 DEF Dequeue, LoopFree
  <2>2. RegistrySound' /\ ScrapeAddsUp' /\ UNCHANGED <<counters, gauge, summary, call>>
    BY <1>1, <2>1, NoCallSeen
  <2>3. /\ Head(queue) \in Jobs /\ queue' \in Seq(Jobs) /\ Len(queue') = Len(queue) - 1
        /\ Range(queue) = {Head(queue)} \union Range(queue')
    BY <1>1, <2>1, HeadTailRange DEF QueueSound
  <2>4. begun' \in Seq(Jobs) /\ Range(begun') = Range(begun) \union {Head(queue)}
    BY <1>1, <2>1, <2>3, AppendRange, AppendProperties DEF QueueSound
  <2>5. QueueSound'
    BY <1>1, <2>1, <2>3, <2>4 DEF QueueSound
  <2>6. CallsFit' /\ TaskFits' /\ thread = "off"
    BY <1>1, <2>1, <2>2 DEF CallsFit, TaskFits
  <2>7. DepthKnown'
    BY <2>1, <2>2 DEF DepthKnown, Metrics!Idle
  <2>8. CountsFit'
    <3>1. /\ One(thread = "assess") = 0 /\ One(thread = "assess")' = 1
          /\ One(thread = "returned") = 0 /\ One(thread = "returned")' = 0
          /\ One(thread \in {"report", "llm", "commented", "observe"}) = 0
          /\ One(thread \in {"report", "llm", "commented", "observe"})' = 0
      BY <2>1, <2>6 DEF One
    <3>2. /\ Pending("worker", "reviews")' = Pending("worker", "reviews")
          /\ Pending("loop", "queued")' = Pending("loop", "queued")
          /\ Pending("loop", "processed")' = Pending("loop", "processed")
          /\ Uncounted' = Uncounted
      BY <2>2 DEF Pending, Uncounted
    <3>3. Pending("worker", "reviews") \in {0, 1} /\ Pending("loop", "queued") \in {0, 1}
      BY DEF Pending, One
    <3> QED BY <1>1, <1>2, <2>2, <2>3, <3>1, <3>2, <3>3 DEF CountsFit
  <2> QED BY <2>2, <2>5, <2>6, <2>7, <2>8 DEF IInv, ProcessSound
<1>4. CASE AckAndCount
  <2> DEFINE c == Metrics!CounterInc("processed")
  <2>1. /\ UNCHANGED <<queue, accepted, begun, scraping>> /\ ~ scraping
        /\ thread = "returned" /\ call["worker"] = Metrics!Idle
        /\ task' = "waiting" /\ thread' = "off"
        /\ Metrics!Call("loop", c)
    BY <1>4 DEF AckAndCount, ThreadReady, LoopFree, history
  <2>2. c \in Calls /\ c.op = "inc" /\ c.at = "lock" /\ c.counter = "processed"
    BY <1>2, CallsMade
  <2> HIDE DEF c
  <2>3. /\ RegistrySound' /\ ScrapeAddsUp'
        /\ call["loop"].op = "none" /\ call'["loop"] = c
        /\ call'["worker"] = call["worker"] /\ call'["sync"] = call["sync"]
        /\ UNCHANGED <<counters, gauge, summary>>
    BY <1>1, <1>2, <2>1, <2>2, CallSeen
  <2>4. call["worker"].op = "none"
    BY <2>1 DEF Metrics!Idle
  <2>5. CountsFit'
    BY <1>1, <1>2, <2>1, <2>2, <2>3, <2>4 DEF CountsFit, Pending, Uncounted, One
  <2>6. CallsFit' /\ DepthKnown' /\ TaskFits' /\ QueueSound'
    BY <1>1, <2>1, <2>2, <2>3, <2>4 DEF CallsFit, DepthKnown, TaskFits, QueueSound
  <2> QED BY <2>3, <2>5, <2>6 DEF IInv, ProcessSound
<1>5. CASE Continue
  <2>1. /\ UNCHANGED <<queue, accepted, begun, scraping>>
        /\ thread = "raised" /\ task' = "waiting" /\ thread' = "off" /\ Metrics!NoCall
    BY <1>5 DEF Continue, history
  <2>2. RegistrySound' /\ ScrapeAddsUp' /\ UNCHANGED <<counters, gauge, summary, call>>
    BY <1>1, <2>1, NoCallSeen
  <2>3. ProcessSound' /\ QueueSound'
    BY <1>1, <2>1, <2>2
       DEF ProcessSound, CallsFit, TaskFits, DepthKnown, CountsFit, Pending, Uncounted, One,
           QueueSound
  <2> QED BY <2>2, <2>3 DEF IInv
<1>6. CASE Cancel
  <2>1. /\ UNCHANGED <<queue, accepted, begun, scraping, thread>>
        /\ task' = "cancelled" /\ Metrics!NoCall
    BY <1>6 DEF Cancel, history
  <2>2. RegistrySound' /\ ScrapeAddsUp' /\ UNCHANGED <<counters, gauge, summary, call>>
    BY <1>1, <2>1, NoCallSeen
  <2>3. ProcessSound' /\ QueueSound'
    BY <1>1, <2>1, <2>2
       DEF ProcessSound, CallsFit, TaskFits, DepthKnown, CountsFit, Pending, Uncounted, QueueSound
  <2> QED BY <2>2, <2>3 DEF IInv
<1> QED BY <1>3, <1>4, <1>5, <1>6

(* The thread of a review *)
LEMMA Reviewing ==
  ASSUME IInv, WorkerThread \/ ReviewRaises
  PROVE  IInv'
<1>1. /\ RegistrySound /\ ScrapeAddsUp /\ QueueSound
      /\ CallsFit /\ TaskFits /\ DepthKnown /\ CountsFit
  BY DEF IInv, ProcessSound
<1>2. /\ {"loop", "worker", "sync"} = Actors
      /\ {"queued", "sync", "reviews", "llm", "posts", "processed"} = Counters
      /\ counters["queued"] \in Nat /\ counters["reviews"] \in Nat /\ counters["processed"] \in Nat
      /\ summary.count \in Nat /\ Len(queue) \in Nat
  BY <1>1, CountersAreNumbers, LenProperties DEF Actors, QueueSound
<1>3. UNCHANGED <<queue, task, scraping, accepted, begun>> /\ call["worker"].op = "none"
  BY DEF WorkerThread, CountReview, ReportAsksLLM, PostComment, PostCheckRun, EndReport,
         ObserveDuration, ReviewRaises, InReport, ThreadReady, history, Metrics!Idle
<1>4. QueueSound' /\ (thread # "off" => task # "waiting")
  BY <1>1, <1>3 DEF QueueSound, TaskFits
<1>5. ASSUME NEW c \in Calls, c.op \in {"inc", "observe"}, c.at = "lock",
             Metrics!Call("worker", c),
             \/ /\ thread = "assess" /\ thread' = "report"
                /\ c.op = "inc" /\ c.counter = "reviews"
             \/ /\ thread \in {"report", "llm"} /\ thread' = "llm"
                /\ c.op = "inc" /\ c.counter = "llm"
             \/ /\ thread \in {"report", "llm", "commented"}
                /\ thread' \in {"commented", "observe"}
                /\ c.op = "inc" /\ c.counter = "posts"
             \/ thread = "observe" /\ thread' = "returned" /\ c.op = "observe"
      PROVE  IInv'
  <2>1. /\ RegistrySound' /\ ScrapeAddsUp' /\ call'["worker"] = c
        /\ call'["loop"] = call["loop"] /\ call'["sync"] = call["sync"]
        /\ UNCHANGED <<counters, gauge, summary>>
    BY <1>1, <1>2, <1>5, CallSeen
  <2>2. CallsFit' /\ DepthKnown' /\ TaskFits'
    BY <1>1, <1>3, <1>4, <1>5, <2>1 DEF CallsFit, DepthKnown, TaskFits
  <2>3. CountsFit'
    <3>1. /\ Pending("loop", "queued")' = Pending("loop", "queued")
          /\ Pending("loop", "processed")' = Pending("loop", "processed")
          /\ Pending("worker", "reviews") = 0 /\ Uncounted = 0
      BY <1>3, <2>1 DEF Pending, Uncounted, One
    <3>2. CASE thread = "assess"
      <4>1. /\ Pending("worker", "reviews")' = 1 /\ Uncounted' = 0
            /\ thread' = "report"
        BY <1>5, <2>1, <3>2 DEF Pending, Uncounted, One
      <4> QED BY <1>1, <1>2, <1>3, <2>1, <3>1, <3>2, <4>1 DEF CountsFit, One
    <3>3. CASE thread \in {"report", "llm", "commented"}
      <4>1. /\ Pending("worker", "reviews")' = 0 /\ Uncounted' = 0
            /\ thread' \in {"llm", "commented", "observe"}
        BY <1>5, <2>1, <3>3 DEF Pending, Uncounted, One
      <4> QED BY <1>1, <1>2, <1>3, <2>1, <3>1, <3>3, <4>1 DEF CountsFit, One
    <3>4. CASE thread = "observe"
      <4>1. /\ Pending("worker", "reviews")' = 0 /\ Uncounted' = 1
            /\ thread' = "returned"
        BY <1>5, <2>1, <3>4 DEF Pending, Uncounted, One
      <4>2. /\ One(thread = "returned") = 0 /\ One(thread = "returned")' = 1
            /\ One(thread = "assess") = 0 /\ One(thread = "assess")' = 0
            /\ One(thread \in {"report", "llm", "commented", "observe"}) = 1
            /\ One(thread \in {"report", "llm", "commented", "observe"})' = 0
        BY <3>4, <4>1 DEF One
      <4>3. Pending("loop", "processed") \in {0, 1}
        BY DEF Pending, One
      <4> QED BY <1>1, <1>2, <1>3, <2>1, <3>1, <4>1, <4>2, <4>3 DEF CountsFit
    <3> QED BY <1>5, <3>2, <3>3, <3>4
  <2> QED BY <1>4, <2>1, <2>2, <2>3 DEF IInv, ProcessSound
<1>6. ASSUME Metrics!NoCall,
             \/ thread \in {"report", "llm", "commented"} /\ thread' = "observe"
             \/ thread \in {"assess", "report"} /\ thread' = "raised"
      PROVE  IInv'
  <2>1. RegistrySound' /\ ScrapeAddsUp' /\ UNCHANGED <<counters, gauge, summary, call>>
    BY <1>1, <1>6, NoCallSeen
  <2>2. CallsFit' /\ DepthKnown' /\ TaskFits'
    BY <1>1, <1>3, <1>4, <1>6, <2>1 DEF CallsFit, DepthKnown, TaskFits
  <2>3. CountsFit'
    <3>1. /\ Pending("worker", "reviews")' = Pending("worker", "reviews")
          /\ Pending("loop", "queued")' = Pending("loop", "queued")
          /\ Pending("loop", "processed")' = Pending("loop", "processed")
          /\ Uncounted' = Uncounted /\ Pending("worker", "reviews") \in {0, 1}
          /\ Pending("loop", "queued") \in {0, 1} /\ Uncounted \in {0, 1}
      BY <2>1 DEF Pending, Uncounted, One
    <3>2. /\ One(thread = "returned")' = 0 /\ One(thread = "returned") = 0
          /\ One(thread = "assess")' <= One(thread = "assess")
          /\ One(thread \in {"report", "llm", "commented", "observe"})'
               <= One(thread \in {"report", "llm", "commented", "observe"})
          /\ One(thread = "assess") \in {0, 1} /\ One(thread = "assess")' \in {0, 1}
          /\ One(thread \in {"report", "llm", "commented", "observe"}) \in {0, 1}
          /\ One(thread \in {"report", "llm", "commented", "observe"})' \in {0, 1}
      BY <1>6 DEF One
    <3>3. /\ Len(queue)' = Len(queue) /\ counters' = counters
          /\ summary.count' = summary.count
      BY <1>3, <2>1
    <3>4. /\ counters["processed"]' + Pending("loop", "processed")' + One(thread = "returned")'
               <= summary.count' + Uncounted'
      BY <1>1, <3>1, <3>2, <3>3 DEF CountsFit
    <3>5. Len(queue)' + counters["reviews"]' + Pending("worker", "reviews")'
            + One(thread = "assess")'
               <= counters["queued"]' + Pending("loop", "queued")'
      BY SMTT(30), <1>1, <1>2, <3>1, <3>2, <3>3 DEF CountsFit
    <3>6. summary.count' + Uncounted'
            + One(thread \in {"report", "llm", "commented", "observe"})'
               <= counters["reviews"]' + Pending("worker", "reviews")'
      BY <1>1, <1>2, <3>1, <3>2, <3>3 DEF CountsFit
    <3> QED BY <3>4, <3>5, <3>6 DEF CountsFit
  <2> QED BY <1>4, <2>1, <2>2, <2>3 DEF IInv, ProcessSound
<1>7. CASE CountReview
  BY <1>2, <1>5, <1>7, CallsMade DEF CountReview, ThreadReady
<1>8. CASE ReportAsksLLM
  BY <1>2, <1>5, <1>8, CallsMade DEF ReportAsksLLM, Asks, InReport, ThreadReady
<1>9. CASE PostComment \/ PostCheckRun
  BY <1>2, <1>5, <1>9, CallsMade DEF PostComment, PostCheckRun, Asks, InReport, ThreadReady
<1>10. CASE EndReport
  BY <1>6, <1>10 DEF EndReport, InReport, ThreadReady
<1>11. CASE ObserveDuration
  BY <1>5, <1>11, CallsMade, ProcessAssumption DEF ObserveDuration, ThreadReady
<1>12. CASE ReviewRaises
  BY <1>6, <1>12 DEF ReviewRaises, ThreadReady
<1> QED BY <1>7, <1>8, <1>9, <1>10, <1>11, <1>12 DEF WorkerThread

(* A process begins with nothing, and so does the next one. *)
LEMMA Starting ==
  /\ Init => IInv
  /\ IInv /\ Exit => IInv'
<1>1. /\ Metrics!Idle.op = "none" /\ Metrics!Empty.count = 0
      /\ << >> \in Seq(Jobs) /\ Len(<< >>) = 0 /\ Range(<< >>) = {}
  <2>1. DOMAIN << >> = {}
    BY EmptySeq
  <2> QED BY <2>1, EmptySeq DEF Metrics!Idle, Metrics!Empty, Range
<1>2. {"loop", "worker", "sync"} = Actors
      /\ {"queued", "sync", "reviews", "llm", "posts", "processed"} = Counters
  BY DEF Actors, Counters
<1>3. ASSUME Init PROVE IInv
  <2>1. RegistrySound /\ ScrapeAddsUp
    BY <1>3, RegistryStart, BlankAddsUp DEF Init
  <2>2. /\ queue = << >> /\ begun = << >> /\ accepted = {} /\ task = "waiting"
        /\ thread = "off" /\ scraping = FALSE
        /\ \A a \in Actors : call[a].op = "none"
        /\ \A c \in Counters : counters[c] = 0
        /\ summary.count = 0
    BY <1>1, <1>3 DEF Init, Metrics!Init
  <2>3. QueueSound
    BY <1>1, <2>2 DEF QueueSound
  <2>4. CallsFit /\ TaskFits /\ DepthKnown
    BY <1>2, <2>2 DEF CallsFit, TaskFits, DepthKnown
  <2>5. CountsFit
    BY <1>1, <1>2, <2>2 DEF CountsFit, Pending, Uncounted, One
  <2> QED BY <2>1, <2>3, <2>4, <2>5 DEF IInv, ProcessSound
<1>4. ASSUME IInv, Exit PROVE IInv'
  <2>1. RegistrySound' /\ ScrapeAddsUp'
    BY <1>4, RegistryStart, BlankAddsUp DEF Exit
  <2>2. /\ queue' = << >> /\ UNCHANGED <<begun, accepted>> /\ task' = "waiting"
        /\ thread' = "off" /\ scraping' = FALSE
        /\ \A a \in Actors : call'[a].op = "none"
        /\ \A c \in Counters : counters'[c] = 0
        /\ summary'.count = 0
    BY <1>1, <1>4 DEF Exit, Metrics!Reset, history
  <2>3. QueueSound'
    BY <1>1, <1>4, <2>2 DEF IInv, QueueSound
  <2>4. CallsFit' /\ TaskFits' /\ DepthKnown'
    BY <1>2, <2>2 DEF CallsFit, TaskFits, DepthKnown
  <2>5. CountsFit'
    BY <1>1, <1>2, <2>2 DEF CountsFit, Pending, Uncounted, One
  <2> QED BY <2>1, <2>3, <2>4, <2>5 DEF IInv, ProcessSound
<1> QED BY <1>3, <1>4

-----------------------------------------------------------------------------
LEMMA Keeping ==
  ASSUME IInv, [Next]_vars
  PROVE  IInv'
<1>1. CASE (\E j \in Jobs : Enqueue(j)) \/ Synchronous
  BY <1>1, Requests
<1>2. CASE SetDepth \/ RenderPage
  BY <1>2, Scraping
<1>3. CASE Dequeue \/ AckAndCount \/ Continue \/ Cancel
  BY <1>3, Taking
<1>4. CASE WorkerThread \/ ReviewRaises
  BY <1>4, Reviewing
<1>5. CASE Exit
  BY <1>5, Starting
<1>6. ASSUME NEW a \in Actors, RegistryStep(a) PROVE IInv'
  <2>1. RegistrySound' /\ ProcessSound' /\ ScrapeAddsUp'
    BY <1>6, Stepping, RegistryKeeps DEF IInv, RegistryStep
  <2>2. QueueSound'
    BY <1>6 DEF IInv, QueueSound, RegistryStep, work, history
  <2> QED BY <2>1, <2>2 DEF IInv
<1>7. CASE UNCHANGED vars
  <2>1. /\ UNCHANGED <<queue, task, thread, scraping, accepted, begun>>
        /\ UNCHANGED <<lock, counters, gauge, summary, call, page, finished>>
    BY <1>7 DEF vars, work, history, Metrics!registry
  <2>2. RegistrySound'
    BY <2>1, NotCalling DEF IInv
  <2>3. QueueSound' /\ ProcessSound' /\ ScrapeAddsUp'
    BY <2>1
       DEF IInv, QueueSound, ProcessSound, CallsFit, TaskFits, DepthKnown, CountsFit, Pending,
           Uncounted, ScrapeAddsUp, Metrics!SummaryFits
  <2> QED BY <2>2, <2>3 DEF IInv
<1> QED BY <1>1, <1>2, <1>3, <1>4, <1>5, <1>6, <1>7 DEF Next, Synchronous

(* The registry and the process around it agree in every state: the        *)
(* invariant that carries the theorems below.                              *)
THEOREM Inductive == Spec => []IInv
<1>1. Init => IInv
  BY Starting
<1>2. IInv /\ [Next]_vars => IInv'
  BY Keeping
<1> QED BY <1>1, <1>2, PTL DEF Spec

(* The event loop and the threads lose no increment of a counter, wherever *)
(* they interleave (MetricsRegistry.increment under its lock).             *)
THEOREM EveryIncrementCounts == Spec => []NoIncrementLost
<1>1. IInv => NoIncrementLost
  BY DEF IInv, RegistrySound, NoIncrementLost, Metrics!NoIncrementLost
<1> QED BY <1>1, Inductive, PTL

(* A page of /metrics is the picture of one moment, whatever the reviews   *)
(* did while it was made.                                                  *)
THEOREM PagesAddUp == Spec => []ScrapeAddsUp
<1>1. IInv => ScrapeAddsUp
  BY DEF IInv
<1> QED BY <1>1, Inductive, PTL

(* The queue in memory begins jobs in the order they were accepted, each   *)
(* at most once, past exceptions, cancellation and the end of the process. *)
THEOREM KeepsAtMostOnce == Spec => ImplementsAtMostOnce
<1> USE DEF AtMostOnce!vars
<1>1. Init => AtMostOnce!Init
  BY DEF Init, AtMostOnce!Init
<1>2. IInv /\ [Next]_vars => [AtMostOnce!Next]_(AtMostOnce!vars)
  <2> SUFFICES ASSUME IInv, [Next]_vars, ~ UNCHANGED <<queue, begun>>
               PROVE  AtMostOnce!Next
    OBVIOUS
  <2>1. CASE \E j \in Jobs : Enqueue(j)
    <3>1. PICK j \in Jobs : Enqueue(j)
      BY <2>1
    <3>2. j \notin Range(queue) \union Range(begun)
      BY <3>1 DEF Enqueue, IInv, QueueSound
    <3>3. AtMostOnce!Range(queue) = Range(queue) /\ AtMostOnce!Range(begun) = Range(begun)
      BY DEF AtMostOnce!Range, Range
    <3>4. AtMostOnce!Accept(j)
      BY <3>1, <3>2, <3>3 DEF Enqueue, AtMostOnce!Accept
    <3> QED BY <3>4 DEF AtMostOnce!Next
  <2>2. CASE Dequeue
    BY <2>2 DEF Dequeue, AtMostOnce!Begin, AtMostOnce!Next
  <2>3. CASE Exit
    BY <2>3 DEF Exit, history, AtMostOnce!LoseAll, AtMostOnce!Next
  <2>4. ~ (Synchronous \/ SetDepth \/ RenderPage)
    BY DEF Synchronous, BeginSync, SyncAsksLLM, SyncReturns, EndSync, FailSync,
           SetDepth, RenderPage, work, history
  <2>5. ~ (WorkerThread \/ ReviewRaises)
    BY DEF WorkerThread, CountReview, ReportAsksLLM, PostComment, PostCheckRun, EndReport,
           ObserveDuration, ReviewRaises, history
  <2>6. ~ (AckAndCount \/ Continue \/ Cancel)
    BY DEF AckAndCount, Continue, Cancel, history
  <2>7. ~ (\E a \in Actors : RegistryStep(a)) /\ ~ UNCHANGED vars
    BY DEF RegistryStep, vars, work, history
  <2> QED BY <2>1, <2>2, <2>3, <2>4, <2>5, <2>6, <2>7 DEF Next, Synchronous
<1> QED BY <1>1, <1>2, Inductive, PTL DEF Spec, ImplementsAtMostOnce, AtMostOnce!Spec
=============================================================================
