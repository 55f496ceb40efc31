--------------------------- MODULE DeliveryDeduper ---------------------------
(***************************************************************************)
(* The in-memory deduper (delivery_dedup.py).  _seen is a dict, which      *)
(* keeps its insertion order: a sequence of entries.  A call never awaits, *)
(* so one call is one step.  The dictionary ends with its process.         *)
(***************************************************************************)
EXTENDS Integers, FiniteSets, Sequences, SequencesExt

CONSTANTS Ids,
          Capacity,  \* max_entries
          TTL,       \* ttl_seconds
          Horizon    \* bound: the last instant of a behaviour

DeduperAssumption ==
  Capacity \in Nat \ {0} /\ TTL \in Nat \ {0} /\ Horizon \in Nat

VARIABLES now,     \* the injected clock, time.monotonic
          seen,    \* _seen, in insertion order
          last,    \* history: when each id was last let through
          wiped,   \* history: ids let through before the process started only
          answer   \* history: the last answer of this instant

vars == <<now, seen, last, wiped, answer>>

Nobody == [id |-> {}, duplicate |-> FALSE]

Init ==
  /\ now = 0 /\ seen = <<>>
  /\ last = << >> /\ wiped = {} /\ answer = Nobody

(* What a dictionary of times is once id is noted in it *)
Put(times, id, at) == [x \in DOMAIN times \union {id} |-> IF x = id THEN at ELSE times[x]]

LetThrough(id) ==
  /\ last' = Put(last, id, now)
  /\ wiped' = wiped \ {id}
  /\ answer' = [id |-> id, duplicate |-> FALSE]
  /\ UNCHANGED now

Entry(id) == [id |-> id, at |-> now]

IdsOf(entries) == {entries[i].id : i \in DOMAIN entries}

(* mutant: nothing expires *)
PurgeNothing(entries) == entries

Purge(entries) ==
  LET kept[n \in 0..Len(entries)] ==
        IF n = 0 THEN << >>
        ELSE IF entries[n].at + TTL > now THEN Append(kept[n - 1], entries[n])
        ELSE kept[n - 1]
  IN  kept[Len(entries)]

(* mutant: the newest entry goes *)
EvictNewest(entries) ==
  IF Len(entries) > Capacity THEN Append(Front(Front(entries)), Last(entries)) ELSE entries

(* The loop of is_duplicate pops at most one entry: each call adds one. *)
Evict(entries) ==
  IF Len(entries) > Capacity THEN Tail(entries) ELSE entries

AnswerDuplicate(id) ==
  /\ id \in IdsOf(Purge(seen))
  /\ seen' = Purge(seen)
  /\ answer' = [id |-> id, duplicate |-> TRUE]
  /\ UNCHANGED <<now, last, wiped>>

AnswerFresh(id) ==
  /\ id \notin IdsOf(Purge(seen))
  /\ seen' = Evict(Append(Purge(seen), Entry(id)))
  /\ LetThrough(id)

Tick ==
  /\ now < Horizon
  /\ now' = now + 1
  /\ answer' = Nobody
  /\ UNCHANGED <<seen, last, wiped>>

(* Another process builds another deduper. *)
Restart ==
  /\ seen # <<>>
  /\ seen' = <<>>
  /\ wiped' = DOMAIN last
  /\ UNCHANGED <<now, last, answer>>

Next == Tick \/ Restart \/ \E id \in Ids : AnswerDuplicate(id) \/ AnswerFresh(id)

Spec == Init /\ [][Next]_vars

-----------------------------------------------------------------------------
(* An id this process let through less than TTL ago is remembered until as *)
(* many other ids as the capacity came after it.                           *)
RemembersRecent ==
  \A id \in DOMAIN last \ wiped :
    /\ now - last[id] < TTL
    /\ Cardinality({other \in DOMAIN last \ {id} : last[other] >= last[id]}) < Capacity
    => id \in IdsOf(seen)
=============================================================================
