------------------------- MODULE RedisDeliveryDeduper -------------------------
(***************************************************************************)
(* The Redis deduper (redis_delivery_dedup.py): one SET NX EX per check,   *)
(* which Redis runs as one step, on keys every replica shares.  A check    *)
(* that fails lets the delivery through, whether or not the key was set.   *)
(***************************************************************************)
EXTENDS Integers, FiniteSetsExt

CONSTANTS Ids,
          TTL,        \* ttl_seconds, in clock ticks
          Second,     \* clock ticks of one second, the unit of EX
          MaxFaults,  \* bound: Redis failures of a behaviour
          Horizon     \* bound: the last instant of a behaviour

RedisDeduperAssumption ==
  /\ Second \in Nat \ {0} /\ TTL \in Nat /\ TTL >= Second
  /\ MaxFaults \in Nat /\ Horizon \in Nat

VARIABLES resends,  \* whether the client library sends a command again
          now,      \* the clock of the Redis server
          expires,  \* when the key of each id goes, for the keys set so far
          granted,  \* history: when Redis last set the key of each id for the caller
          faults,   \* Redis failures so far
          last,     \* history: when each id was last let through
          answer    \* history: the last answer of this instant

vars == <<resends, now, expires, granted, faults, last, answer>>

Nobody == [id |-> {}, duplicate |-> FALSE]

Init ==
  /\ resends \in BOOLEAN
  /\ now = 0 /\ expires = << >> /\ granted = << >> /\ faults = 0
  /\ last = << >> /\ answer = Nobody

(* What a table of times is once id is noted in it *)
Put(times, id, at) == [x \in DOMAIN times \union {id} |-> IF x = id THEN at ELSE times[x]]

LetThrough(id) ==
  /\ last' = Put(last, id, now)
  /\ answer' = [id |-> id, duplicate |-> FALSE]
  /\ UNCHANGED <<resends, now>>

(* mutant: the TTL is rounded up *)
ExpiryUp == Max({1, (TTL + Second - 1) \div Second}) * Second

(* EX takes whole seconds, at least one: max(1, int(ttl_seconds)) *)
Expiry == Max({1, TTL \div Second}) * Second

Exists(id) == id \in DOMAIN expires /\ now < expires[id]

SetKey(id) == expires' = Put(expires, id, now + Expiry)

(* SET key 1 NX EX leaves a key that exists alone, its expiry included. *)
SetNX(id) == IF Exists(id) THEN UNCHANGED expires ELSE SetKey(id)

Fault ==
  /\ faults < MaxFaults
  /\ faults' = faults + 1

AnswerDuplicate(id) ==
  /\ answer' = [id |-> id, duplicate |-> TRUE]
  /\ UNCHANGED <<resends, now, granted, last>>

CheckDuplicate(id) ==
  /\ Exists(id)
  /\ SetNX(id)
  /\ AnswerDuplicate(id)
  /\ UNCHANGED faults

(* mutant: SET without NX always answers OK *)
CheckFreshAlways(id) ==
  /\ SetKey(id)
  /\ granted' = Put(granted, id, now)
  /\ LetThrough(id)
  /\ UNCHANGED faults

CheckFresh(id) ==
  /\ ~ Exists(id)
  /\ SetNX(id)
  /\ granted' = Put(granted, id, now)
  /\ LetThrough(id)
  /\ UNCHANGED faults

(* The command fails, before or after it took effect: fail open. *)
CheckFails(id) ==
  /\ Fault
  /\ SetNX(id) \/ UNCHANGED expires
  /\ LetThrough(id)
  /\ UNCHANGED granted

(* The key is set, the reply is lost, and the client library sends the     *)
(* command again: the second SET NX finds the key of the first.            *)
CheckResent(id) ==
  /\ resends
  /\ Fault
  /\ SetNX(id)
  /\ AnswerDuplicate(id)

Tick ==
  /\ now < Horizon
  /\ now' = now + 1
  /\ answer' = Nobody
  /\ UNCHANGED <<resends, expires, granted, faults, last>>

Next ==
  \/ Tick
  \/ \E id \in Ids :
       CheckDuplicate(id) \/ CheckFresh(id) \/ CheckFails(id) \/ CheckResent(id)

Spec == Init /\ [][Next]_vars

-----------------------------------------------------------------------------
(* While Redis answers, one id is let through at most once per window, by  *)
(* all replicas together; only a failed check may let it through again.    *)
OncePerWindow ==
  [][\A id \in DOMAIN granted :
       granted'[id] # granted[id] => granted'[id] - granted[id] >= Expiry]_vars
=============================================================================
