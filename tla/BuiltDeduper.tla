----------------------------- MODULE BuiltDeduper -----------------------------
(***************************************************************************)
(* The deduper the webhook route is given (webhook_controller.py,          *)
(* _build_deduper): the one in Redis if REDIS_URL is set, else the one in  *)
(* memory.  Both answer the same calls under the same clock; the one that  *)
(* was not built keeps its initial state.                                  *)
(***************************************************************************)
EXTENDS Integers

CONSTANTS Ids,
          Capacity,   \* max_entries, of the one in memory
          TTL,        \* ttl_seconds, in clock ticks
          Second,     \* clock ticks of one second
          MaxFaults,  \* bound: Redis failures of a behaviour
          Horizon     \* bound: the last instant of a behaviour

VARIABLES
  backend,       \* "memory" or "redis"
  now, last, answer,                     \* the clock and the history of both
  seen, wiped,                           \* the deduper in memory
  resends, expires, granted, faults      \* the deduper in Redis

Memory == INSTANCE DeliveryDeduper
Redis  == INSTANCE RedisDeliveryDeduper

ASSUME BuiltDeduperAssumption ==
  Memory!DeduperAssumption /\ Redis!RedisDeduperAssumption

vars == <<backend, Memory!vars, Redis!vars>>

Init ==
  /\ backend \in {"memory", "redis"}
  /\ Memory!Init /\ Redis!Init
  /\ backend = "memory" => ~resends

MemoryStep ==
  /\ backend = "memory"
  /\ Memory!Next
  /\ UNCHANGED <<backend, resends, expires, granted, faults>>

RedisStep ==
  /\ backend = "redis"
  /\ Redis!Next
  /\ UNCHANGED <<backend, seen, wiped>>

Next == MemoryStep \/ RedisStep

Spec == Init /\ [][Next]_vars

-----------------------------------------------------------------------------
(* What the process lets through is remembered, see DeliveryDeduper *)
RemembersRecent == backend = "memory" => Memory!RemembersRecent

(* What Redis answers is answered once, see RedisDeliveryDeduper *)
OncePerWindow == Redis!OncePerWindow

(* How long ago each id was let through *)
Ages == [id \in Ids |->
           IF id \in DOMAIN last /\ now - last[id] < TTL THEN now - last[id] ELSE TTL]

(* The contract is claimed for a client library that sends a command once. *)
Contract == INSTANCE DedupContract WITH
  age    <- IF resends THEN [id \in Ids |-> TTL] ELSE Ages,
  answer <- IF resends THEN Memory!Nobody ELSE answer

(* Whichever deduper is built honours the contract of the webhook route,   *)
(* the one in memory through every restart: a restart forgets, it never    *)
(* makes a delivery a duplicate.                                           *)
ImplementsContract == Contract!Spec
=============================================================================
