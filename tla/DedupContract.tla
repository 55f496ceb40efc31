---------------------------- MODULE DedupContract ----------------------------
(***************************************************************************)
(* What the webhook route may rely on, whichever deduper it was given: a   *)
(* delivery is answered "duplicate" only if one with the same id was let   *)
(* through less than TTL ago.  Letting a delivery through twice is allowed *)
(* (both dedupers forget: one at its capacity, the other fails open).      *)
(***************************************************************************)
EXTENDS Integers, FiniteSetsExt

CONSTANTS Ids, TTL

VARIABLES age,     \* time since each id was last let through, up to TTL
          answer   \* the last answer given, forgotten when time passes

vars == <<age, answer>>

Nobody == [id |-> {}, duplicate |-> FALSE]

Init ==
  /\ age = [id \in Ids |-> TTL]
  /\ answer = Nobody

Tick ==
  /\ age' = [id \in Ids |-> Min({age[id] + 1, TTL})]
  /\ answer' = Nobody

LetThrough(id) ==
  /\ age' = [age EXCEPT ![id] = 0]
  /\ answer' = [id |-> id, duplicate |-> FALSE]

Duplicate(id) ==
  /\ age[id] < TTL
  /\ answer' = [id |-> id, duplicate |-> TRUE]
  /\ UNCHANGED age

Next == Tick \/ \E id \in Ids : LetThrough(id) \/ Duplicate(id)

Spec == Init /\ [][Next]_vars
=============================================================================
