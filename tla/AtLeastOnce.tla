---------------------------- MODULE AtLeastOnce ----------------------------
(***************************************************************************)
(* What the durable queue promises, whatever fails: a message once stored  *)
(* stays stored until a review of it has run to the end (or until it is    *)
(* found to be no job at all).  It may be reviewed more than once, and by  *)
(* a worker that no longer holds the only copy.                            *)
(***************************************************************************)
CONSTANTS Jobs, Poison

VARIABLES stored,    \* messages Redis holds, in either list
          reviewed   \* jobs whose review has run to the end at least once

vars == <<stored, reviewed>>

Init == stored = {} /\ reviewed = {}

Store(m) ==
  /\ stored' = stored \union {m}
  /\ UNCHANGED reviewed

(* A worker may still be reviewing a copy whose message another worker has *)
(* re-queued, reviewed and acked: the message need not be stored any more. *)
Review(m) ==
  /\ m \in stored \union reviewed
  /\ reviewed' = reviewed \union {m}
  /\ UNCHANGED stored

Release(m) ==
  /\ m \in reviewed \union Poison
  /\ stored' = stored \ {m}
  /\ UNCHANGED reviewed

Next ==
  \/ \E m \in Jobs \union Poison : Store(m) \/ Release(m)
  \/ \E m \in Jobs : Review(m)

Spec == Init /\ [][Next]_vars
=============================================================================
