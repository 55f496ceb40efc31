----------------------------- MODULE RedisLists -----------------------------
(***************************************************************************)
(* The Redis list commands redis_job_queue.py issues.  Redis is not part   *)
(* of the repository: these operators are what src/ relies on.             *)
(*                                                                         *)
(* A list is a sequence whose index 1 is the LEFT end and whose last index *)
(* is the RIGHT end.  Redis runs one command at a time, so an operator     *)
(* takes effect in one step.  LMOVE source destination RIGHT LEFT takes    *)
(* the message Last(source), leaves Front(source) and pushes the message   *)
(* on the destination.                                                     *)
(***************************************************************************)
EXTENDS Naturals, Sequences, SequencesExt

LPush(list, raw) == <<raw>> \o list

(* LREM list 1 raw: the first occurrence from the LEFT, if there is one *)
LRem(list, raw) == RemoveFirst(list, raw)
=============================================================================
