--------------------------- MODULE MCRedisJobQueue ---------------------------
(***************************************************************************)
(* Instances of RedisJobQueue for TLC.                                     *)
(***************************************************************************)
EXTENDS RedisJobQueue

(* No action tells one replica from another, or one job from another. *)
Symmetry == Permutations(Replicas) \union Permutations(Jobs)
=============================================================================
