------------------------------ MODULE AtMostOnce ------------------------------
(***************************************************************************)
(* What the queue in memory promises: jobs are begun in the order they     *)
(* were accepted, each at most once.  What waits when the process ends is  *)
(* lost, and so is the job in hand: nothing brings a job back.             *)
(***************************************************************************)
EXTENDS Sequences, SequencesExt

CONSTANT Jobs

VARIABLES waiting,  \* accepted jobs, in order
          begun     \* jobs whose review was begun, in order

vars == <<waiting, begun>>

Init == waiting = <<>> /\ begun = <<>>

Accept(j) ==
  /\ j \notin Range(waiting) \union Range(begun)
  /\ waiting' = Append(waiting, j)
  /\ UNCHANGED begun

Begin ==
  /\ waiting # <<>>
  /\ waiting' = Tail(waiting)
  /\ begun' = Append(begun, Head(waiting))

LoseAll ==
  /\ waiting' = <<>>
  /\ UNCHANGED begun

Next == Begin \/ LoseAll \/ \E j \in Jobs : Accept(j)

Spec == Init /\ [][Next]_vars
=============================================================================
