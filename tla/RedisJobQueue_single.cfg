\* One replica: two stops, two Redis failures the loop retries or survives
SPECIFICATION FairSpec
CONSTANTS
  None = None
  Replicas = {r1}
  Jobs = {m1, m2}
  Poison = {p1}
  Failures = {"enqueue_lost", "dequeue", "ack"}
  MaxFaults = 2
  MaxRaises = 0
  MaxStops = 2
INVARIANTS InHandIsRecoverable
PROPERTIES EventuallyReviewed PoisonDropped
