\* Two replicas over one Redis, every failure once
SPECIFICATION Spec
CONSTANTS
  None = None
  Replicas = {r1, r2}
  Jobs = {m1, m2}
  Poison = {p1}
  Failures = {"enqueue_lost", "dequeue", "dequeue_lost", "discard", "ack", "recover"}
  MaxFaults = 1
  MaxRaises = 1
  MaxStops = 1
SYMMETRY Symmetry
INVARIANTS TypeOK InHandSound NoJobLost InflightExact FirstHandOutInOrder
PROPERTIES ImplementsAtLeastOnce
