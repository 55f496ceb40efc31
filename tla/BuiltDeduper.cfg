\* Three ids for two places, a TTL that is no whole number of seconds, every
\* failure of Redis
SPECIFICATION Spec
CONSTANTS
  Ids = {d1, d2, d3}
  Capacity = 2
  TTL = 3
  Second = 2
  MaxFaults = 2
  Horizon = 6
INVARIANTS RemembersRecent
PROPERTIES OncePerWindow ImplementsContract
