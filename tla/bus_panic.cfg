SPECIFICATION Spec
CONSTANTS
  Publishers = {p1}
  Channels = {a}
  Capacity = 1
  TTL = 1
  MaxEvents = 1
  MaxTime = 0
CHECK_DEADLOCK FALSE
INVARIANT NoPanic
