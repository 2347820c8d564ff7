SPECIFICATION Spec
CONSTANTS
  Servers = {s1, s2}
  Services = {v1}
  Nowhere = Nowhere
  MaxStarts = 4
INVARIANTS
  CallsAnchored
  EveryoneListens
  RefusedOnce
CHECK_DEADLOCK FALSE
