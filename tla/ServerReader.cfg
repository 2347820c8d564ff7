SPECIFICATION FairSpec
CONSTANTS
  Calls = {c1, c2, c3}
  NoCall = NoCall
  MaxTag = 4
  Payloads = {p1, e0}
  EmptyPayload = e0
  MaxReads = 2
INVARIANTS
  CallsSafe
PROPERTIES
  DroppedOnlyIfEarly
  AnsweredIsFreed
\* Clients stop when the call objects are used up.
CHECK_DEADLOCK FALSE
