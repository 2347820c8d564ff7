SPECIFICATION JointFairSpec
CONSTANTS
  Calls = {c1, c2, c3}
  NoCall = NoCall
  MaxTag = 3
  Payloads = {p1, e0}
  EmptyPayload = e0
  MaxCalls = 2
  Responses = {r1, e0}
  None = None
INVARIANTS
  CallsSafe
  HearsItsAnswer
PROPERTIES
  TakesNextClient
  EveryCallForgotten
\* Clients stop after MaxCalls calls.
CHECK_DEADLOCK FALSE
