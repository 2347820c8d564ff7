SPECIFICATION FairSpec
CONSTANTS
  Calls = {c1}
  NoCall = NoCall
  MaxTag = 2
  Payloads = {p1, e0}
  EmptyPayload = e0
PROPERTIES
  HandlerCalled
\* Clients stop when the call objects are used up.
CHECK_DEADLOCK FALSE
