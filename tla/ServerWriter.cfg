SPECIFICATION FairSpec
CONSTANTS
  Calls = {c1, c2, c3}
  NoCall = NoCall
  MaxTag = 4
  Payloads = {p1, e0}
  EmptyPayload = e0
  Messages = {m1, m2}
  Null = Null
  MaxWrites = 2
INVARIANTS
  CallsSafe
  LostOnlyByAbort
PROPERTIES
  ImplementsStream
  EndedIsFreed
\* Clients stop when the call objects are used up.
CHECK_DEADLOCK FALSE
