SPECIFICATION FairSpec
CONSTANTS
  Calls = {c1, c2}
  NoCall = NoCall
  MaxTag = 3
  Payloads = {p1, e0}
  EmptyPayload = e0
  Messages = {m1, m2}
  Null = Null
  MaxReads = 2
  MaxWrites = 2
INVARIANTS
  CallsSafe
  NoLockCycle
PROPERTIES
  ImplementsStream
  EndedIsFreed
  ShutdownReturns
\* Clients stop when the call objects are used up.
CHECK_DEADLOCK FALSE
