SPECIFICATION FairSpec
CONSTANTS
  MaxTag = 1
  Payloads = {p1, e0}
  EmptyPayload = e0
  None = None
  Calls = {c1, c2}
  NoCall = NoCall
  Messages = {m1}
  Null = Null
  MaxOps = 5
INVARIANTS
  GrpcContract
  ResultHonest
  DanglingOnlyWhenOver
PROPERTIES
  ImplementsStream
  EndedIsForgotten
\* The program stops after MaxOps operations.
CHECK_DEADLOCK FALSE
