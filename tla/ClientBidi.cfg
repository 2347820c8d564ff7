SPECIFICATION FairSpec
CONSTANTS
  MaxTag = 1
  Payloads = {p1, e0}
  EmptyPayload = e0
  None = None
  Calls = {c1, c2}
  NoCall = NoCall
  Messages = {m1, m2}
  Null = Null
  MaxOps = 4
  MaxEnds = 2
  MaxReads = 1
INVARIANTS
  OneInOrder
  EndIsLast
  HalfDuplex
PROPERTIES
  EndedIsForgotten
\* The program stops after MaxOps operations.
CHECK_DEADLOCK FALSE
