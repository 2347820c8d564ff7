SPECIFICATION ReaderFairSpec
CONSTANTS
  MaxTag = 2
  Payloads = {p1, e0}
  EmptyPayload = e0
  None = None
  MaxReads = 2
INVARIANTS
  StreamIntact
  ToldTheEnd
PROPERTIES
  EveryCallForgotten
\* The program stops after MaxTag calls.
CHECK_DEADLOCK FALSE
