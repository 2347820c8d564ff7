SPECIFICATION FairHoldersSpec
CONSTANTS
  Holders = {h1, h2}
  Remote = {r1}
  Local = {b1}
  Configs = {x1}
  Unset = Unset
  MaxImpls = 3
  MaxPlaced = 3
INVARIANTS
  ImplsSafe
PROPERTIES
  DestroyReturns
CHECK_DEADLOCK FALSE
