SPECIFICATION FieldsSpec
CONSTANTS
  Numbers = {0, 1, 2}
  MaxLen = 4
  Bodies = {blank, full}
  Blank = blank
  Objects = {o1, o2, o3}
  Hole = Hole
  MaxMessages = 3
  NumberCases = {num}
  StringCases = {str}
  MessageCases = {msg}
  NotSet = NotSet
  Values = {default, v1}
  Default = default
  Undefined = Undefined
  Half32 = 8
  Half64 = 128
  Exact = 128
  EnumNumbers <- EnumValues
SYMMETRY Symmetry
INVARIANTS
  RepeatedKept
  OneofAsChosen
  NumberKept
CHECK_DEADLOCK FALSE
