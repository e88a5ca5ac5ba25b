SPECIFICATION Spec
CONSTANTS
  Page = {p1}
  Name = {a}
  TgtName = {a}
  NoName = NoName
  Radix = 3
  Span = 3
  License = 2
  Hosts = 2
  MaxDrop = 1
  MaxReg = 3
  MaxWork = 1
INVARIANTS CommandsReachTheirHost InfoIsOfItsInstance
PROPERTY InfoStaysWithInstance
CHECK_DEADLOCK FALSE
