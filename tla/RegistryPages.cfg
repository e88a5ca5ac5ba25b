SPECIFICATION Spec
CONSTANTS
  Page = {p1, p2}
  Name = {a}
  TgtName = {a}
  NoName = NoName
  Radix = 2
  Span = 4
  License = 1
  Hosts = 1
  MaxDrop = 0
  MaxReg = 3
  MaxWork = 0
INVARIANTS InstanceHasItsServer TreeIsRegistry LicenseIsKept
PROPERTY RegistrationFailsOnlyRaced
SYMMETRY Pages
CHECK_DEADLOCK FALSE
