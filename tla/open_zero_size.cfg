SPECIFICATION Spec
CONSTANTS
  p1 = p1
  p2 = p2
  p3 = p3
  Openers = {p1, p2, p3}
  Scenarios <- ZeroOrSize
  HeaderSize = 2
  SizeModulus = 16
  MaxFiles = 2
INVARIANTS FoundReady
