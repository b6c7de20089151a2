SPECIFICATION Spec
CONSTANTS
  n1 = n1
  n2 = n2
  n3 = n3
  Names <- AllNames
  Order <- InOrder
  Scenarios <- CommandLines
INVARIANTS RefusedOnlyTwice CalmRunWritesAll
PROPERTIES WrittenAgainAndAgain
