CONSTANTS
  a = a
  b = b
  Space = {a, b}
  NoSpace = NoSpace
  MaxToken = 3
  MaxChange = 2
SYMMETRY Symmetry
SPECIFICATION Spec
CHECK_DEADLOCK FALSE
INVARIANT IInv
PROPERTIES LastClickWins FailureKeepsView
