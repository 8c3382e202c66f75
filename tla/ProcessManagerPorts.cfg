CONSTANTS
  a = a
  b = b
  Name = {a, b}
  LastPort = 2
  MaxGen <- Once
  None = None
SPECIFICATION Spec
INVARIANT DistinctPorts
