CONSTANTS
  j1 = j1
  j2 = j2
  m = m
  w = w
  Space = {m, w}
  Manager = m
  Job = {j1, j2}
  None = None
SPECIFICATION FairSpec
INVARIANTS IInv RightsCoverChildren
PROPERTIES LeavingIsFinal LeavingEnds
CHECK_DEADLOCK FALSE
