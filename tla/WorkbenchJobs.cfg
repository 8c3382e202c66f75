CONSTANTS
  r1 = r1
  r2 = r2
  d1 = d1
  d2 = d2
  Request = {r1, r2}
  Direct = {d1, d2}
  External = External
  MaxBoots = 2
SPECIFICATION FairSpec
INVARIANTS IInv
PROPERTIES OutcomesAreFinal ImplementsLedger TailDrains
CHECK_DEADLOCK FALSE
