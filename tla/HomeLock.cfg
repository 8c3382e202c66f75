CONSTANTS
  old = old
  sup = sup
  other = other
  i0 = i0
  i1 = i1
  i2 = i2
  c0 = c0
  c1 = c1
  c2 = c2
  c3 = c3
  r1 = r1
  r2 = r2
  NoCall = NoCall
  Left = c0
  Proc = {old, sup, other}
  Inst = {i0, i1, i2}
  ProcOf <- ProcOfInst
  Call = {c0, c1, c2, c3, r1, r2}
  InstOf <- InstOfCall
  Reclaimer = {r1, r2}
  MaxFaults = 2
  MaxDeaths = 2
SPECIFICATION FairSpec
CHECK_DEADLOCK FALSE
INVARIANT IInv
PROPERTIES InlineOnlyUnderLiveOwner ImplementsRunRights CallsSettle
