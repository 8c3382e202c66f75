CONSTANTS
  p1 = p1
  p2 = p2
  p3 = p3
  pidA = pidA
  pidB = pidB
  pidC = pidC
  NoProc = NoProc
  NoPid = NoPid
  Proc = {p1, p2, p3}
  Pid = {pidA, pidB, pidC}
  PidOf <- DistinctPids
  MaxNonce = 3
SPECIFICATION FairSpec
CHECK_DEADLOCK FALSE
INVARIANTS IInv MutualExclusion EndpointNamesOwner
PROPERTIES OnlyOwnerOrDeathRemoves HandoffOnlyAdvances IncompleteNeverStolen ImplementsRunRights LaunchesSettle
