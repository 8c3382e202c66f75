CONSTANTS
  s1 = s1
  s2 = s2
  Space = {s1, s2}
  Manager = manager
  Has = {s2}
  Plan = {1, 2}
  NoPlan = 0
  SnapId = {1, 2}
  NoSnap = 0
  MaxFaults = 2
  MaxBoots = 1
SPECIFICATION FairSpec
CHECK_DEADLOCK FALSE
CONSTRAINT Focus
INVARIANT IInv
PROPERTIES ConfirmedOnce EvidenceKept ChangesAtRest SuccessRestartsSpaces JobEnds
