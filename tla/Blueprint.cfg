CONSTANTS
  c1 = c1
  c2 = c2
  Content = {c1, c2}
  WithModel = {c1}
  Name = {n1, n2}
  Call = {r1, r2}
  Packages = 1
  PlanLimit = 1
  MaxPlan = 2
  MaxJob = 2
  MaxTime = 1
  MaxHomeChange = 1
  MaxBoots = 1
  MaxEdit = 1
  None = None
SPECIFICATION BlueprintSpec
CHECK_DEADLOCK FALSE
SYMMETRY Symmetry
CONSTRAINT Focus
INVARIANTS BlueprintIInv OutcomeIsHonest
PROPERTIES CreatedAsPreviewed SubmitsWhatIsShown
