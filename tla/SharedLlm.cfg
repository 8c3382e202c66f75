SPECIFICATION Spec
CONSTANTS
    Conn = {c1, c2}
    Op = {o1, o2}
    Space = {s1, s2}
    All = All
    NoFile = NoFile
    None = None
    MaxRevision = 3
    MaxCred = 2
    MaxBoots = 1
SYMMETRY Symmetry
CONSTRAINT Focus
INVARIANT IInv
PROPERTIES ReferencesExist BatchIsApplied
