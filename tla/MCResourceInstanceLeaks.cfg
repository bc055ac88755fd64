SPECIFICATION LeakSpec
CONSTANTS
  n1 = n1
  n2 = n2
  n3 = n3
  w1 = w1
  w2 = w2
  site1 = site1
  rg1 = rg1
  c1 = c1
  o1 = o1
  ta = ta
  NoName = NoName
  Unset = Unset
  Workers = {w1, w2}
  Names = {n1, n2, n3}
  Sites = {site1}
  ResourceGroups = {rg1}
  DefaultGroup = rg1
  Configs = {c1}
  Opts = {o1}
  DefaultOpts = o1
  Tags <- MCTags
  UserSpecs <- MCUserSpecs
  FaultKinds = {"lost", "misread", "restore", "crash"}
  MaxFaults = 1
  MaxEdits = 2
INVARIANTS TypeOK LeaksBounded
PROPERTIES NeverDeletesWanted
SYMMETRY MCSymmetry
CHECK_DEADLOCK FALSE
