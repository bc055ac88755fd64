SPECIFICATION Spec
CONSTANTS
  n1 = n1
  n2 = n2
  n3 = n3
  w1 = w1
  w2 = w2
  site1 = site1
  rg1 = rg1
  rg2 = rg2
  c1 = c1
  c2 = c2
  o1 = o1
  o2 = o2
  ta = ta
  tb = tb
  NoName = NoName
  Unset = Unset
  Workers = {w1, w2}
  Names = {n1, n2}
  Sites = {site1}
  ResourceGroups = {rg1, rg2}
  DefaultGroup = rg1
  Configs = {c1, c2}
  Opts = {o1, o2}
  DefaultOpts = o1
  Tags <- MCOneTag
  UserSpecs <- MCOneSpec
  FaultKinds = {"crash", "drift", "exhausted"}
  MaxFaults = 1
  MaxEdits = 1
INVARIANTS IInv DeletionKnown AtMostOneLive Accounted
PROPERTIES DeletedOnRequest KeepsPromise
SYMMETRY MCReplicaSymmetry
CHECK_DEADLOCK FALSE
