SPECIFICATION FairSpec
CONSTANTS
  n1 = n1
  n2 = n2
  n3 = n3
  w1 = w1
  w2 = w2
  d = d
  e = e
  acc = acc
  x = x
  y = y
  g1 = g1
  g2 = g2
  p = p
  q = q
  id1 = id1
  id2 = id2
  r1 = r1
  r2 = r2
  at1 = at1
  at2 = at2
  eq = eq
  match = match
  Unset = Unset
  NoName = NoName
  Descriptions = {d, e}
  Accounts = {acc}
  GroupNames = {x, y}
  AccessGroups = {g1, g2}
  Grants = {x}
  Conditions = {p, q}
  Identities = {id1, id2}
  Rights = {x, y}
  Roles = {r1, r2}
  Attributes = {at1, at2}
  Operators = {eq, match}
  DefaultOperator = eq
  Workers = {w1}
  Names = {n1, n2}
  UserSpecs <- MCTwoRoles
  FaultKinds = {}
  MaxFaults = 0
  MaxEdits = 1
PROPERTIES Settles
CHECK_DEADLOCK FALSE
