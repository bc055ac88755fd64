SPECIFICATION Spec
CONSTANTS
  g1 = g1
  g2 = g2
  w1 = w1
  w2 = w2
  u1 = u1
  u2 = u2
  s1 = s1
  x = x
  user = user
  service = service
  NoName = NoName
  Unset = Unset
  Workers = {w1}
  Names = {g1, g2}
  Ids = {u1, u2, s1, x}
  Types = {user, service}
  TypeOf <- MCTypeOf
  UserSpecs <- MCAllSpecs
  FaultKinds = {"error", "crash", "exhausted", "leave", "group", "inactive"}
  MaxFaults = 3
  MaxEdits = 3
INVARIANTS IInv Accounted
PROPERTIES RevokedOnRequest
CHECK_DEADLOCK FALSE
