SPECIFICATION FairSpec
CONSTANTS
  g1 = g1
  g2 = g2
  w1 = w1
  w2 = w2
  u1 = u1
  u2 = u2
  s1 = s1
  x = x
  user = user
  service = service
  NoName = NoName
  Unset = Unset
  Workers = {w1}
  Names = {g1}
  Ids = {u1, u2, s1, x}
  Types = {user, service}
  TypeOf <- MCTypeOf
  UserSpecs <- MCUserSpecs
  FaultKinds = {"error", "partial", "partialCreate", "join", "misread"}
  MaxFaults = 2
  MaxEdits = 2
PROPERTIES DeletionFinishesAlone Settles NeverEmptied
CHECK_DEADLOCK FALSE
