SPECIFICATION Spec
CONSTANTS
  w1 = w1
  w2 = w2
  k1 = k1
  k2 = k2
  reader = reader
  writer = writer
  bytes = bytes
  ms = ms
  other = other
  low = low
  high = high
  q1 = q1
  q2 = q2
  eu = eu
  disk = disk
  cpu = cpu
  sx = sx
  sy = sy
  a = a
  b = b
  NoName = NoName
  Unset = Unset
  GivenNames = {1}
  KeyNames = {k1, k2}
  Roles = {reader, writer}
  DefaultRole = reader
  PartitionCounts = {2, 3}
  ConfigNames = {bytes, ms, other}
  KnownConfigs = {bytes, ms}
  ConfigValues = {low, high}
  DefaultValue = low
  Shards = {q1, q2}
  DefaultShards = q1
  Locations = {eu}
  MemberCounts = {2, 3}
  Totals = {8, 9}
  Scaled = {disk, cpu}
  Scalers = {sx, sy}
  Addresses = {a, b}
  Workers = {w1, w2}
  Sources = {1, 2}
  Names = {1, 2}
  UserSpecs <- MCNamedKinds
  FaultKinds = {"crash", "replace", "taken"}
  MaxFaults = 1
  MaxEdits = 2
INVARIANTS IInv Accounted InItsSource
PROPERTIES NeverAdopted KeepsPromise
SYMMETRY MCSymmetry
CHECK_DEADLOCK FALSE
