SPECIFICATION FairSpec
CONSTANTS
  w1 = w1
  w2 = w2
  Never = Never
  NoToken = NoToken
  Workers = {w1, w2}
  ApiKeys = {1, 2}
  RequeueTime = 3
  MaxBackoff = 2
  Lifetime = 6
  FaultKinds = {"error", "crash"}
  MaxFaults = 1
  MaxEdits = 1
INVARIANTS IInv TokenValid KeyInUse
PROPERTIES KeyKept Recovers
