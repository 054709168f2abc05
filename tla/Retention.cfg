SPECIFICATION Spec
CONSTANTS
  w1 = w1
  w2 = w2
  r1 = r1
  r2 = r2
  f1 = f1
  None = None
  Workers = {w1, w2}
  Runs = {r1, r2}
  Media = {f1}
  MaxMessages = 3
  MaxGeneration = 2
  MaxEvents = 1
  Policies = {"expire", "keep", "missing"}
  Hosts <- SmallHosts
  Limit <- SmallLimit
INVARIANTS
  ReferencesHold
  LiveRunKeepsItsContent
  DeletedIsEmpty
CHECK_DEADLOCK FALSE
