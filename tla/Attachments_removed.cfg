\* One attachment with an artifact, one cleanup worker, a host that keeps
\* cleaning up, and one fault at any moment.
SPECIFICATION FairSpec
CONSTANTS
  w1 = w1
  w2 = w2
  Null = Null
  Files = {1}
  Callers = {w1}
  Batch = 1
  MaxFaults = 1
  Artifacts = {1}
  Regimes = {"missing", "strict"}
PROPERTIES
  RemovedIsDeleted
CHECK_DEADLOCK FALSE
