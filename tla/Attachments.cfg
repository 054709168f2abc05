\* One attachment with an artifact, two cleanup workers, a host that keeps
\* cleaning up, and one fault at any moment.
SPECIFICATION FairSpec
CONSTANTS
  w1 = w1
  w2 = w2
  Null = Null
  Files = {1}
  Callers = {w1, w2}
  Batch = 1
  MaxFaults = 1
  Artifacts = {1}
  Regimes = {"missing", "strict"}
INVARIANTS
  ObjectsAreKnown
  NeededFilesAreKept

  
CHECK_DEADLOCK FALSE
