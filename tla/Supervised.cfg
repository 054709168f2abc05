\* One run, two tasks and two staged calls.
SPECIFICATION SFairSpec
CONSTANTS
  t1 = t1
  t2 = t2
  None = None
  Run = {1}
  Task = {t1, t2}
  WorkerId = {"w1"}
  Call = {1, 2}
  LeaseTtl = 1
  MaxRetryDelay = 0
  MaxRunRetries = 1
  MaxCandidateScan = 1
  ClockError = 0
  MaxVersion = 12
  ApprovalTtl = 2
INVARIANTS
  ExecutedOnceUnderApproval
  UnrecordedEffectNeedsRecovery
  WaitsAreInOrder
PROPERTIES
  DecisionsStand
  
