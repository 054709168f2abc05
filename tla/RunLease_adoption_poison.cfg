\* One run, one task that may crash, and a host that keeps running passes.
SPECIFICATION FairSpec
CONSTANTS
  t1 = t1
  t2 = t2
  None = None
  Run = {1}
  Task = {t1}
  WorkerId = {"w1"}
  LeaseTtl = 1
  MaxRetryDelay = 0
  MaxRunRetries = 1
  MaxCandidateScan = 1
  ClockError = 0
  MaxVersion = 3
PROPERTIES
  LeasedClaimIsRequeued
