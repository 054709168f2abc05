\* One run, two tasks of one worker that may crash, skewed clocks, and a host
\* that keeps running recovery passes.
SPECIFICATION FairSpec
CONSTANTS
  t1 = t1
  t2 = t2
  None = None
  Run = {1}
  Task = {t1, t2}
  WorkerId = {"w1"}
  LeaseTtl = 2
  MaxRetryDelay = 1
  MaxRunRetries = 1
  MaxCandidateScan = 1
  ClockError = 1
  MaxVersion = 9
INVARIANTS
  FenceExclusive
  OutcomesTellHistory
  AttemptsBounded
  OnlyBatchesAreHandedOver
PROPERTIES
  RowIsProtected
  AbandonedIsRecovered
