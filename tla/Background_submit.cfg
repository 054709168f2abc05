\* One run and two tasks that make up to two attempts with two reservations,
\* skewed clocks, a reconciler, and a host that keeps closing expired turns.
SPECIFICATION BFairSpec
CONSTANTS
  t1 = t1
  t2 = t2
  p1 = p1
  p2 = p2
  None = None
  Run = {1}
  Task = {t1, t2}
  WorkerId = {"w1"}
  LeaseTtl = 1
  MaxRetryDelay = 0
  MaxRunRetries = 1
  MaxCandidateScan = 2
  ClockError = 1
  MaxVersion = 8
  Submission = {1, 2}
  Reconciler = {p1}
  Status = {"completed"}
  ResponseWindow = 1
  ClaimTtl = 1
  MaxDelay = 1
  MaxRetries = 0
  MaxScan = 1
  MaxDuplicates = 1
  MaxReceipts = 0
  MaxClaimVersion = 2
INVARIANTS
  CreateSentOnce
PROPERTIES
  Settles
  
