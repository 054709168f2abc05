\* One parked turn, two reconcilers, and webhooks that may lie, repeat or come late.
SPECIFICATION BSpec
CONSTANTS
  t1 = t1
  t2 = t2
  p1 = p1
  p2 = p2
  None = None
  Run = {1}
  Task = {t1}
  WorkerId = {"w1"}
  LeaseTtl = 1
  MaxRetryDelay = 0
  MaxRunRetries = 0
  MaxCandidateScan = 2
  ClockError = 1
  MaxVersion = 3
  Submission = {1}
  Reconciler = {p1, p2}
  Status = {"completed", "incomplete"}
  ResponseWindow = 2
  ClaimTtl = 1
  MaxDelay = 2
  MaxRetries = 1
  MaxScan = 1
  MaxDuplicates = 1
  MaxReceipts = 3
  MaxClaimVersion = 4
SYMMETRY Symmetry
INVARIANTS
  
  ClaimIsExclusive
  AnswerIsTrue
PROPERTIES
  LateComersChangeNothing
