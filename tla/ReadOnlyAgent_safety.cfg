\* One run, two tasks, up to three attempts of three turns, skewed clocks.
SPECIFICATION RSpec
CONSTANTS
  t1 = t1
  t2 = t2
  None = None
  Run = {1}
  Task = {t1, t2}
  WorkerId = {"w1"}
  LeaseTtl = 1
  MaxRetryDelay = 0
  MaxRunRetries = 2
  MaxCandidateScan = 1
  ClockError = 1
  MaxVersion = 19
  MaxProviderTurns = 3
  MaxTotalToolCalls = 2
  MaxToolCalls = 2
  Stateless = FALSE
SYMMETRY Symmetry
INVARIANTS
  NothingIsRepeated
  SentIsHeld
  EndedInNoDoubt
  CountsAreKept
