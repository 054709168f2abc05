CONSTANTS
    Admins = {a1, a2}
    Refs = {r1, r2, r3}
    MaxRow = 4
    MaxFaults = 2
    Editors = {a1, a2}
    Labels = {l1, l2}
    MaximumPolicies = 1
    ListLimit = 1
    MaxEdits = 3
    Depth = 2
    Tools = {"t1", "t2", "t3"}
    Ceiling <- MCCeiling
    Inputs <- MCInputs
    MaxRuleWrites = 2
    MaxUsage = 2
    Denominator = 4
    Rates <- MCRates
    MaximumVersions = 2
    MaximumRate = 5
    MaxTokens = 5
    MaxCalls = 2
    MaxCost = 11
    k1 = k1
    k2 = k2
    p1 = p1
    p2 = p2
    None = None
    Run = {1}
    Policy = {p1, p2}
    Key = {k1, k2}
    MaxEstimate = 2
    MaxActual = 2
    Ceilings = {1, 3}
    MaxStorable = 3
    MaxPolicies = 2
    MaxGen = 2
    MaxPeriod = 2
SYMMETRY Symmetry
SPECIFICATION Spec
INVARIANTS
  SecretsAgree
  ResolutionIsSound
  AccountsAreExact
PROPERTIES
  WritersRespectEachOther
CHECK_DEADLOCK FALSE
