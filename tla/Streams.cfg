SPECIFICATION FairSpec
CONSTANTS
  MaxHead = 3
  PageSize = 1
  MinimumEvents = 1
  PruneLimit = 2
  Buffer = 1
  MaxDrops = 1
INVARIANTS
  StreamIsUnbroken
PROPERTIES
  ResetOnlyForLoss
  SubscribersAreServed
  
CHECK_DEADLOCK FALSE
