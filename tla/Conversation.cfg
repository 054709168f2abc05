SPECIFICATION Spec
CONSTANTS
    DeltaBytes = 3
    DeltaDelay = 2
    MaxItem = 2
    CallId = {1, 2}
    Fragment <- MCFragment
    Deployment <- MCDeployment
    MaxEvents = 12
    BlockBytes = 3
    MaxBlocks = 3
    MaxMessages = 5
    MaxResults = 3
    MaxCrashes = 2
INVARIANTS
  AnswerIsKept
  ReadersSeeTheAnswer
  RequestsAreTrue
  ConversationGoesOn
CHECK_DEADLOCK FALSE
