SPECIFICATION FairProgressSpec
CONSTANTS
  c1 = c1
  i1 = i1
  q2 = q2
  q1 = q1
  Client <- OneClient
  Slot <- OneSlot
  Request <- TwoRequests
  Sources = {"scan", "article"}
  MaxErrors = 2
  MayDie = TRUE
  MaxFailures = 1
INVARIANTS
  TypeOK
  CompletedHasItems
  PostsFollowCompletion
PROPERTIES
  RunEnds
  
  ImplementsGateway
  ImplementsLifecycle
CHECK_DEADLOCK FALSE
