SPECIFICATION FairSpec
CONSTANTS
  r1 = r1
  r2 = r2
  Row <- OneRow
  NoRow = NoRow
  NoPost = NoPost
  MaxRetries = 1
  ApiRetries = 1
  Faults = {"timeout", "lost", "refuse", "down", "dberror"}
  Subscribed = {}
  Reviews = {}
INVARIANTS DuplicateNeedsDoubt RefusalIsFinal
PROPERTIES PipelineEnds RetriesRunOut
CHECK_DEADLOCK FALSE
