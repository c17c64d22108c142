SPECIFICATION ScanSpec
CONSTANTS
  a1 = a1
  a2 = a2
  a3 = a3
  a4 = a4
  s1 = s1
  s2 = s2
  Caller <- TwoScans
  Self = s1
  Limit = 1
  Window = 2
  MaxClock = 2
  MaxStories = 4
  Url <- Articles
  Points = {1, 2}
  ListTries = 2
  MaxItems = 3
  ChunkSize = 2
  NumPosts = 2
  Attempts = 2
  Quality = {1, 2}
INVARIANTS
  TypesOK
  LimitIsKept
  ItemsAreBest
  EveryItemIsOnce
  PromotionFills
  PromotionFits
  BestAreAttempted
SYMMETRY Alike
CHECK_DEADLOCK FALSE
