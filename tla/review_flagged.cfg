SPECIFICATION FairSpec
CONSTANTS
  p1 = p1
  p2 = p2
  Id <- TwoPosts
  MaxTexts = 3
INVARIANTS FailingIsFlagged
CHECK_DEADLOCK FALSE
