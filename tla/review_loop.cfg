SPECIFICATION FairSpec
CONSTANTS
  p1 = p1
  p2 = p2
  Id <- TwoPosts
  MaxTexts = 3
INVARIANTS
  TypeOK
  ReviewIsOfText
  ImageIsOfText
  EveryTextWasReviewed
  
PROPERTIES
  NoPostIsLost
  LoopEnds
CHECK_DEADLOCK FALSE
