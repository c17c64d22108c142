SPECIFICATION FairSpec
CONSTANTS
  c1 = c1
  c2 = c2
  i1 = i1
  i2 = i2
  Client <- OneClient
  Kinds = {"publish"}
  Slot <- OneSlot
  Moves <- SilentMoves
  Announced <- None
  MaxFailures = 0
PROPERTIES PublishIsReported

CHECK_DEADLOCK FALSE
