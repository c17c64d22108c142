SPECIFICATION Spec
CONSTANTS
  SlotsPerDay = 4
  SlotLength = 2
  Threshold = 1
  Offset <- East
  Defaults <- SlotsOfDefaults
  Score = {1, 2}
  UserOffsets = {0, 3}
  MaxClock = 10
  NoTime = NoTime
  Nothing = Nothing
INVARIANTS
  TypeOK
  GoldenIsNext
  PendingIsTimely
CHECK_DEADLOCK FALSE
