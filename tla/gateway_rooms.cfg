SPECIFICATION Spec
CONSTANTS
  c1 = c1
  c2 = c2
  i1 = i1
  i2 = i2
  Client <- TwoClients
  Kinds = {"scan", "publish"}
  Slot <- TwoSlots
  Moves <- AllMoves
  Announced <- WebhookMoves
  MaxFailures = 1
INVARIANTS TypeOK PollerIsWanted StoppedMeansTold
SYMMETRY Both
CHECK_DEADLOCK FALSE
