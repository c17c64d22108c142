SPECIFICATION Spec
CONSTANTS
  r1 = r1
  r2 = r2
  Row <- TwoRows
  NoRow = NoRow
  NoPost = NoPost
  MaxRetries = 1
  ApiRetries = 1
  Faults = {"refuse"}
  Subscribed = {"scheduled", "published", "failed", "cancelled"}
  Reviews = {}
INVARIANTS OneWaitingPost PublishedIsReal
SYMMETRY Rows
CHECK_DEADLOCK FALSE
