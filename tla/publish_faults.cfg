SPECIFICATION Spec
CONSTANTS
  r1 = r1
  r2 = r2
  Row <- OneRow
  NoRow = NoRow
  NoPost = NoPost
  MaxRetries = 1
  ApiRetries = 0
  Faults = {"timeout", "lost", "refuse", "down", "dberror", "die", "overlap", "cancel", "reset"}
  Subscribed = {"scheduled", "published", "failed", "cancelled"}
  Reviews = {"needs_revision", "approved"}
INVARIANTS TypeOK ProcessingIsExplained
PROPERTIES ImplementsLedger
CHECK_DEADLOCK FALSE
