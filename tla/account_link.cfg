SPECIFICATION Spec
CONSTANTS
  u1 = u1
  u2 = u2
  p1 = p1
  p2 = p2
  e1 = e1
  e2 = e2
  e3 = e3
  v1 = v1
  User <- TwoUsers
  Profile <- TwoProfiles
  MaxAccounts = 1
  Ensure <- ThreeRequests
  Visit <- OneVisit
  PlanLimit = 2
  Nameless = {}
  Faults = {"down", "lost", "dberror", "die"}
  NoUser = NoUser
  NoProfile = NoProfile
  NoAccount = NoAccount
INVARIANTS TypeOK RowIsOwn ProfileIsRecorded LinkAgrees
SYMMETRY Alike
CHECK_DEADLOCK FALSE
