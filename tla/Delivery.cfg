SPECIFICATION Spec
CONSTANTS
  None = None
  Messages = {m1, m2, d1}
  DailyCheckIns = {d1}
  Approvals = {a1}
  CrossAppApprovals = {}
  Requests = {r1, r2, r3}
  Operations = {"propose", "decide", "edit", "patch"}
  PatchStatuses = {"approved", "cancelled"}
  Workers = {w1}
  MaxDeliveryAttempts = 2
  DeliveryLimit = 1
  CallOutcomes = {"ok", "lost", "unsent"}
  MaxFailures = 1
SYMMETRY Symmetry
INVARIANTS
  TypeOK
  
  DailyAttemptsBounded
