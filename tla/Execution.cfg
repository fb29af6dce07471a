SPECIFICATION Spec
CONSTANTS
  None = None
  Messages = {m1}
  DailyCheckIns = {}
  Approvals = {x1}
  CrossAppApprovals = {x1}
  Requests = {r1, r2, r3, r4}
  Operations = {"cross_app", "decide", "notify", "patch"}
  PatchStatuses = {"approved"}
  Workers = {w1, w2}
  MaxDeliveryAttempts = 2
  DeliveryLimit = 1
  CallOutcomes = {"ok", "lost", "unsent"}
  MaxFailures = 1
SYMMETRY Symmetry
INVARIANTS
  AtMostOneCall
  CallsAreApproved
  DeliveredOncePerArming
PROPERTIES
  ExecutionMovesForward
  KeepsPromise
