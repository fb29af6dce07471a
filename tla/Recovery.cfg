SPECIFICATION FairSpec
CONSTANTS
  None = None
  Messages = {m1, m2}
  DailyCheckIns = {}
  Approvals = {a1, x1}
  CrossAppApprovals = {x1}
  Requests = {r1, r2}
  Operations = {"propose", "notify", "decide", "cross_app"}
  PatchStatuses = {"approved", "cancelled"}
  Workers = {w1}
  MaxDeliveryAttempts = 2
  DeliveryLimit = 1
  CallOutcomes = {"ok", "lost", "unsent"}
  MaxFailures = 2
PROPERTIES
  StuckSendsSettle
  DeliverablesDrain
  LapsedApprovalsExpire
  
