SPECIFICATION Spec
CONSTANTS
  Messages = {c1, m1}
  DailyCheckIns = {c1}
  Approvals = {a1, a2}
  CrossAppApprovals = {a1}
  MaxDeliveryAttempts = 1
  None = none
  Documents = {d1}
  Texts <- SomeTexts
  ProviderIds = {p1, p2}
  MaxVersion = 2
  MaxJobs = 3
  Paths <- FilePaths
  NoVersion = noVersion
INVARIANTS
  DocumentsAgree
PROPERTIES
  CallsAgree
CHECK_DEADLOCK FALSE
