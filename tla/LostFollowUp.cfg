SPECIFICATION Spec
CONSTANTS
  Recurrences = {"check-in"}
  CheckIn = "check-in"
  Requests = {"r1", "r2"}
  Changes = {"create", "append"}
  PatchStatuses = {}
  MaxTasks = 2
  MaxOneOff = 1
  Workers = {"w1"}
  ClaimLimit = 1
  MaxFailures = 0
INVARIANTS
  FollowUpsAreRun
