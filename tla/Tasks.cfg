SPECIFICATION FairSpec
CONSTANTS
  Recurrences = {"check-in"}
  CheckIn = "check-in"
  Requests = {"r1"}
  Changes = {"create", "append", "status", "schedule"}
  PatchStatuses = {"parked"}
  MaxTasks = 3
  MaxOneOff = 1
  Workers = {"w1"}
  ClaimLimit = 2
  MaxFailures = 1
INVARIANTS
  RunsAreAsked
  CompletedIsQueued
  CheckInIsTried
PROPERTIES
  RecurrencesRun
  ClaimsSettle
  DuplicatesSettle
