SPECIFICATION Spec
CONSTANTS
  Messages = {"command", "stranger", "broken"}
  Nobody = "nobody"
  Kind <- KindOf
  WaitingApprovals = 0
  QuarantineAttempts = 2
  BatchLimit = 2
  MaxMail = 3
  MaxRecreations = 1
  MaxDay = 2
  MaxSkew = 0
  MaxFailures = 1
  MaxEdits = 0
INVARIANTS
  TypeOK
  NoMailSkipped
  AgentRunsOnce
  NoticedOnce
  QuarantineIsEarned
