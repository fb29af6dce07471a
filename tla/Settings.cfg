SPECIFICATION FairSpec
CONSTANTS
  Messages = {"yes", "digest", "stranger", "broken"}
  Nobody = "nobody"
  Kind <- KindOf
  WaitingApprovals = 1
  QuarantineAttempts = 2
  BatchLimit = 2
  MaxMail = 2
  MaxRecreations = 0
  MaxDay = 1
  MaxSkew = 0
  MaxFailures = 1
  MaxEdits = 1
INVARIANTS
  NoMailSkipped
PROPERTIES
  MailIsSettled
CHECK_DEADLOCK FALSE
