SPECIFICATION FairSpec
CONSTANTS
  Documents = {"note"}
  NoDocument = "none"
  MaxVersion = 3
  MaxJobs = 4
  Indexers = {"rag"}
  Batches = 2
  BatchSize = 2
  MaxAttempts = 2
  MaxFailures = 2
INVARIANTS
  IndexedIsCurrent
  IndexedIsSearchable
  StartsBounded
PROPERTIES
  IndexConverges
CHECK_DEADLOCK FALSE
