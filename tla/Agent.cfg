SPECIFICATION FairSpec
CONSTANTS
  owner = owner
  task1 = task1
  task2 = task2
  Turns <- MCTurns
  Mixes <- MCMixes
  Sources <- MCSources
  Reach <- MCReach
  MaxRows <- MCMaxRows
  NoThread = NoThread
  Threads = {th}
  Researched = {th}
  MaxMessages = 1
  MaxRuns = 3
  MaxToolCalls = 2
INVARIANTS
  
  BudgetsHold
PROPERTIES
  HandoffIsClean
  TurnsSettle
CHECK_DEADLOCK FALSE
