SPECIFICATION FairSpec
CONSTANTS
  user1 = user1
  user2 = user2
  Users <- MCUsers
  Services <- MCServices
  Started <- MCStarted
  Migrations = 2
  MaxExits = 2
  StaleAfter = 2
  Watchdog = 3
INVARIANTS
  MigratedOnce
  HealthIsEarned
PROPERTIES
  RoundsRecur
