SPECIFICATION FairStartup
CONSTANTS
  old = old  new1 = new1  new2 = new2
  Procs = {old, new1, new2}
  Versions = 2
  Build <- MCBuild
  Creating = {1}
  MaxFaults = 2
INVARIANTS MigratedOnce ServesMigrated
PROPERTIES EveryoneServes
CHECK_DEADLOCK FALSE
