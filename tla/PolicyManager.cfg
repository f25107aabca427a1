SPECIFICATION ManagerSpec
CONSTANTS
  f1 = f1
  f2 = f2
  Files = {f1, f2}
  OtherFile = other
  MaxJobs = 2
  MaxChanges = 4
  Configurations <- MCConfigurations
CHECK_DEADLOCK FALSE
INVARIANT SettledInStep
PROPERTIES ServesForward NewestIsServed
