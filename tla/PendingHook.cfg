SPECIFICATION FairSpec
CONSTANTS
  Tasks = {t1, t2}
  None = None
  Hals = {h1}
  Ways = 1
  Depth = 1
  MaxEvents = 3
  MaxNesting = 2
  MaxGeneration = 1
  MaxPid = 1
  Live = {t1}
INVARIANT ExactUnlessDisturbed
PROPERTY HookCompletes
