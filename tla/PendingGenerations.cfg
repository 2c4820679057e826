SPECIFICATION Spec
CONSTANTS
  Tasks = {t1}
  None = None
  Hals = {h1, h2}
  Ways = 1
  Depth = 2
  MaxEvents = 3
  MaxNesting = 3
  MaxGeneration = 3
  MaxPid = 3
  Live = {}
SYMMETRY HalSymmetry
INVARIANT ExactUnlessDisturbed
INVARIANT NoFrameOlderThanHal
