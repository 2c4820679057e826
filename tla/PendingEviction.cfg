SPECIFICATION Spec
CONSTANTS
  Tasks = {t1, t2, t3}
  None = None
  Hals = {h1}
  Ways = 2
  Depth = 1
  MaxEvents = 3
  MaxNesting = 1
  MaxGeneration = 1
  MaxPid = 1
  Live = {}
SYMMETRY TaskSymmetry
INVARIANT TableWellFormed
PROPERTY EvictsOldestOnlyWhenFull
