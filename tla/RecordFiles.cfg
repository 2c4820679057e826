SPECIFICATION Spec
CONSTANTS
  Uis = {u1, u2}
  Pids = {p1, p2}
  Inodes = {1, 2, 3, 4, 5, 6, 7, 8}
  LegacyId = LegacyId
  DerivedId = DerivedId
  ChosenIds = {c1, c2}
  Original = Original
  Absent = Absent
  Torn = Torn
  MaxApplies = 2
  MaxTroubles = 3
INVARIANTS
  StartSurvivesCrashes
  ReportedSurvives
  MigrationKeepsId
PROPERTIES
  OnlyWebUiReplaces
  RefinesDurableRecord
SYMMETRY Symmetry
CHECK_DEADLOCK FALSE
