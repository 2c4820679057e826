SPECIFICATION FairSpec
CONSTANTS
  Uis = {u1, u2}
  Ids = {A, B}
  Derived = A
  NoConfig = NoConfig
  MaxGeneration = 3
  MaxFaults = 1
  MaxStops = 2
  OneUi = TRUE
CHECK_DEADLOCK FALSE
INVARIANT TypeOK
INVARIANT SuccessTakesEffect
INVARIANT FileNotBehind
INVARIANT RestartKeepsRunning
PROPERTY RequestsAnswered
