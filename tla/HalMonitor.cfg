SPECIFICATION FairSpec
CONSTANTS
  Last = 2
  Limit = 1
  MaxGeneration = 12
  MaxFaults = 1
  MaxClients = 1
PROPERTY DeadEventuallyUntracked
PROPERTY RunningEventuallyTracked
PROPERTY StopHonoured
INVARIANT TypeOK
INVARIANT NothingUnwatched
INVARIANT StoppedUntracked
PROPERTY EmptyBeforeNew
