SPECIFICATION FairSpec
CONSTANTS
  Pids = {2, 3, 4}
  PidMax = 4
  Environments <- MCEnvironments
  Unset = Unset
  BootWait = 500
  Bursts = {7}
  MaxEvents = 3
CHECK_DEADLOCK FALSE
INVARIANT StableMeansWindow
INVARIANT FallbackMeansUnsettled
PROPERTY GateOpens
