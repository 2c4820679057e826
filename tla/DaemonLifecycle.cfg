SPECIFICATION FairSpec
CONSTANTS
  Daemons = {1, 2}
  KernelSet <- MCKernels
  Hooks = {1, 2}
  None = None
  MaxBoots = 2
  MaxKills = 1
  MaxCleanups = 1
INVARIANTS
  NoStackedHooks ServingHookIsRight LiveHookHasDaemon FingerprintIsOriginal CapabilityIsCurrent
PROPERTIES DaemonSettles
