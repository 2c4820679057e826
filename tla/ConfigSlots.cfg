SPECIFICATION Spec
CONSTANTS
  Readers = {r1}
  VirtualIds = {A, B}
  Real = Real
  MaxGeneration = 3
  MaxSwitches = 3
INVARIANT TypeOK
INVARIANT UnlappedReplyCoherent
INVARIANT SwitchesNeverUndercount
PROPERTY PublicationIsAtomic
