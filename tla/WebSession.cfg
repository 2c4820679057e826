SPECIFICATION FairSpec
CONSTANTS
  Pages = {p1, p2}
  None = None
  IdleTimeout = 3
  OpenGrace = 4
INVARIANTS ActivePageKept
PROPERTIES PortCloses
CHECK_DEADLOCK FALSE
