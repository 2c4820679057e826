SPECIFICATION Spec
CONSTANTS
  Daemons = {d1, d2, d3}
  Probes = {p1}
  Nobody = Nobody
  MaxInodes = 3
  MaxRemovals = 1
SYMMETRY ProcessSymmetry
CHECK_DEADLOCK FALSE
INVARIANT OneOwnerUnlessRaced
INVARIANT ProbeReportsOwner
