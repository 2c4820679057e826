------------------------- MODULE MCStartupReadiness -------------------------
(* Settings for StartupReadiness: a window that is no multiple of the poll *)
(* time and fits, and one longer than the deadline, which is then raised;  *)
(* the CPU limit is low in one and the default in the other.               *)
EXTENDS StartupReadiness

Setting(poll, stableMs, deadlineMs, permille) ==
  [poll |-> poll, stable |-> stableMs, deadline |-> deadlineMs, permille |-> permille]

MCEnvironments == {Setting(1000, 2500, 5000, 50), Setting(1000, 5500, 5000, Unset)}

=============================================================================
