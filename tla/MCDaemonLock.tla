---------------------------- MODULE MCDaemonLock ----------------------------
(* Instances of DaemonLock: daemon processes are interchangeable, and so   *)
(* are probes.                                                             *)
EXTENDS DaemonLock, TLC

ProcessSymmetry == Permutations(Daemons) \cup Permutations(Probes)

=============================================================================
