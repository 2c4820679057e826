--------------------------- MODULE MCPendingHook ----------------------------
(***************************************************************************)
(* TLC instances of PendingHook.                                           *)
(***************************************************************************)
EXTENDS PendingHook, TLC

\* Threads are interchangeable: no action or invariant names one.
TaskSymmetry == Permutations(Tasks)

\* So are the HALs.
HalSymmetry == Permutations(Hals)
=============================================================================
