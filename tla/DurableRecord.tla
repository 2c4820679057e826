--------------------------- MODULE DurableRecord ---------------------------
(***************************************************************************)
(* What the users of a record file rely on: the record is replaced as a    *)
(* whole, a reader sees a whole record, and after a power loss it is a     *)
(* whole record too, one that was not yet replaced by a hardened one.      *)
(* The promise holds as long as its writers take turns; once two of them   *)
(* wrote at the same time (contended) nothing is promised.                 *)
(***************************************************************************)
CONSTANTS Records,  \* whole records
          Absent    \* no record

VARIABLES value,      \* what a reader finds
          recoverable,\* what it may find after a power loss
          contended   \* two writers did not take turns

vars == <<value, recoverable, contended>>

Init ==
  /\ value \in Records \cup {Absent}
  /\ recoverable = {value}
  /\ contended = FALSE

\* The new record is visible at once and may or may not survive.
Replace(v) ==
  /\ value' = v
  /\ recoverable' = recoverable \cup {v}

Harden ==
  /\ UNCHANGED value
  /\ recoverable' = {value}

PowerLoss ==
  /\ value' \in recoverable
  /\ recoverable' = {value'}

TakingTurns ==
  /\ contended' = FALSE
  /\ Harden \/ PowerLoss \/ \E v \in Records : Replace(v)

Next == TakingTurns \/ contended'

Spec == Init /\ [][Next]_vars

=============================================================================
