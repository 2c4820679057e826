-------------------------- MODULE HalMonitorProofs --------------------------
(***************************************************************************)
(* HalMonitor for any number of HAL processes, any size of an identity set *)
(* and every bound on failures: whenever the control loop blocks, the hook *)
(* gates on what the daemon believes and nothing published is unwatched;   *)
(* identity sets replace each other through the empty one; and a daemon    *)
(* that stops without a failure leaves none behind.                        *)
(***************************************************************************)
EXTENDS HalMonitor, FiniteSetTheorems, TLAPS

\* Once the installed set has been read, the daemon knows what is published,
\* and what is published fits a set.
KnownInv ==
  /\ pc \notin {"start", "stopped"} => active = kernel
  /\ Cardinality(kernel.tgids) <= Limit
  /\ pc \in {"start", "attach"} => backend = "waiting" /\ watched = {}
  /\ pc = "attach" => kernel.tgids # {}

\* The backend says how the published set is watched.
Watched ==
  /\ backend = "pidfd" => watched = kernel.tgids /\ watched # {}
  /\ backend = "fallback" => watched = {} /\ kernel.tgids # {}
  /\ backend = "waiting" => watched = {} /\ kernel.tgids = {}

WatchInv ==
  pc \in {"loop", "arm", "poll", "accept", "read", "scan", "adopt"} => Watched

\* While a scan is evaluated: it was due, and what it found replaces nothing
\* but the empty set or itself.
ScanInv ==
  /\ pc \in {"scan", "adopt"} => backend # "pidfd"
  /\ pc \in {"adopt", "publish"} => /\ Cardinality(found) <= Limit
                                    /\ active.tgids \in {{}, found}
  /\ pc = "publish" => found # {} /\ watched \in {{}, found}

IInv == TypeOK /\ KnownInv /\ WatchInv /\ ScanInv /\ StoppedUntracked

-----------------------------------------------------------------------------
(* Publishing.                                                             *)

\* The empty set fits.
LEMMA EmptyFits ==
  Cardinality({}) = 0 /\ Cardinality({}) <= Limit
BY FS_EmptySet, LimitsAssumption

\* A set is published under a new generation.
LEMMA PublishEffect ==
  ASSUME TypeOK, active = kernel, NEW ids \in SUBSET Pids, Publish(ids)
  PROVE  /\ kernel' \in IdentitySets /\ kernel'.tgids = ids /\ kernel'.gen > kernel.gen
         /\ active' = kernel' /\ faults' = faults
<1>1. kernel.gen \in 0..MaxGeneration /\ kernel.gen < MaxGeneration
  BY DEF Publish, Accepted, TypeOK, IdentitySets
<1>2. kernel' = [gen |-> kernel.gen + 1, tgids |-> ids] /\ active' = kernel' /\ faults' = faults
  BY DEF Publish
<1>3. kernel.gen + 1 \in 0..MaxGeneration /\ kernel.gen + 1 > kernel.gen
  BY <1>1, LimitsAssumption
<1> QED BY <1>2, <1>3 DEF IdentitySets

\* A publication that fails leaves the hook alone; it is a fault, or the
\* generations are used up.
LEMMA PublishFailsEffect ==
  ASSUME TypeOK, active = kernel, PublishFails
  PROVE  /\ kernel' = kernel /\ active' = active /\ faults' \in 0..MaxFaults
         /\ faults' = 0 => ~(kernel.gen < MaxGeneration)
<1>1. kernel' = kernel /\ active' = active
  BY DEF PublishFails
<1>2. faults \in Nat /\ faults <= MaxFaults /\ kernel.gen \in Nat
  BY BoundAssumption, LimitsAssumption DEF TypeOK, IdentitySets
<1>3. CASE Accepted
  <2>1. faults < MaxFaults /\ faults' = faults + 1
    BY <1>3 DEF PublishFails, Fault
  <2> QED BY <1>1, <1>2, <2>1, BoundAssumption
<1>4. CASE ~Accepted
  <2>1. faults' = faults
    BY <1>4 DEF PublishFails
  <2>2. ~(kernel.gen < MaxGeneration)
    BY <1>2, <1>4 DEF Accepted
  <2> QED BY <1>1, <1>2, <2>1, <2>2, BoundAssumption
<1> QED BY <1>3, <1>4

\* clear_monitored_identities, when it succeeds.
LEMMA ClearedEffect ==
  ASSUME TypeOK, active = kernel, NEW ms, Cleared(ms)
  PROVE  /\ kernel' \in IdentitySets /\ kernel'.tgids = {} /\ active' = kernel' /\ faults' = faults
         /\ kernel' = kernel \/ kernel'.gen > kernel.gen
         /\ watched' = {} /\ backend' = "waiting" /\ retry' = ms
<1>1. watched' = {} /\ backend' = "waiting" /\ retry' = ms
  BY DEF Cleared
<1>2. CASE active.tgids = {}
  <2>1. kernel' = kernel /\ active' = active /\ faults' = faults
    BY <1>2 DEF Cleared
  <2> QED BY <1>1, <1>2, <2>1 DEF TypeOK
<1>3. CASE active.tgids # {}
  <2>1. Publish({})
    BY <1>3 DEF Cleared
  <2>2. {} \in SUBSET Pids
    OBVIOUS
  <2> QED BY <1>1, <2>1, <2>2, PublishEffect
<1> QED BY <1>2, <1>3

\* The backoff stays within its limits.
LEMMA BackoffType ==
  /\ InitialMs \in InitialMs..MaximumMs
  /\ \A ms \in InitialMs..MaximumMs : Doubled(ms) \in InitialMs..MaximumMs
BY DEF InitialMs, MaximumMs, Doubled

\* A failing access is within the bound.
LEMMA FaultType ==
  ASSUME TypeOK, Fault \/ UNCHANGED faults
  PROVE  faults' \in 0..MaxFaults /\ (Fault => faults' # 0)
BY BoundAssumption DEF Fault, TypeOK

-----------------------------------------------------------------------------
(* The steps.                                                              *)

\* What a step that clears the published set leads to.
LEMMA ClearStep ==
  ASSUME IInv, active = kernel, NEW to \in {"loop", "accept", "adopt", "stopped"},
         NEW ms \in InitialMs..MaximumMs, Cleared(ms), pc' = to, UNCHANGED outside, UNCHANGED scan,
         to = "adopt" => Cardinality(found) <= Limit
  PROVE  IInv'
<1> USE DEF IInv, outside, scan
<1>1. /\ kernel' \in IdentitySets /\ kernel'.tgids = {} /\ active' = kernel' /\ faults' = faults
      /\ watched' = {} /\ backend' = "waiting" /\ retry' = ms
  BY ClearedEffect
<1>2. TypeOK'
  BY <1>1 DEF TypeOK
<1>3. KnownInv'
  BY <1>1, EmptyFits DEF KnownInv
<1>4. WatchInv' /\ ScanInv' /\ StoppedUntracked'
  BY <1>1 DEF WatchInv, Watched, ScanInv, StoppedUntracked
<1> QED BY <1>2, <1>3, <1>4

\* What a step whose clear fails leads to.
LEMMA ClearFailsStep ==
  ASSUME IInv, active = kernel, NEW to \in {"stopped", "exit", "recover"},
         ClearFails, pc' = to, UNCHANGED outside, UNCHANGED scan
  PROVE  IInv'
<1> USE DEF IInv, outside, scan
<1>1. /\ kernel' = kernel /\ active' = active /\ faults' \in 0..MaxFaults
      /\ faults' = 0 => ~(kernel.gen < MaxGeneration)
      /\ watched' = {} /\ UNCHANGED <<backend, retry>>
  BY PublishFailsEffect DEF ClearFails
<1>2. TypeOK'
  BY <1>1 DEF TypeOK
<1>3. KnownInv' /\ WatchInv' /\ ScanInv' /\ StoppedUntracked'
  BY <1>1 DEF KnownInv, WatchInv, ScanInv, StoppedUntracked
<1> QED BY <1>2, <1>3

\* Each step keeps the invariant.
LEMMA Step ==
  ASSUME IInv, [Next]_vars
  PROVE  IInv'
<1> USE DEF IInv, Goto, monitor, scan, outside
<1> USE BackoffType, FaultType
<1>1. CASE StartFails
  BY <1>1 DEF StartFails, TypeOK, KnownInv, WatchInv, ScanInv, StoppedUntracked, Fault
<1>2. CASE ReadActive
  BY <1>2 DEF ReadActive, TypeOK, KnownInv, WatchInv, Watched, ScanInv, StoppedUntracked
<1>3. ASSUME NEW ready \in BOOLEAN, Attach(ready) PROVE IInv'
  <2>1. TypeOK'
    BY <1>3 DEF Attach, TypeOK, IdentitySets
  <2>2. KnownInv' /\ WatchInv' /\ ScanInv' /\ StoppedUntracked'
    BY <1>3 DEF Attach, KnownInv, WatchInv, Watched, ScanInv, StoppedUntracked
  <2> QED BY <2>1, <2>2
<1>4. CASE AttachGone
  <2>1. faults' \in 0..MaxFaults
    BY <1>4 DEF AttachGone, PidfdsGone
  <2> QED BY <1>4, <2>1 DEF AttachGone, TypeOK, KnownInv, WatchInv, ScanInv, StoppedUntracked
<1>5. CASE Detach
  BY <1>5, ClearStep, ClearFailsStep DEF Detach, KnownInv
<1>6. CASE Loop \/ Arm
  BY <1>6 DEF Loop, Arm, TypeOK, KnownInv, WatchInv, Watched, ScanInv, StoppedUntracked
<1>7. CASE PidfdEvent
  BY <1>7, ClearStep, ClearFailsStep DEF PidfdEvent, KnownInv
<1>8. CASE Timeout
  <2>1. TypeOK'
    BY <1>8, LastAssumption DEF Timeout, TypeOK
  <2> QED BY <1>8, <2>1 DEF Timeout, KnownInv, WatchInv, Watched, ScanInv, StoppedUntracked
<1>9. CASE PollFails
  BY <1>9 DEF PollFails, TypeOK, KnownInv, WatchInv, ScanInv, StoppedUntracked
<1>10. CASE ClientEvent
  BY <1>10 DEF ClientEvent, TypeOK, KnownInv, WatchInv, Watched, ScanInv, StoppedUntracked
<1>11. CASE Accept
  <2>1. faults' \in 0..MaxFaults /\ pc' \in {"read", "loop"} /\ pc = "accept"
        /\ UNCHANGED <<outside, kernel, monitor, scan>>
    BY <1>11 DEF Accept
  <2> QED BY <2>1 DEF TypeOK, KnownInv, WatchInv, Watched, ScanInv, StoppedUntracked
<1>12. CASE Serve
  BY <1>12 DEF Serve, TypeOK, KnownInv, WatchInv, Watched, ScanInv, StoppedUntracked
<1>13. CASE Inspect
  <2>1. cursor' \in 1..(Last + 1) /\ found' \in SUBSET Pids
    BY <1>13, LastAssumption DEF Inspect, TypeOK, Pids
  <2> QED BY <1>13, <2>1 DEF Inspect, TypeOK, KnownInv, WatchInv, Watched, ScanInv, StoppedUntracked
<1>14. CASE ScanFails
  <2>1. faults' \in 0..MaxFaults
    BY <1>14 DEF ScanFails
  <2> QED BY <1>14, <2>1 DEF ScanFails, TypeOK, KnownInv, WatchInv, ScanInv, StoppedUntracked
<1>15. CASE Reconcile
  <2>1. active = kernel /\ Cardinality(found) <= Limit /\ pc = "scan" /\ UNCHANGED <<outside, scan>>
    BY <1>15 DEF Reconcile, KnownInv
  <2>2. CASE active.tgids # {} /\ active.tgids # found
    BY <1>15, <2>1, <2>2, ClearStep, ClearFailsStep DEF Reconcile
  <2>3. CASE ~(active.tgids # {} /\ active.tgids # found)
    <3>1. pc' = "adopt" /\ UNCHANGED <<kernel, active, backend, retry, watched, faults>>
      BY <1>15, <2>3 DEF Reconcile
    <3> QED BY <2>1, <2>3, <3>1 DEF TypeOK, KnownInv, WatchInv, Watched, ScanInv, StoppedUntracked
  <2> QED BY <2>2, <2>3
<1>16. CASE AdoptNothing
  <2>1. TypeOK'
    BY <1>16 DEF AdoptNothing, TypeOK
  <2> QED BY <1>16, <2>1 DEF AdoptNothing, KnownInv, WatchInv, Watched, ScanInv, StoppedUntracked, TypeOK
<1>17. ASSUME NEW ready \in BOOLEAN, Adopt(ready) PROVE IInv'
  <2>1. TypeOK'
    BY <1>17 DEF Adopt, TypeOK
  <2> QED BY <1>17, <2>1 DEF Adopt, KnownInv, WatchInv, Watched, ScanInv, StoppedUntracked
<1>18. CASE AdoptGone
  <2>1. faults' \in 0..MaxFaults
    BY <1>18 DEF AdoptGone, PidfdsGone
  <2>2. TypeOK'
    BY <1>18, <2>1 DEF AdoptGone, TypeOK
  <2> QED BY <1>18, <2>2 DEF AdoptGone, KnownInv, WatchInv, Watched, ScanInv, StoppedUntracked, TypeOK
<1>19. CASE AdoptPublish
  <2>0. /\ pc = "publish" /\ active = kernel /\ found \in SUBSET Pids /\ found # {}
        /\ watched \in {{}, found} /\ Cardinality(found) <= Limit
        /\ UNCHANGED <<outside, watched, scan>>
    BY <1>19 DEF AdoptPublish, KnownInv, ScanInv, TypeOK
  <2>1. CASE /\ pc' = "loop"
             /\ IF active.tgids = found THEN UNCHANGED <<kernel, active, faults>> ELSE Publish(found)
             /\ backend' = (IF watched = {} THEN "fallback" ELSE "pidfd") /\ retry' = InitialMs
    <3>1. kernel' \in IdentitySets /\ kernel'.tgids = found /\ active' = kernel' /\ faults' = faults
      BY <2>0, <2>1, PublishEffect DEF TypeOK
    <3>2. TypeOK'
      BY <2>0, <2>1, <3>1 DEF TypeOK
    <3> QED BY <2>0, <2>1, <3>1, <3>2 DEF KnownInv, WatchInv, Watched, ScanInv, StoppedUntracked
  <2>2. CASE pc' = "recover" /\ PublishFails /\ UNCHANGED <<backend, retry>>
    <3>1. kernel' = kernel /\ active' = active /\ faults' \in 0..MaxFaults
      BY <2>0, <2>2, PublishFailsEffect
    <3> QED BY <2>0, <2>2, <3>1 DEF TypeOK, KnownInv, WatchInv, ScanInv, StoppedUntracked
  <2> QED BY <1>19, <2>1, <2>2 DEF AdoptPublish
<1>20. CASE Recover
  <2>1. Doubled(InitialMs) \in InitialMs..MaximumMs
    OBVIOUS
  <2> QED BY <1>20, <2>1, ClearStep, ClearFailsStep DEF Recover, KnownInv
<1>21. CASE Exit
  BY <1>21, ClearStep, ClearFailsStep DEF Exit, KnownInv
<1>22. ASSUME NEW p \in Pids, Birth(p) \/ Death(p) PROVE IInv'
  BY <1>22 DEF Birth, Death, TypeOK, KnownInv, WatchInv, Watched, ScanInv, StoppedUntracked
<1>23. CASE Connect
  BY <1>23, BoundAssumption DEF Connect, TypeOK, KnownInv, WatchInv, Watched, ScanInv, StoppedUntracked
<1>24. CASE Requests
  BY <1>24 DEF Requests, Request, TypeOK, KnownInv, WatchInv, Watched, ScanInv, StoppedUntracked
<1>25. CASE Signal
  BY <1>25 DEF Signal, TypeOK, KnownInv, WatchInv, Watched, ScanInv, StoppedUntracked
<1>26. CASE Expire
  BY <1>26 DEF Expire, TypeOK, KnownInv, WatchInv, Watched, ScanInv, StoppedUntracked
<1>27. CASE UNCHANGED vars
  BY <1>27 DEF vars, TypeOK, KnownInv, WatchInv, Watched, ScanInv, StoppedUntracked
<1> QED
  BY <1>1, <1>2, <1>3, <1>4, <1>5, <1>6, <1>7, <1>8, <1>9, <1>10, <1>11, <1>12, <1>13, <1>14, <1>15,
     <1>16, <1>17, <1>18, <1>19, <1>20, <1>21, <1>22, <1>23, <1>24, <1>25, <1>26, <1>27
  DEF Next, Daemon, Environment, Stopped

-----------------------------------------------------------------------------
(* The theorems.                                                           *)

\* The inductive invariant holds in every reachable state.
THEOREM Inductive ==
  Spec => []IInv
<1>1. Init => IInv
  <2> SUFFICES ASSUME Init PROVE IInv
    OBVIOUS
  <2>1. PICK ids \in SUBSET Pids : Cardinality(ids) <= Limit /\ kernel = [gen |-> 1, tgids |-> ids]
    BY DEF Init
  <2>2. kernel \in IdentitySets /\ active \in IdentitySets
    BY <2>1, LimitsAssumption DEF Init, IdentitySets
  <2>3. /\ retry \in InitialMs..MaximumMs /\ cursor \in 1..(Last + 1)
        /\ clients \in 0..MaxClients /\ faults \in 0..MaxFaults
    BY BackoffType, LastAssumption, BoundAssumption DEF Init
  <2>4. TypeOK
    BY <2>2, <2>3 DEF Init, TypeOK
  <2> QED BY <2>1, <2>4 DEF Init, IInv, KnownInv, WatchInv, ScanInv, StoppedUntracked
<1>2. IInv /\ [Next]_vars => IInv'
  BY Step
<1> QED BY <1>1, <1>2, PTL DEF Spec

\* Type correctness.
THEOREM TypeCorrect ==
  Spec => []TypeOK
BY Inductive, PTL DEF IInv

\* Whenever run_control_socket_server blocks in poll, what the daemon
\* believes is what the hook gates on, the set fits, and each process in it
\* is watched through a pidfd or looked up again after a timeout.
THEOREM Unwatched ==
  Spec => []NothingUnwatched
<1>1. IInv => NothingUnwatched
  BY DEF IInv, KnownInv, WatchInv, Watched, NothingUnwatched
<1> QED BY <1>1, Inductive, PTL

\* A daemon that stops leaves no identity behind, unless an access to the
\* kernel failed or the generations are used up.
THEOREM Untracked ==
  Spec => []StoppedUntracked
BY Inductive, PTL DEF IInv

\* reconcile_hal_identities and clear_monitored_identities: the hook never
\* goes from one set of HAL processes to another but through the empty set,
\* and the generation grows with each publication.
THEOREM ThroughEmpty ==
  Spec => EmptyBeforeNew
<1> DEFINE Good == kernel' # kernel => /\ kernel.tgids = {} \/ kernel'.tgids = {}
                                       /\ kernel'.gen > kernel.gen
<1>1. IInv /\ [Next]_vars => [Good]_vars
  <2> SUFFICES ASSUME IInv, Next PROVE Good
    OBVIOUS
  <2> USE DEF IInv
  <2>1. ASSUME NEW ms, Cleared(ms), active = kernel PROVE Good
    BY <2>1, ClearedEffect
  <2>2. ASSUME ClearFails PROVE Good
    BY <2>2 DEF ClearFails, PublishFails
  <2>3. CASE Detach \/ PidfdEvent \/ Recover \/ Exit
    BY <2>1, <2>2, <2>3 DEF Detach, PidfdEvent, Recover, Exit, Goto, KnownInv
  <2>4. CASE Reconcile
    <3>1. active = kernel
      BY <2>4 DEF Reconcile, Goto, KnownInv
    <3> QED BY <2>1, <2>2, <2>4, <3>1 DEF Reconcile
  <2>5. CASE AdoptPublish
    <3>1. active = kernel /\ active.tgids \in {{}, found} /\ found \in SUBSET Pids
      BY <2>5 DEF AdoptPublish, Goto, KnownInv, ScanInv, TypeOK
    <3>2. kernel' = kernel \/ (active.tgids # found /\ Publish(found))
      BY <2>5 DEF AdoptPublish, PublishFails
    <3> QED BY <3>1, <3>2, PublishEffect
  <2>6. CASE StartFails \/ ReadActive \/ AttachGone \/ Loop \/ Arm \/ Timeout \/ PollFails
             \/ ClientEvent \/ Accept \/ Serve
    BY <2>6 DEF StartFails, ReadActive, AttachGone, Loop, Arm, Timeout, PollFails, ClientEvent, Accept,
                Serve
  <2>7. CASE Inspect \/ ScanFails \/ AdoptNothing \/ AdoptGone
             \/ \E ready \in BOOLEAN : Attach(ready) \/ Adopt(ready)
    BY <2>7 DEF Inspect, ScanFails, AdoptNothing, AdoptGone, Attach, Adopt
  <2>8. CASE Environment \/ Stopped
    BY <2>8 DEF Environment, Stopped, Birth, Death, Connect, Requests, Request, Signal, Expire, vars
  <2> QED BY <2>3, <2>4, <2>5, <2>6, <2>7, <2>8 DEF Next, Daemon
<1>2. Spec => [][Good]_vars
  BY <1>1, Inductive, PTL DEF Spec
<1> QED BY <1>2 DEF EmptyBeforeNew

=============================================================================
